------------------------------ MODULE GcQueue ------------------------------
(***************************************************************************)
(* Deferred freeing in Cyclone DDS: the virtual times of threads and the   *)
(* garbage collector's queue (q_thread, q_gc, and the deletion of entities *)
(* of one domain, "ours", that goes through them).                         *)
(*                                                                         *)
(* A thread is awake while it may hold pointers to entities.  Deleting an  *)
(* entity removes it from the index, notes every thread of the domain that *)
(* is awake, and leaves the rest to the collector, which frees the entity  *)
(* once each of those threads has been asleep.                             *)
(***************************************************************************)
EXTENDS Integers, FiniteSets, Sequences

CONSTANTS NSlots,    \* slots of application threads; slot 0 is the collector
          Objects,   \* entities of the domain
          TwoPhase,  \* those whose deletion is requeued once
          Leased,    \* those the collector deletes itself on lease expiry
          MaxNest,   \* nesting of awake (15 in the code)
          TimeMod,   \* virtual times are counted modulo this (2^28)
          MaxTick,   \* bound: a thread wakes only below this virtual time
          Noop,      \* the request gcreq_queue_free makes
          None

ASSUME GcAssumption ==
    /\ NSlots \in Nat \ {0}
    /\ TwoPhase \subseteq Objects /\ Leased \subseteq Objects
    /\ MaxNest \in Nat \ {0}
    /\ TimeMod \in Nat /\ TimeMod > 2
    /\ MaxTick \in 0..TimeMod
    /\ Noop \notin Objects /\ None \notin Objects \union {Noop}

VARIABLES
    state,     \* per slot: "zero", "lazy" or "alive"
    gv,        \* per slot: the domain its thread is or was last in
    nest,      \* per slot: low bits of vtime, 0 when asleep
    tick,      \* per slot: high bits of vtime
    refs,      \* per slot: entities its thread has pointers to
    index,     \* entities that can be found in the entity index
    freed,     \* entities whose memory has been released
    gather,    \* per slot: a gcreq_new in progress
    waitfor,   \* per request: the threads and times gathered
    queue,     \* requests in the collector's queue
    count,     \* gcreq_queue.count
    current,   \* the request the collector holds
    gc,        \* where the collector's thread is
    requeued,  \* requests in their second phase
    terminate, \* gcreq_queue.terminate
    fini       \* progress of rtps_stop and gcreq_queue_free

threads  == <<state, gv, nest, tick, refs>>
entities == <<index, freed>>
requests == <<waitfor, queue, count, requeued>>
control  == <<current, gc, terminate, fini>>
vars     == <<threads, entities, gather, requests, control>>

Gc       == 0
Slots    == 1..NSlots
Threads  == 0..NSlots
Requests == Objects \union {Noop}
Idle     == [req |-> None, step |-> "none", next |-> 0, seen |-> 0]
Scan(o)  == [req |-> o, step |-> "vtime", next |-> 0, seen |-> 0]
Entries  == Threads \X (0..TimeMod - 1)
Scans    == [req : Objects \union {None},
             step : {"none", "vtime", "gv", "count", "queue"},
             next : 0..NSlots + 1, seen : 0..TimeMod - 1]

TypeOK ==
    /\ state \in [Threads -> {"zero", "lazy", "alive"}]
    /\ gv \in [Threads -> {"none", "ours", "other"}]
    /\ nest \in [Threads -> 0..MaxNest]
    /\ tick \in [Threads -> 0..TimeMod - 1]
    /\ refs \in [Threads -> SUBSET Objects]
    /\ index \subseteq Objects
    /\ freed \subseteq Objects
    /\ gather \in [Threads -> Scans]
    /\ waitfor \in [Requests -> SUBSET Entries]
    /\ queue \in Seq(Requests)
    /\ count \in Int
    /\ current \in Requests \union {None}
    /\ gc \in {"top", "waiting", "woken", "lease", "leasing", "check", "call",
               "free", "done", "exit"}
    /\ requeued \subseteq Objects
    /\ terminate \in BOOLEAN
    /\ fini \in {"run", "drain", "drained", "wait", "noop", "join", "done"}

Init ==
    /\ state = [t \in Threads |-> IF t = Gc THEN "alive" ELSE "zero"]
    /\ gv = [t \in Threads |-> IF t = Gc THEN "ours" ELSE "none"]
    /\ nest = [t \in Threads |-> 0]
    /\ tick = [t \in Threads |-> 0]
    /\ refs = [t \in Threads |-> {}]
    /\ index = Objects /\ freed = {}
    /\ gather = [t \in Threads |-> Idle]
    /\ waitfor = [r \in Requests |-> {}]
    /\ queue = <<>> /\ count = 0 /\ requeued = {}
    /\ current = None /\ gc = "top"
    /\ terminate = FALSE /\ fini = "run"

\* vtime_gt: the difference as a signed number.
LaterThan(t1, t0) == (t1 - t0) % TimeMod \in 1..(TimeMod - 1) \div 2

\* threads_vtime_check: has the thread of an entry moved on?
MovedOn(e) == LaterThan(tick[e[1]], e[2]) \/ gv[e[1]] # "ours"

-----------------------------------------------------------------------------
(* Faulty variants of the operations below.  No specification uses them.   *)

\* The last slot is left out of the scan.
PassedOneLess(g) == [g EXCEPT !.step = IF g.next + 1 >= NSlots THEN "count"
                                       ELSE "vtime",
                              !.next = @ + 1]

\* The first request of an empty queue is not announced.
EnqueueSilently(t) ==
    /\ gather[t].step = "queue"
    /\ queue' = Append(queue, gather[t].req)
    /\ gather' = [gather EXCEPT ![t] = Idle]
    /\ UNCHANGED <<threads, entities, waitfor, count, requeued, control>>

\* The collector leaves as soon as it is told to.
Ended == terminate

\* The no-op is not announced.
EnqueueNoopSilently ==
    /\ fini = "noop"
    /\ queue' = Append(queue, Noop)
    /\ fini' = "join"
    /\ UNCHANGED <<threads, entities, gather, waitfor, requeued, count,
                   current, gc, terminate>>
-----------------------------------------------------------------------------
(* Threads                                                                 *)

\* lazy_create_thread_state: a thread takes a slot; vtime goes on in it.
Register(t) ==
    /\ state[t] = "zero"
    /\ state' = [state EXCEPT ![t] = "lazy"]
    /\ gv' = [gv EXCEPT ![t] = "none"]
    /\ UNCHANGED <<nest, tick, refs, entities, gather, requests, control>>

\* cleanup_thread_state: the thread ends and its slot may be taken again.
Exit(t) ==
    /\ state[t] = "lazy"
    /\ nest[t] = 0
    /\ state' = [state EXCEPT ![t] = "zero"]
    /\ UNCHANGED <<gv, nest, tick, refs, entities, gather, requests, control>>

\* thread_state_awake, the store of gv, by a thread that is asleep.
EnterDomain(t, d) ==
    /\ state[t] = "lazy"
    /\ nest[t] = 0 /\ gv[t] # d /\ tick[t] < MaxTick
    /\ gv' = [gv EXCEPT ![t] = d]
    /\ UNCHANGED <<state, nest, tick, refs, entities, gather, requests, control>>

\* thread_state_awake, the store of vtime; nested calls name the same domain.
Awake(t) ==
    /\ state[t] = "lazy"
    /\ gv[t] # "none" /\ nest[t] < MaxNest
    /\ nest[t] = 0 => tick[t] < MaxTick
    /\ fini \in {"run", "drain"} \/ gv[t] = "other"
    /\ nest' = [nest EXCEPT ![t] = @ + 1]
    /\ UNCHANGED <<state, gv, tick, refs, entities, gather, requests, control>>

\* thread_state_asleep: the pointers are given up with the outermost section.
Asleep(t) ==
    /\ nest[t] > 0 /\ gather[t] = Idle
    /\ nest' = [nest EXCEPT ![t] = @ - 1]
    /\ tick' = [tick EXCEPT ![t] = IF nest[t] = 1 THEN (@ + 1) % TimeMod ELSE @]
    /\ refs' = [refs EXCEPT ![t] = IF nest[t] = 1 THEN {} ELSE @]
    /\ UNCHANGED <<state, gv, entities, gather, requests, control>>

\* thread_state_awake_to_awake_no_nest
AwakeToAwake(t) ==
    /\ nest[t] = 1 /\ gather[t] = Idle /\ tick[t] < MaxTick
    /\ tick' = [tick EXCEPT ![t] = (@ + 1) % TimeMod]
    /\ refs' = [refs EXCEPT ![t] = {}]
    /\ UNCHANGED <<state, gv, nest, entities, gather, requests, control>>

\* A lookup in the entity index by a thread that is awake.
Lookup(t, o) ==
    /\ nest[t] > 0 /\ gv[t] = "ours"
    /\ o \in index \ refs[t]
    /\ refs' = [refs EXCEPT ![t] = @ \union {o}]
    /\ UNCHANGED <<state, gv, nest, tick, entities, gather, requests, control>>

-----------------------------------------------------------------------------
(* Deleting an entity                                                      *)

\* Out of the index, under the entity's lock: only one caller gets here.
Unlink(t, o) ==
    /\ nest[t] > 0 /\ gv[t] = "ours" /\ gather[t] = Idle
    /\ o \in index
    /\ index' = index \ {o}
    /\ refs' = [refs EXCEPT ![t] = @ \union {o}]
    /\ gather' = [gather EXCEPT ![t] = Scan(o)]
    /\ UNCHANGED <<state, gv, nest, tick, freed, requests, control>>

\* gcreq_new: the next thread is passed over, or recorded as awake in a domain.
Passed(g)  == [g EXCEPT !.step = IF g.next = NSlots THEN "count" ELSE "vtime",
                        !.next = @ + 1]

\* threads_vtime_gather_for_wait reads the vtime of one thread...
GatherVtime(t) ==
    LET g == gather[t] IN
    /\ g.step = "vtime"
    /\ gather' = [gather EXCEPT ![t] =
                     IF nest[g.next] = 0 THEN Passed(g)
                     ELSE [g EXCEPT !.step = "gv", !.seen = tick[g.next]]]
    /\ UNCHANGED <<threads, entities, requests, control>>

\* ...and then which domain it is in.
GatherGv(t) ==
    LET g == gather[t] IN
    /\ g.step = "gv"
    /\ waitfor' = [waitfor EXCEPT ![g.req] =
                      IF gv[g.next] = "ours" THEN @ \union {<<g.next, g.seen>>}
                      ELSE @]
    /\ gather' = [gather EXCEPT ![t] = Passed(g)]
    /\ UNCHANGED <<threads, entities, queue, count, requeued, control>>

\* gcreq_new counts the request under the queue's lock.
Count(t) ==
    /\ gather[t].step = "count"
    /\ count' = count + 1
    /\ gather' = [gather EXCEPT ![t].step = "queue"]
    /\ UNCHANGED <<threads, entities, waitfor, queue, requeued, control>>

\* gcreq_enqueue: the condition is signalled when the queue was empty.
Enqueue(t) ==
    /\ gather[t].step = "queue"
    /\ queue' = Append(queue, gather[t].req)
    /\ gc' = IF queue = <<>> /\ gc = "waiting" THEN "woken" ELSE gc
    /\ gather' = [gather EXCEPT ![t] = Idle]
    /\ UNCHANGED <<threads, entities, waitfor, count, requeued, current,
                   terminate, fini>>

-----------------------------------------------------------------------------
(* The collector's thread                                                  *)

CollectorUnchanged == UNCHANGED <<state, gv, entities, gather, terminate, fini>>

Quit == terminate /\ count = 0

\* The loop's condition and the wait or the take, under the queue's lock.
Top ==
    /\ gc \in {"top", "woken"}
    /\ \/ /\ Quit /\ gc = "top"
          /\ gc' = "exit"
          /\ UNCHANGED <<current, queue>>
       \/ /\ ~Quit \/ gc = "woken"
          /\ current = None /\ queue = <<>>
          /\ gc' = IF gc = "top" THEN "waiting" ELSE "lease"
          /\ UNCHANGED <<current, queue>>
       \/ /\ ~Quit \/ gc = "woken"
          /\ current = None /\ queue # <<>>
          /\ current' = Head(queue) /\ queue' = Tail(queue)
          /\ gc' = "lease"
       \/ /\ current # None
          /\ gc' = "lease"
          /\ UNCHANGED <<current, queue>>
    /\ UNCHANGED <<nest, tick, refs, waitfor, count, requeued>> /\ CollectorUnchanged

\* The wait has a time limit: until the next lease expires, or 1000 s.
WaitTimesOut ==
    /\ gc = "waiting"
    /\ gc' = "woken"
    /\ UNCHANGED <<threads, entities, gather, requests, current, terminate, fini>>

\* Awake for the leases.
CheckLeases ==
    /\ gc = "lease"
    /\ nest' = [nest EXCEPT ![Gc] = 1]
    /\ gc' = "leasing"
    /\ UNCHANGED <<tick, refs, requests, current>> /\ CollectorUnchanged

\* An entity whose lease has run out is deleted from here.
LeaseExpires(o) ==
    /\ gc = "leasing" /\ o \in Leased
    /\ fini = "run"
    /\ Unlink(Gc, o)

\* Asleep again; the request in hand is looked at next.
LeasesChecked ==
    /\ gc = "leasing" /\ gather[Gc] = Idle
    /\ nest' = [nest EXCEPT ![Gc] = 0]
    /\ tick' = [tick EXCEPT ![Gc] = (@ + 1) % TimeMod]
    /\ refs' = [refs EXCEPT ![Gc] = {}]
    /\ gc' = IF current = None THEN "top" ELSE "check"
    /\ UNCHANGED <<requests, current>> /\ CollectorUnchanged

\* threads_vtime_check: threads that have moved on are dropped from the set.
Check ==
    LET left == {e \in waitfor[current] : ~MovedOn(e)} IN
    /\ gc = "check"
    /\ waitfor' = [waitfor EXCEPT ![current] = left]
    /\ gc' = IF left = {} THEN "call" ELSE "top"
    /\ UNCHANGED <<nest, tick, refs, queue, count, requeued, current>>
    /\ CollectorUnchanged

\* The callback, with the collector awake: requeue, or free the request...
Call ==
    /\ gc = "call"
    /\ nest' = [nest EXCEPT ![Gc] = 1]
    /\ \/ /\ current \in TwoPhase \ requeued
          /\ requeued' = requeued \union {current}
          /\ queue' = Append(queue, current)
          /\ gc' = "done"
          /\ UNCHANGED <<count, refs>>
       \/ /\ current \notin TwoPhase \ requeued
          /\ count' = count - 1
          /\ refs' = [refs EXCEPT ![Gc] = IF current = Noop THEN {} ELSE {current}]
          /\ gc' = IF current = Noop THEN "done" ELSE "free"
          /\ UNCHANGED <<requeued, queue>>
    /\ UNCHANGED <<tick, waitfor, current>> /\ CollectorUnchanged

\* ...and then the entity itself, which is counted no more.
Free ==
    /\ gc = "free"
    /\ freed' = freed \union {current}
    /\ refs' = [refs EXCEPT ![Gc] = {}]
    /\ gc' = "done"
    /\ UNCHANGED <<state, gv, nest, tick, index, gather, requests, current,
                   terminate, fini>>

Called ==
    /\ gc = "done"
    /\ nest' = [nest EXCEPT ![Gc] = 0]
    /\ tick' = [tick EXCEPT ![Gc] = (@ + 1) % TimeMod]
    /\ current' = None
    /\ gc' = "top"
    /\ UNCHANGED <<refs, requests>> /\ CollectorUnchanged

-----------------------------------------------------------------------------
(* Shutting the domain down                                                *)

FiniUnchanged == UNCHANGED <<threads, entities, gather, waitfor, requeued, current>>

\* rtps_stop: every entity has been deleted, nobody makes requests any more.
Stop ==
    /\ fini = "run"
    /\ index = {} /\ \A t \in Threads : gather[t] = Idle
    /\ fini' = "drain"
    /\ FiniUnchanged /\ UNCHANGED <<queue, count, gc, terminate>>

\* gcreq_queue_drain
Drain ==
    /\ fini = "drain" /\ count = 0
    /\ fini' = "drained"
    /\ FiniUnchanged /\ UNCHANGED <<queue, count, gc, terminate>>

\* gcreq_queue_free: a no-op is made, which is counted, and terminate set.
BeginFree ==
    /\ fini = "drained"
    /\ fini' = "wait"
    /\ terminate' = TRUE
    /\ count' = count + 1
    /\ FiniUnchanged /\ UNCHANGED <<queue, gc>>

\* It waits until its own request is the only one...
QueueQuiet ==
    /\ fini = "wait" /\ count = 1
    /\ fini' = "noop"
    /\ FiniUnchanged /\ UNCHANGED <<queue, count, gc, terminate>>

\* ...hands it to the collector...
EnqueueNoop ==
    /\ fini = "noop"
    /\ queue' = Append(queue, Noop)
    /\ gc' = IF queue = <<>> /\ gc = "waiting" THEN "woken" ELSE gc
    /\ fini' = "join"
    /\ FiniUnchanged /\ UNCHANGED <<count, terminate>>

\* ...and joins the thread.
Join ==
    /\ fini = "join" /\ gc = "exit"
    /\ fini' = "done"
    /\ FiniUnchanged /\ UNCHANGED <<queue, count, gc, terminate>>

-----------------------------------------------------------------------------
Collector == Top \/ CheckLeases \/ LeasesChecked \/ Check \/ Call \/ Free \/ Called
Making(t) == GatherVtime(t) \/ GatherGv(t) \/ Count(t) \/ Enqueue(t)
Shutdown  == Drain \/ BeginFree \/ QueueQuiet \/ EnqueueNoop \/ Join

ThreadStep(t) ==
    \/ Register(t) \/ Exit(t) \/ Awake(t) \/ Asleep(t) \/ AwakeToAwake(t)
    \/ \E d \in {"ours", "other"} : EnterDomain(t, d)
    \/ \E o \in Objects : Lookup(t, o) \/ Unlink(t, o)

Next ==
    \/ \E t \in Slots : ThreadStep(t)
    \/ \E t \in Threads : Making(t)
    \/ \E o \in Objects : LeaseExpires(o)
    \/ Collector \/ WaitTimesOut
    \/ Stop \/ Shutdown

Spec == Init /\ [][Next]_vars

\* Threads that run do get on, out of nested sections and then out of the
\* outermost; those in another domain may stay there awake.
LeavesOurs(t, n) == nest[t] = n /\ gv[t] = "ours" /\ Asleep(t)

Fairness ==
    /\ WF_vars(Collector)
    /\ WF_vars(Shutdown)
    /\ \A t \in Threads : WF_vars(Making(t))
    /\ \A t \in Slots, n \in 1..MaxNest : SF_vars(LeavesOurs(t, n))

FairSpec == Spec /\ Fairness

-----------------------------------------------------------------------------
(* Properties                                                              *)

\* No thread has a pointer to an entity whose memory has been released, however
\* lookups, nested sections, wake-ups and the scan of the threads interleave.
NoUseAfterFree == \A t \in Threads : refs[t] \intersect freed = {}

\* When the collector has been joined nothing is left behind: its queue is
\* empty (the assertion in gcreq_queue_free) and every entity is freed.
NothingLeftBehind ==
    fini = "done" => /\ queue = <<>> /\ current = None /\ count = 0
                     /\ freed = Objects

\* A deleted entity is freed in the end, although threads of another domain
\* may stay awake for ever and the collector's timed wait never times out.
DeletedIsFreed == \A o \in Objects : (o \notin index) ~> (o \in freed)

\* gcreq_queue_free returns: the collector is neither stuck on its condition
\* nor gone before the last request.
FreeReturns == (fini = "drain") ~> (fini = "done")
=============================================================================

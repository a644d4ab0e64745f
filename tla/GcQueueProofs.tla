---------------------------- MODULE GcQueueProofs ----------------------------
(***************************************************************************)
(* Proofs about GcQueue, for any number of threads and entities, any depth *)
(* of nesting, and virtual times that wrap around at any modulus.          *)
(***************************************************************************)
EXTENDS GcQueue, FiniteSetTheorems, TLAPS

\* A thread with pointers is awake in the domain.
RefsInv ==
    \A t \in Slots : /\ refs[t] # {} => nest[t] > 0 /\ gv[t] = "ours"
                     /\ state[t] = "zero" => nest[t] = 0

\* Scans are for entities out of the index, each for one of its own.
ScanInv ==
    \A t \in Threads :
        /\ gather[t].step = "none" <=> gather[t].req = None
        /\ gather[t].step \in {"vtime", "gv"} => gather[t].next <= NSlots
        /\ gather[t].req \notin index
        /\ \A u \in Threads :
              gather[t].req = gather[u].req /\ gather[t].req # None => t = u

Scanned(o) == \E u \in Threads : gather[u].req = o
InQueue(o) == \E i \in 1..Len(queue) : queue[i] = o
Queued(o)  == current = o \/ InQueue(o)

\* A request the collector has is for an entity out of the index, whose scan
\* is over.
QueueInv == \A o \in Objects : Queued(o) => o \notin index /\ ~Scanned(o)

\* The collector calls a request back when no thread is left to wait for.
CollectorInv ==
    /\ gc \in {"check", "call", "free"} => current # None
    /\ gc \in {"call", "free"} => waitfor[current] = {}
    /\ gc = "free" => current # Noop

Recorded(o, t) == <<t, tick[t]>> \in waitfor[o]

\* Threads the scan has passed and that hold the entity are recorded; the one
\* it is at is still in the section in which its time was read.
PassedAreRecorded ==
    \A o \in Objects, t \in Slots, u \in Threads :
        o \in refs[t] /\ gather[u].req = o =>
            /\ t < gather[u].next \/ gather[u].step \in {"count", "queue"}
                  => Recorded(o, t)
            /\ gather[u].step = "gv" /\ gather[u].next = t
                  => gather[u].seen = tick[t]

\* Once the scan is over, every thread that holds the entity is waited for.
HoldersAreWaitedFor ==
    \A o \in Objects, t \in Slots :
        o \in refs[t] /\ o \notin index /\ ~Scanned(o) => Recorded(o, t)

\* An entity is in the queue once, and not while the collector works on it.
OnceInv ==
    \A o \in Objects :
        /\ \A i, j \in 1..Len(queue) : queue[i] = o /\ queue[j] = o => i = j
        /\ current = o /\ gc # "done" => ~InQueue(o)

\* What is freed is nowhere else.
FreedInv ==
    \A o \in freed : /\ o \notin index /\ ~Scanned(o) /\ ~InQueue(o)
                     /\ current = o => gc = "done"

\* The inductive invariant.
IInv ==
    /\ TypeOK /\ RefsInv /\ ScanInv /\ QueueInv /\ CollectorInv
    /\ PassedAreRecorded /\ HoldersAreWaitedFor /\ OnceInv /\ FreedInv
    /\ NoUseAfterFree

-----------------------------------------------------------------------------
(* What shutting down needs: every request is counted, and every entity    *)
(* somewhere on its way.                                                   *)

\* A request is counted from gcreq_new, or gcreq_queue_free, to gcreq_free.
Counted(r) ==
    \/ \E u \in Threads : gather[u].req = r /\ gather[u].step = "queue"
    \/ InQueue(r)
    \/ current = r /\ gc \notin {"free", "done"}
    \/ r = Noop /\ fini \in {"wait", "noop"}
Counting == {r \in Requests : Counted(r)}
CountInv == IsFiniteSet(Counting) /\ count = Cardinality(Counting)

\* The no-op is made last and once.
NoopInv ==
    /\ fini \notin {"join", "done"} => ~Queued(Noop)
    /\ current = Noop => ~InQueue(Noop)
    /\ \A i, j \in 1..Len(queue) : queue[i] = Noop /\ queue[j] = Noop => i = j

\* No entity is forgotten.
AccountedInv ==
    \A o \in Objects : \/ o \in index \/ Scanned(o) \/ InQueue(o) \/ o \in freed
                       \/ current = o /\ gc # "done"

\* The domain is empty when it shuts down; the collector leaves when it has
\* been told to and the queue is empty for good.
ShutdownInv ==
    /\ terminate => fini \in {"wait", "noop", "join", "done"}
    /\ fini # "run" => index = {} /\ \A u \in Threads : gather[u].req = None
    /\ fini = "done" => gc = "exit"
    /\ gc = "exit" => /\ fini \in {"join", "done"}
                      /\ queue = <<>> /\ current = None /\ count = 0

EndInv == CountInv /\ NoopInv /\ AccountedInv /\ ShutdownInv

-----------------------------------------------------------------------------
(* Types.                                                                  *)

\* The collector is a thread, and the slots are the others.
LEMMA ThreadFacts ==
    /\ Gc \in Threads /\ Gc \notin Slots /\ Slots \subseteq Threads
    /\ Threads \subseteq Int /\ Slots \subseteq Int
    /\ NSlots \in Threads /\ 1 \in 0..MaxNest
    /\ 0 \in 0..TimeMod - 1 /\ 0 \in 0..NSlots + 1
    /\ None \notin Objects /\ Noop \notin Objects /\ None # Noop
  BY GcAssumption DEF Threads, Slots, Gc

\* Virtual times stay below their modulus.
LEMMA TickType ==
    ASSUME NEW n \in 0..TimeMod - 1
    PROVE  (n + 1) % TimeMod \in 0..TimeMod - 1
  BY GcAssumption, Z3

\* A virtual time has not moved on from itself.
LEMMA NotLater ==
    ASSUME NEW n \in 0..TimeMod - 1
    PROVE  ~LaterThan(n, n)
  <1>1. n - n = 0 /\ 0 % TimeMod = 0
    BY GcAssumption, Z3
  <1> QED
    BY <1>1 DEF LaterThan

\* The invariant holds at first.
LEMMA InitInv == Init => IInv
  <1> SUFFICES ASSUME Init PROVE IInv
    OBVIOUS
  <1>1. gather \in [Threads -> Scans]
    BY ThreadFacts, GcAssumption DEF Init, Scans, Idle, Threads
  <1>2. queue \in Seq(Requests) /\ Len(queue) = 0
    BY DEF Init
  <1>3. /\ nest \in [Threads -> 0..MaxNest] /\ tick \in [Threads -> 0..TimeMod - 1]
        /\ refs \in [Threads -> SUBSET Objects]
        /\ waitfor \in [Requests -> SUBSET Entries]
    BY ThreadFacts, GcAssumption DEF Init
  <1>4. TypeOK
    <2>1. /\ state \in [Threads -> {"zero", "lazy", "alive"}]
          /\ gv \in [Threads -> {"none", "ours", "other"}]
      BY DEF Init
    <2>2. /\ index \subseteq Objects /\ freed \subseteq Objects /\ count \in Int
          /\ current \in Requests \union {None} /\ requeued \subseteq Objects
          /\ gc = "top" /\ fini = "run"
      BY DEF Init
    <2>3. terminate \in BOOLEAN
      BY Zenon DEF Init
    <2> QED
      BY <1>1, <1>2, <1>3, <2>1, <2>2, <2>3 DEF TypeOK
  <1>5. \A t \in Threads : gather[t].req = None /\ gather[t].step = "none"
    BY DEF Init, Idle
  <1>6. \A t \in Threads : refs[t] = {} /\ nest[t] = 0
    BY DEF Init
  <1> QED
    BY <1>2, <1>4, <1>5, <1>6, ThreadFacts
    DEF Init, IInv, RefsInv, ScanInv, QueueInv, Queued, InQueue, CollectorInv,
        PassedAreRecorded, HoldersAreWaitedFor, OnceInv, FreedInv, NoUseAfterFree

\* An entity is taken out of the index.
LEMMA UnlinkType ==
    ASSUME TypeOK, NEW t \in Threads, NEW o \in Objects, Unlink(t, o)
    PROVE  TypeOK'
  <1>1. Scan(o) \in Scans
    BY ThreadFacts DEF Scan, Scans
  <1>2. gather' \in [Threads -> Scans]
    BY <1>1 DEF Unlink, TypeOK
  <1>3. refs' \in [Threads -> SUBSET Objects] /\ index' \subseteq Objects
    BY DEF Unlink, TypeOK
  <1> QED
    BY <1>2, <1>3 DEF Unlink, TypeOK, requests, control

\* Threads in their slots.
LEMMA SlotType ==
    ASSUME TypeOK, NEW t \in Slots, ThreadStep(t)
    PROVE  TypeOK'
  <1>1. t \in Threads /\ nest[t] \in Nat
    BY ThreadFacts, GcAssumption DEF TypeOK
  <1>2. CASE Register(t) \/ Exit(t) \/ \E d \in {"ours", "other"} : EnterDomain(t, d)
    <2>1. CASE Register(t) \/ Exit(t)
      BY <1>1, <2>1 DEF TypeOK, Register, Exit, entities, requests, control
    <2>2. CASE \E d \in {"ours", "other"} : EnterDomain(t, d)
      BY <1>1, <2>2 DEF TypeOK, EnterDomain, entities, requests, control
    <2> QED
      BY <1>2, <2>1, <2>2
  <1>3. CASE Awake(t)
    <2>1. nest' \in [Threads -> 0..MaxNest]
      BY <1>1, <1>3, GcAssumption DEF TypeOK, Awake
    <2> QED
      BY <1>3, <2>1 DEF TypeOK, Awake, entities, requests, control
  <1>4. CASE Asleep(t)
    <2>1. nest' \in [Threads -> 0..MaxNest]
      BY <1>1, <1>4, GcAssumption DEF TypeOK, Asleep
    <2>2. tick' \in [Threads -> 0..TimeMod - 1]
      BY <1>1, <1>4, TickType DEF TypeOK, Asleep
    <2>3. refs' \in [Threads -> SUBSET Objects]
      BY <1>1, <1>4 DEF TypeOK, Asleep
    <2> QED
      BY <1>4, <2>1, <2>2, <2>3 DEF TypeOK, Asleep, entities, requests, control
  <1>5. CASE AwakeToAwake(t)
    <2>1. tick' \in [Threads -> 0..TimeMod - 1]
      BY <1>1, <1>5, TickType DEF TypeOK, AwakeToAwake
    <2>2. refs' \in [Threads -> SUBSET Objects]
      BY <1>1, <1>5 DEF TypeOK, AwakeToAwake
    <2> QED
      BY <1>5, <2>1, <2>2 DEF TypeOK, AwakeToAwake, entities, requests, control
  <1>6. ASSUME NEW o \in Objects, Lookup(t, o)
        PROVE  TypeOK'
    <2>1. refs' \in [Threads -> SUBSET Objects]
      BY <1>1, <1>6 DEF TypeOK, Lookup
    <2> QED
      BY <1>6, <2>1 DEF TypeOK, Lookup, entities, requests, control
  <1>7. ASSUME NEW o \in Objects, Unlink(t, o)
        PROVE  TypeOK'
    BY <1>1, <1>7, UnlinkType
  <1> QED
    BY <1>2, <1>3, <1>4, <1>5, <1>6, <1>7 DEF ThreadStep

\* The scan goes on to the next thread.
LEMMA PassedType ==
    ASSUME NEW g \in Scans, g.next <= NSlots
    PROVE  /\ Passed(g) \in Scans
           /\ Passed(g).req = g.req /\ Passed(g).next = g.next + 1
           /\ Passed(g).step = IF g.next = NSlots THEN "count" ELSE "vtime"
  <1>1. g.next \in 0..NSlots /\ g.next + 1 \in 0..NSlots + 1
    BY GcAssumption DEF Scans
  <1> QED
    BY <1>1 DEF Passed, Scans

\* A request in the making.
LEMMA MakingType ==
    ASSUME TypeOK, ScanInv, NEW t \in Threads, Making(t)
    PROVE  TypeOK'
  <1> DEFINE g == gather[t]
  <1>1. g \in Scans /\ (g.step \in {"vtime", "gv"} => g.next <= NSlots)
    BY DEF TypeOK, ScanInv
  <1>2. g.step # "none" => g.req \in Objects
    BY <1>1 DEF ScanInv, Scans
  <1>3. CASE GatherVtime(t)
    <2>1. g.step = "vtime" /\ g.next \in Threads
      BY <1>1, <1>3, GcAssumption DEF GatherVtime, Scans, Threads
    <2>2. tick[g.next] \in 0..TimeMod - 1
      BY <2>1 DEF TypeOK
    <2>3. [g EXCEPT !.step = "gv", !.seen = tick[g.next]] \in Scans
      BY <1>1, <2>2 DEF Scans
    <2>4. gather' \in [Threads -> Scans]
      BY <1>1, <1>3, <2>1, <2>3, PassedType DEF GatherVtime, TypeOK
    <2> QED
      BY <1>3, <2>4 DEF GatherVtime, TypeOK, threads, entities, requests, control
  <1>4. CASE GatherGv(t)
    <2>1. /\ g.step = "gv" /\ g.next \in Threads /\ g.seen \in 0..TimeMod - 1
          /\ g.req \in Requests
      BY <1>1, <1>2, <1>4, GcAssumption DEF GatherGv, Scans, Threads, Requests
    <2>2. gather' \in [Threads -> Scans]
      BY <1>1, <1>4, <2>1, PassedType DEF GatherGv, TypeOK
    <2>3. <<g.next, g.seen>> \in Entries
      BY <2>1 DEF Entries
    <2>4. waitfor' \in [Requests -> SUBSET Entries]
      BY <1>4, <2>1, <2>3 DEF GatherGv, TypeOK
    <2> QED
      BY <1>4, <2>2, <2>4 DEF GatherGv, TypeOK, threads, entities, control
  <1>5. CASE Count(t)
    <2>1. gather' \in [Threads -> Scans]
      BY <1>1, <1>5 DEF Count, TypeOK, Scans
    <2> QED
      BY <1>5, <2>1 DEF Count, TypeOK, threads, entities, control
  <1>6. CASE Enqueue(t)
    <2>1. Idle \in Scans
      BY ThreadFacts DEF Idle, Scans
    <2>2. gather' \in [Threads -> Scans]
      BY <1>6, <2>1 DEF Enqueue, TypeOK
    <2>3. queue' \in Seq(Requests)
      BY <1>2, <1>6 DEF Enqueue, TypeOK, Requests
    <2> QED
      BY <1>6, <2>2, <2>3 DEF Enqueue, TypeOK, threads, entities
  <1> QED
    BY <1>3, <1>4, <1>5, <1>6 DEF Making

\* The collector's thread.
LEMMA CollectorType ==
    ASSUME TypeOK, CollectorInv, Collector
    PROVE  TypeOK'
  <1> USE ThreadFacts
  <1>1. /\ UNCHANGED <<state, gv, gather, terminate, fini, index>>
        /\ gc' \in {"top", "waiting", "woken", "lease", "leasing", "check", "call",
                   "free", "done", "exit"}
    BY DEF Collector, Top, CheckLeases, LeasesChecked, Check, Call, Free, Called,
           CollectorUnchanged, entities
  <1>2. /\ nest' \in [Threads -> 0..MaxNest]
        /\ refs' \in [Threads -> SUBSET Objects]
    <2>1. CASE Top \/ Check
      BY <2>1 DEF Top, Check, CollectorUnchanged, TypeOK
    <2>2. CASE CheckLeases \/ LeasesChecked \/ Called \/ Free
      <3>1. 0 \in 0..MaxNest
        BY GcAssumption
      <3> QED
        BY SMTT(40), <2>2, <3>1 DEF CheckLeases, LeasesChecked, Called, Free, TypeOK
    <2>3. CASE Call
      BY <2>3 DEF Call, CollectorInv, TypeOK, Requests
    <2> QED
      BY <2>1, <2>2, <2>3 DEF Collector
  <1>3. tick' \in [Threads -> 0..TimeMod - 1]
    <2>1. CASE LeasesChecked \/ Called
      <3>1. (tick[Gc] + 1) % TimeMod \in 0..TimeMod - 1
        BY TickType DEF TypeOK
      <3> QED
        BY <2>1, <3>1 DEF LeasesChecked, Called, TypeOK
    <2>2. CASE ~(LeasesChecked \/ Called)
      BY <2>2 DEF Collector, Top, CheckLeases, Check, Call, Free, TypeOK
    <2> QED
      BY <2>1, <2>2
  <1>4. /\ queue' \in Seq(Requests) /\ current' \in Requests \union {None}
        /\ requeued' \subseteq Objects
    <2>1. CASE Top
      <3>1. queue # <<>> => Head(queue) \in Requests /\ Tail(queue) \in Seq(Requests)
        BY DEF TypeOK
      <3> QED
        BY <2>1, <3>1 DEF Top, TypeOK
    <2>2. CASE Call
      <3>1. current \in TwoPhase \ requeued => current \in Objects
        BY GcAssumption
      <3>2. current # None /\ current \in Requests
        BY <2>2 DEF Call, CollectorInv, TypeOK
      <3>3. Append(queue, current) \in Seq(Requests)
        BY <3>2 DEF TypeOK
      <3> QED
        BY <2>2, <3>1, <3>2, <3>3 DEF Call, TypeOK
    <2>3. CASE CheckLeases \/ LeasesChecked \/ Check \/ Free \/ Called
      BY <2>3 DEF CheckLeases, LeasesChecked, Check, Free, Called, TypeOK, requests
    <2> QED
      BY <2>1, <2>2, <2>3 DEF Collector
  <1>5. waitfor' \in [Requests -> SUBSET Entries] /\ count' \in Int
    <2>1. CASE Check
      <3>1. current \in Requests
        BY <2>1 DEF Check, CollectorInv, TypeOK
      <3> QED
        BY <2>1, <3>1 DEF Check, TypeOK
    <2>2. CASE ~Check
      BY <2>2 DEF Collector, Top, CheckLeases, LeasesChecked, Call, Free, Called,
         requests, TypeOK
    <2> QED
      BY <2>1, <2>2
  <1>6. freed' \subseteq Objects
    BY DEF Collector, Top, CheckLeases, LeasesChecked, Check, Call, Free, Called,
           CollectorUnchanged, entities, TypeOK, CollectorInv, Requests
  <1> QED
    BY <1>1, <1>2, <1>3, <1>4, <1>5, <1>6 DEF TypeOK

\* Every step keeps the types.
LEMMA TypeStep ==
    ASSUME TypeOK, ScanInv, CollectorInv, Next
    PROVE  TypeOK'
  <1>1. ASSUME NEW o \in Objects, LeaseExpires(o)
        PROVE  TypeOK'
    BY <1>1, UnlinkType, ThreadFacts DEF LeaseExpires
  <1>2. CASE WaitTimesOut
    BY <1>2 DEF WaitTimesOut, TypeOK, threads, entities, requests
  <1>3. CASE Stop \/ Shutdown
    <2>1. /\ UNCHANGED <<threads, entities, gather, waitfor, requeued, current>>
          /\ queue' = queue \/ queue' = Append(queue, Noop)
          /\ gc' = gc \/ gc' = "woken"
          /\ fini' \in {"drain", "drained", "wait", "noop", "join", "done"}
      BY <1>3 DEF Stop, Shutdown, Drain, BeginFree, QueueQuiet, EnqueueNoop, Join,
         FiniUnchanged
    <2>2. queue' \in Seq(Requests)
      <3>1. Noop \in Requests
        BY DEF Requests
      <3>2. queue \in Seq(Requests)
        BY DEF TypeOK
      <3> QED
        BY <2>1, <3>1, <3>2
    <2>3. count' \in Int
      BY <1>3 DEF Stop, Shutdown, Drain, BeginFree, QueueQuiet, EnqueueNoop, Join,
         TypeOK
    <2>4. terminate' \in BOOLEAN
      BY <1>3, Zenon DEF Stop, Shutdown, Drain, BeginFree, QueueQuiet, EnqueueNoop,
         Join, TypeOK
    <2> QED
      BY <2>1, <2>2, <2>3, <2>4 DEF TypeOK, threads, entities
  <1> QED
    BY <1>1, <1>2, <1>3, SlotType, MakingType, CollectorType DEF Next

-----------------------------------------------------------------------------
(* Steps.                                                                  *)

\* What is known of scans, queue and collector stands while they stand.
LEMMA ControlKept ==
    ASSUME IInv, UNCHANGED <<index, freed, gather, queue, current, gc, waitfor>>
    PROVE  ScanInv' /\ QueueInv' /\ CollectorInv' /\ OnceInv' /\ FreedInv'
  BY DEF IInv, ScanInv, QueueInv, Queued, InQueue, Scanned, CollectorInv, OnceInv,
         FreedInv

\* Who has no new pointer to a deleted entity, and did not sleep with an old
\* one, is recorded as before.
LEMMA RecordsKept ==
    ASSUME IInv, UNCHANGED <<index, gather, waitfor>>,
           \A u \in Slots : \A o \in Objects :
               o \in refs'[u] /\ o \notin index =>
                   o \in refs[u] /\ tick'[u] = tick[u]
    PROVE  PassedAreRecorded' /\ HoldersAreWaitedFor'
  <1>1. PassedAreRecorded'
    BY DEF IInv, ScanInv, PassedAreRecorded, Recorded
  <1>2. HoldersAreWaitedFor'
    BY DEF IInv, HoldersAreWaitedFor, Recorded, Scanned
  <1> QED
    BY <1>1, <1>2

\* Only what one thread does matters to its pointers.
LEMMA SlotRefs ==
    ASSUME RefsInv, NEW t \in Slots,
           \A u \in Threads \ {t} :
               /\ state'[u] = state[u] /\ gv'[u] = gv[u] /\ nest'[u] = nest[u]
               /\ refs'[u] = refs[u],
           refs'[t] # {} => nest'[t] > 0 /\ gv'[t] = "ours",
           state'[t] = "zero" => nest'[t] = 0
    PROVE  RefsInv'
  <1> SUFFICES ASSUME NEW u \in Slots
               PROVE  /\ refs'[u] # {} => nest'[u] > 0 /\ gv'[u] = "ours"
                      /\ state'[u] = "zero" => nest'[u] = 0
    BY DEF RefsInv, Slots
  <1>1. CASE u = t
    BY <1>1
  <1>2. CASE u # t
    <2>1. u \in Threads \ {t}
      BY <1>2, ThreadFacts
    <2> QED
      BY <2>1 DEF RefsInv
  <1> QED
    BY <1>1, <1>2

\* A thread that enters and leaves domains and sections and looks things up.
LEMMA SlotStep ==
    ASSUME IInv, TypeOK', NEW t \in Slots,
           \/ Register(t) \/ Exit(t) \/ Awake(t) \/ Asleep(t) \/ AwakeToAwake(t)
           \/ \E d \in {"ours", "other"} : EnterDomain(t, d)
           \/ \E o \in Objects : Lookup(t, o)
    PROVE  IInv'
  <1>0. /\ TypeOK /\ RefsInv /\ t \in Threads /\ nest[t] \in Nat /\ t # Gc
        /\ refs[t] # {} => nest[t] > 0 /\ gv[t] = "ours"
        /\ state[t] = "zero" => nest[t] = 0
    <2>1. TypeOK /\ RefsInv /\ t \in Threads /\ t # Gc
      BY ThreadFacts DEF IInv
    <2>2. nest[t] \in Nat
      BY <2>1, GcAssumption DEF TypeOK
    <2> QED
      BY <2>1, <2>2 DEF RefsInv
  <1>1. UNCHANGED <<index, freed, gather, queue, current, gc, waitfor>>
    BY DEF Register, Exit, Awake, Asleep, AwakeToAwake, EnterDomain, Lookup,
           entities, requests, control
  <1>2. \A u \in Threads \ {t} :
           /\ state'[u] = state[u] /\ gv'[u] = gv[u] /\ nest'[u] = nest[u]
           /\ tick'[u] = tick[u] /\ refs'[u] = refs[u]
    BY <1>0 DEF Register, Exit, Awake, Asleep, AwakeToAwake, EnterDomain, Lookup,
       TypeOK
  <1>3. CASE Register(t) \/ Exit(t) \/ Awake(t)
             \/ \E d \in {"ours", "other"} : EnterDomain(t, d)
    <2>1. /\ refs'[t] = refs[t] /\ tick'[t] = tick[t]
          /\ refs[t] # {} => nest'[t] > 0 /\ gv'[t] = "ours"
          /\ state'[t] = "zero" => nest'[t] = 0
      <3>1. refs[t] # {} => nest[t] > 0 /\ gv[t] = "ours" /\ state[t] # "zero"
        BY <1>0
      <3>2. CASE Register(t) \/ Exit(t)
        BY <1>0, <3>1, <3>2 DEF Register, Exit, TypeOK
      <3>3. CASE Awake(t)
        BY <1>0, <3>1, <3>3 DEF Awake, TypeOK
      <3>4. CASE \E d \in {"ours", "other"} : EnterDomain(t, d)
        BY <1>0, <3>1, <3>4 DEF EnterDomain, TypeOK
      <3> QED
        BY <1>3, <3>2, <3>3, <3>4
    <2>2. RefsInv'
      BY <1>0, <1>2, <2>1, SlotRefs
    <2>3. NoUseAfterFree'
      BY <1>1, <1>2, <2>1 DEF IInv, NoUseAfterFree
    <2>4. \A u \in Slots : \A i \in Objects :
             i \in refs'[u] /\ i \notin index => i \in refs[u] /\ tick'[u] = tick[u]
      BY <1>2, <2>1, ThreadFacts
    <2>5. PassedAreRecorded' /\ HoldersAreWaitedFor'
      BY <1>1, <2>4, RecordsKept
    <2> QED
      BY <1>1, <2>2, <2>3, <2>5, ControlKept DEF IInv
  <1>4. CASE Asleep(t) \/ AwakeToAwake(t)
    <2>1. /\ refs'[t] = {} \/ (refs'[t] = refs[t] /\ tick'[t] = tick[t])
          /\ refs'[t] # {} => nest'[t] > 0
          /\ gv'[t] = gv[t] /\ state'[t] = state[t] /\ nest'[t] <= nest[t]
          /\ nest[t] > 0
      BY <1>0, <1>4 DEF Asleep, AwakeToAwake, TypeOK
    <2>2. RefsInv'
      BY <1>0, <1>2, <2>1, SlotRefs
    <2>3. NoUseAfterFree'
      BY <1>1, <1>2, <2>1 DEF IInv, NoUseAfterFree
    <2>4. \A u \in Slots : \A i \in Objects :
             i \in refs'[u] /\ i \notin index => i \in refs[u] /\ tick'[u] = tick[u]
      BY <1>2, <2>1, ThreadFacts
    <2>5. PassedAreRecorded' /\ HoldersAreWaitedFor'
      BY <1>1, <2>4, RecordsKept
    <2> QED
      BY <1>1, <2>2, <2>3, <2>5, ControlKept DEF IInv
  <1>5. ASSUME NEW o \in Objects, Lookup(t, o)
        PROVE  IInv'
    <2>1. /\ refs'[t] = refs[t] \union {o} /\ o \in index
          /\ tick'[t] = tick[t] /\ nest'[t] = nest[t] /\ gv'[t] = gv[t]
          /\ state'[t] = state[t] /\ nest[t] > 0 /\ gv[t] = "ours"
      BY <1>0, <1>5 DEF Lookup, TypeOK
    <2>2. RefsInv'
      BY <1>0, <1>2, <2>1, SlotRefs
    <2>3. NoUseAfterFree'
      BY <1>1, <1>2, <2>1 DEF IInv, NoUseAfterFree, FreedInv
    <2>4. \A u \in Slots : \A i \in Objects :
             i \in refs'[u] /\ i \notin index => i \in refs[u] /\ tick'[u] = tick[u]
      BY <1>2, <2>1, ThreadFacts
    <2>5. PassedAreRecorded' /\ HoldersAreWaitedFor'
      BY <1>1, <2>4, RecordsKept
    <2> QED
      BY <1>1, <2>2, <2>3, <2>5, ControlKept DEF IInv
  <1> QED
    BY <1>3, <1>4, <1>5

\* An entity leaves the index; its scan begins with nobody passed.
LEMMA UnlinkStep ==
    ASSUME IInv, TypeOK', NEW t \in Threads, NEW o \in Objects, Unlink(t, o)
    PROVE  IInv'
  <1>1. /\ UNCHANGED <<state, gv, nest, tick, freed, queue, current, gc, waitfor>>
        /\ index' = index \ {o} /\ o \in index
        /\ nest[t] > 0 /\ gv[t] = "ours"
    BY DEF Unlink, requests, control
  <1>2. /\ \A u \in Threads \ {t} : refs'[u] = refs[u] /\ gather'[u] = gather[u]
        /\ refs'[t] = refs[t] \union {o}
        /\ gather'[t].req = o /\ gather'[t].step = "vtime" /\ gather'[t].next = 0
        /\ gather[t].req = None
    BY DEF Unlink, IInv, TypeOK, Scan, Idle
  <1>3. \A u \in Threads : gather[u].req # o
    BY <1>1 DEF IInv, ScanInv
  <1>4. RefsInv'
    BY <1>1, <1>2, ThreadFacts DEF IInv, RefsInv
  <1>5. ScanInv'
    <2>1. \A u \in Threads \ {t} : gather'[u] = gather[u] /\ gather[u].req # o
      BY <1>2, <1>3
    <2>2. 0 <= NSlots /\ o # None
      BY GcAssumption, ThreadFacts
    <2> QED
      BY <1>1, <1>2, <2>1, <2>2 DEF IInv, ScanInv
  <1>6. QueueInv'
    BY <1>1, <1>2 DEF IInv, QueueInv, Queued, InQueue, Scanned
  <1>7. CollectorInv' /\ OnceInv' /\ FreedInv' /\ NoUseAfterFree'
    <2>1. CollectorInv' /\ OnceInv'
      BY <1>1, <1>2 DEF IInv, CollectorInv, OnceInv, InQueue
    <2>2. o \notin freed
      BY <1>1 DEF IInv, FreedInv
    <2>3. FreedInv'
      BY <1>1, <1>2, <2>2 DEF IInv, FreedInv, InQueue, Scanned
    <2>4. NoUseAfterFree'
      BY <1>1, <1>2, <2>2 DEF IInv, NoUseAfterFree
    <2> QED
      BY <2>1, <2>3, <2>4
  <1>8. PassedAreRecorded'
    <2> SUFFICES ASSUME NEW p \in Objects, NEW s \in Slots, NEW u \in Threads,
                        p \in refs'[s], gather'[u].req = p
                 PROVE  /\ s < gather'[u].next \/ gather'[u].step \in {"count", "queue"}
                              => Recorded(p, s)'
                        /\ gather'[u].step = "gv" /\ gather'[u].next = s
                              => gather'[u].seen = tick'[s]
      BY DEF PassedAreRecorded
    <2>1. CASE u = t
      BY <1>2, <2>1 DEF Slots
    <2>2. CASE u # t
      <3>1. gather'[u] = gather[u] /\ p # o /\ p \in refs[s]
        BY <1>2, <1>3, <2>2, ThreadFacts
      <3> QED
        BY <1>1, <3>1 DEF IInv, PassedAreRecorded, Recorded
    <2> QED
      BY <2>1, <2>2
  <1>9. HoldersAreWaitedFor'
    BY <1>1, <1>2, ThreadFacts DEF IInv, HoldersAreWaitedFor, Recorded, Scanned
  <1> QED
    BY <1>4, <1>5, <1>6, <1>7, <1>8, <1>9 DEF IInv

\* A scan that goes on for the same entity and only adds records: what is to
\* be shown is that those it has passed are recorded.
LEMMA ScanKept ==
    ASSUME IInv, NEW t \in Threads, gather[t].req \in Objects,
           UNCHANGED <<state, gv, nest, tick, refs, index, freed, queue, current, gc>>,
           \A u \in Threads \ {t} : gather'[u] = gather[u],
           gather'[t].req = gather[t].req, gather'[t].step # "none",
           gather'[t].step \in {"vtime", "gv"} => gather'[t].next <= NSlots,
           \A r \in Requests : /\ waitfor[r] \subseteq waitfor'[r]
                               /\ r # gather[t].req => waitfor'[r] = waitfor[r],
           \A s \in Slots : gather[t].req \in refs[s] =>
               /\ s < gather'[t].next \/ gather'[t].step \in {"count", "queue"}
                     => Recorded(gather[t].req, s)'
               /\ gather'[t].step = "gv" /\ gather'[t].next = s
                     => gather'[t].seen = tick[s]
    PROVE  /\ RefsInv' /\ ScanInv' /\ QueueInv' /\ CollectorInv' /\ OnceInv'
           /\ PassedAreRecorded' /\ HoldersAreWaitedFor' /\ FreedInv'
           /\ NoUseAfterFree'
  <1>1. \A u \in Threads : gather'[u].req = gather[u].req
    OBVIOUS
  <1>2. gather[t].req # None
    BY ThreadFacts
  <1>3. RefsInv' /\ OnceInv' /\ FreedInv' /\ NoUseAfterFree'
    BY <1>1 DEF IInv, RefsInv, OnceInv, FreedInv, NoUseAfterFree, InQueue, Scanned
  <1>4. ScanInv'
    BY <1>1, <1>2 DEF IInv, ScanInv
  <1>5. QueueInv'
    BY <1>1 DEF IInv, QueueInv, Queued, InQueue, Scanned
  <1>6. CollectorInv'
    <2>1. current = gather[t].req => FALSE
      BY DEF IInv, QueueInv, Queued, InQueue, Scanned
    <2>2. gc \in {"call", "free"} => current \in Requests
      BY DEF IInv, TypeOK, CollectorInv
    <2> QED
      BY <2>1, <2>2 DEF IInv, CollectorInv
  <1>7. PassedAreRecorded'
    <2> SUFFICES ASSUME NEW p \in Objects, NEW s \in Slots, NEW u \in Threads,
                        p \in refs'[s], gather'[u].req = p
                 PROVE  /\ s < gather'[u].next \/ gather'[u].step \in {"count", "queue"}
                              => Recorded(p, s)'
                        /\ gather'[u].step = "gv" /\ gather'[u].next = s
                              => gather'[u].seen = tick'[s]
      BY DEF PassedAreRecorded
    <2>1. CASE u = t
      BY <1>1, <2>1
    <2>2. CASE u # t
      <3>1. gather'[u] = gather[u] /\ p \in Requests
        BY <2>2 DEF Requests
      <3> QED
        BY <3>1 DEF IInv, PassedAreRecorded, Recorded
    <2> QED
      BY <2>1, <2>2
  <1>8. HoldersAreWaitedFor'
    BY <1>1 DEF IInv, HoldersAreWaitedFor, Recorded, Scanned, Requests
  <1> QED
    BY <1>3, <1>4, <1>5, <1>6, <1>7, <1>8

\* The scan, and handing the request to the queue.
LEMMA MakingStep ==
    ASSUME IInv, TypeOK', NEW t \in Threads, Making(t)
    PROVE  IInv'
  <1> DEFINE g == gather[t]
  <1>0. /\ TypeOK /\ g \in Scans /\ g.step # "none" /\ g.req \in Objects
        /\ g.step \in {"vtime", "gv"} => g.next <= NSlots
        /\ g.next \in Int
    <2>1. g \in Scans /\ g.step # "none"
      BY DEF IInv, TypeOK, Making, GatherVtime, GatherGv, Count, Enqueue
    <2> QED
      BY <2>1, GcAssumption DEF IInv, ScanInv, Scans
  <1>1. CASE GatherVtime(t)
    <2>1. /\ UNCHANGED <<state, gv, nest, tick, refs, index, freed, queue, current,
                         gc, waitfor>>
          /\ \A u \in Threads \ {t} : gather'[u] = gather[u]
          /\ g.step = "vtime"
      BY <1>0, <1>1 DEF GatherVtime, threads, entities, requests, control, TypeOK
    <2>2. CASE nest[g.next] = 0
      <3>1. gather'[t] = Passed(g)
        BY <1>0, <1>1, <2>2 DEF GatherVtime, TypeOK
      <3>2. /\ gather'[t].req = g.req /\ gather'[t].next = g.next + 1
            /\ gather'[t].step = IF g.next = NSlots THEN "count" ELSE "vtime"
        BY <1>0, <2>1, <3>1, PassedType
      <3>3. \A s \in Slots : g.req \in refs[s] => s # g.next
        BY <2>2 DEF IInv, RefsInv
      <3>4. \A s \in Slots : g.req \in refs[s] /\ s < g.next => Recorded(g.req, s)
        BY <1>0 DEF IInv, PassedAreRecorded
      <3>5. \A s \in Slots : g.req \in refs[s] =>
              (s < g.next + 1 \/ g.next = NSlots => Recorded(g.req, s))
        BY <1>0, <3>3, <3>4, GcAssumption DEF Slots
      <3>6. gather'[t].step \in {"vtime", "gv"} => gather'[t].next <= NSlots
        BY <1>0, <2>1, <3>2, GcAssumption
      <3> QED
        BY <1>0, <2>1, <3>2, <3>5, <3>6, ScanKept DEF IInv, Recorded
    <2>3. CASE nest[g.next] # 0
      <3>1. /\ gather'[t].req = g.req /\ gather'[t].next = g.next
            /\ gather'[t].step = "gv" /\ gather'[t].seen = tick[g.next]
        BY <1>0, <1>1, <2>3 DEF GatherVtime, TypeOK, Scans
      <3>2. \A s \in Slots : g.req \in refs[s] /\ s < g.next => Recorded(g.req, s)
        BY <1>0 DEF IInv, PassedAreRecorded
      <3> QED
        BY <1>0, <2>1, <3>1, <3>2, ScanKept DEF IInv, Recorded
    <2> QED
      BY <2>2, <2>3
  <1>2. CASE GatherGv(t)
    <2>1. /\ UNCHANGED <<state, gv, nest, tick, refs, index, freed, queue, current, gc>>
          /\ \A u \in Threads \ {t} : gather'[u] = gather[u]
          /\ g.step = "gv" /\ gather'[t] = Passed(g)
      BY <1>0, <1>2 DEF GatherGv, threads, entities, control, TypeOK
    <2>2. /\ gather'[t].req = g.req /\ gather'[t].next = g.next + 1
          /\ gather'[t].step = IF g.next = NSlots THEN "count" ELSE "vtime"
      BY <1>0, <2>1, PassedType
    <2>3. /\ \A r \in Requests : /\ waitfor[r] \subseteq waitfor'[r]
                                 /\ r # g.req => waitfor'[r] = waitfor[r]
          /\ gv[g.next] = "ours" => <<g.next, g.seen>> \in waitfor'[g.req]
      BY <1>0, <1>2 DEF GatherGv, TypeOK, Requests
    <2>4. \A s \in Slots : g.req \in refs[s] =>
             /\ s < g.next => Recorded(g.req, s)
             /\ s = g.next => g.seen = tick[s]
      BY <1>0, <2>1 DEF IInv, PassedAreRecorded
    <2>5. \A s \in Slots : g.req \in refs[s] => gv[s] = "ours"
      BY DEF IInv, RefsInv
    <2>6. \A s \in Slots : g.req \in refs[s] /\ s < g.next =>
             <<s, tick[s]>> \in waitfor'[g.req]
      <3>1. waitfor[g.req] \subseteq waitfor'[g.req]
        BY <1>0, <2>3 DEF Requests
      <3> QED
        BY <2>4, <3>1 DEF Recorded
    <2>7. \A s \in Slots : g.req \in refs[s] /\ s = g.next =>
             <<s, tick[s]>> \in waitfor'[g.req]
      BY <2>3, <2>4, <2>5
    <2>8. \A s \in Slots : g.req \in refs[s] =>
             (s < g.next + 1 \/ g.next = NSlots => <<s, tick[s]>> \in waitfor'[g.req])
      BY <1>0, <2>6, <2>7, GcAssumption DEF Slots
    <2>9. gather'[t].step \in {"vtime", "gv"} => gather'[t].next <= NSlots
      BY <1>0, <2>1, <2>2, GcAssumption
    <2> QED
      BY <1>0, <2>1, <2>2, <2>3, <2>8, <2>9, ScanKept DEF IInv, Recorded
  <1>3. CASE Count(t)
    <2>1. /\ UNCHANGED <<state, gv, nest, tick, refs, index, freed, queue, current,
                         gc, waitfor>>
          /\ \A u \in Threads \ {t} : gather'[u] = gather[u]
          /\ g.step = "count"
          /\ gather'[t].req = g.req /\ gather'[t].step = "queue"
      BY <1>0, <1>3 DEF Count, threads, entities, control, TypeOK, Scans
    <2>2. \A s \in Slots : g.req \in refs[s] => Recorded(g.req, s)
      BY <1>0, <2>1 DEF IInv, PassedAreRecorded
    <2> QED
      BY <1>0, <2>1, <2>2, ScanKept DEF IInv, Recorded
  <1>4. CASE Enqueue(t)
    <2>1. /\ UNCHANGED <<state, gv, nest, tick, refs, index, freed, current, waitfor>>
          /\ \A u \in Threads \ {t} : gather'[u] = gather[u]
          /\ g.step = "queue" /\ gather'[t].req = None /\ gather'[t].step = "none"
          /\ queue' = Append(queue, g.req) /\ (gc' = gc \/ gc' = "woken")
      BY <1>0, <1>4 DEF Enqueue, threads, entities, TypeOK, Idle
    <2>2. \A u \in Threads \ {t} : gather[u].req # g.req
      BY <1>0, ThreadFacts DEF IInv, ScanInv
    <2>3. RefsInv' /\ CollectorInv' /\ NoUseAfterFree'
      BY <2>1 DEF IInv, RefsInv, CollectorInv, NoUseAfterFree
    <2>4. ScanInv'
      <3>1. None \notin index
        BY ThreadFacts DEF IInv, TypeOK
      <3> QED
        BY <2>1, <3>1 DEF IInv, ScanInv
    <2>5. QueueInv'
      <3>1. \A o \in Objects : Queued(o)' => Queued(o) \/ o = g.req
        BY <2>1 DEF Queued, InQueue, IInv, TypeOK
      <3>2. g.req \notin index
        BY DEF IInv, ScanInv
      <3>3. \A u \in Threads : gather'[u].req # g.req
        BY <1>0, <2>1, <2>2, ThreadFacts
      <3>4. \A o \in Objects : ~Scanned(o) => ~Scanned(o)'
        BY <2>1, ThreadFacts DEF Scanned
      <3> QED
        BY <2>1, <3>1, <3>2, <3>3, <3>4 DEF IInv, QueueInv, Scanned
    <2>6. PassedAreRecorded'
      BY <2>1, ThreadFacts DEF IInv, PassedAreRecorded, Recorded
    <2>7. HoldersAreWaitedFor'
      <3>1. \A s \in Slots : g.req \in refs[s] => Recorded(g.req, s)
        BY <1>0, <2>1 DEF IInv, PassedAreRecorded
      <3>2. \A o \in Objects : o # g.req /\ ~Scanned(o)' => ~Scanned(o)
        BY <2>1 DEF Scanned
      <3> QED
        BY <2>1, <3>1, <3>2 DEF IInv, HoldersAreWaitedFor, Recorded
    <2>8. OnceInv' /\ FreedInv'
      <3>1. Scanned(g.req) /\ ~Queued(g.req) /\ g.req \notin freed
        BY <1>0 DEF Scanned, IInv, QueueInv, FreedInv
      <3>2. /\ queue \in Seq(Requests) /\ Len(queue') = Len(queue) + 1
            /\ \A i \in 1..Len(queue') :
                 queue'[i] = IF i = Len(queue) + 1 THEN g.req ELSE queue[i]
        BY <2>1, <1>0 DEF TypeOK
      <3>3. \A o \in Objects : InQueue(o)' => InQueue(o) \/ o = g.req
        BY <3>2 DEF InQueue
      <3>4. gc' = "done" <=> gc = "done"
        BY <1>4 DEF Enqueue
      <3>5. OnceInv'
        BY <2>1, <3>1, <3>2, <3>3, <3>4 DEF IInv, OnceInv, Queued, InQueue
      <3>6. \A o \in Objects : ~Scanned(o) => ~Scanned(o)'
        BY <2>1, ThreadFacts DEF Scanned
      <3>7. freed \subseteq Objects
        BY <1>0 DEF TypeOK
      <3>8. FreedInv'
        BY <2>1, <3>1, <3>3, <3>4, <3>6, <3>7 DEF IInv, FreedInv
      <3> QED
        BY <3>5, <3>8
    <2> QED
      BY <2>3, <2>4, <2>5, <2>6, <2>7, <2>8 DEF IInv
  <1> QED
    BY <1>1, <1>2, <1>3, <1>4 DEF Making

\* The collector drops no record of a thread that holds the entity, and frees
\* one when there is no record left.
LEMMA CollectorStep ==
    ASSUME IInv, TypeOK', Collector
    PROVE  IInv'
  <1>0. TypeOK /\ current \in Requests \union {None} /\ queue \in Seq(Requests)
    BY DEF IInv, TypeOK
  <1>1. /\ UNCHANGED <<state, gv, gather, index>>
        /\ \A u \in Slots : /\ nest'[u] = nest[u] /\ tick'[u] = tick[u]
                            /\ refs'[u] = refs[u]
    <2>1. UNCHANGED <<state, gv, gather, index>>
      BY DEF Collector, Top, CheckLeases, LeasesChecked, Check, Call, Free, Called,
             CollectorUnchanged, entities
    <2>2. \A u \in Slots : u \in Threads /\ u # Gc
      BY ThreadFacts
    <2> QED
      BY <1>0, <2>1, <2>2 DEF Collector, Top, CheckLeases, LeasesChecked, Check,
         Call, Free, Called, TypeOK
  <1>2. RefsInv' /\ ScanInv'
    BY <1>1 DEF IInv, RefsInv, ScanInv
  <1>3. QueueInv'
    <2>1. \A o \in Objects : Queued(o)' => Queued(o)
      <3>1. CASE Top
        <4>1. CASE queue' = queue /\ current' = current
          BY <4>1 DEF Queued, InQueue, InQueue
        <4>2. CASE queue # <<>> /\ current' = Head(queue) /\ queue' = Tail(queue)
          BY <1>0, <4>2 DEF Queued, InQueue, InQueue
        <4> QED
          BY <3>1, <4>1, <4>2 DEF Top
      <3>2. CASE Call
        <4>1. current' = current /\ (queue' = queue \/ queue' = Append(queue, current))
          BY <3>2 DEF Call
        <4>2. current \in Requests
          BY <3>2 DEF Call, IInv, TypeOK, CollectorInv
        <4> QED
          BY <1>0, <4>1, <4>2 DEF Queued, InQueue, InQueue
      <3>3. CASE Called
        <4>1. current' = None /\ queue' = queue
          BY <3>3 DEF Called, requests
        <4> QED
          BY <4>1, ThreadFacts DEF Queued, InQueue, InQueue
      <3>4. CASE CheckLeases \/ LeasesChecked \/ Check \/ Free
        BY <3>4 DEF CheckLeases, LeasesChecked, Check, Free, requests, Queued, InQueue
      <3> QED
        BY <3>1, <3>2, <3>3, <3>4 DEF Collector
    <2> QED
      BY <1>1, <2>1 DEF IInv, QueueInv, Scanned
  <1>4. CollectorInv'
    <2>1. CASE Top \/ CheckLeases \/ Called
      BY <2>1 DEF Top, CheckLeases, Called, CollectorInv
    <2>2. CASE LeasesChecked
      BY <2>2 DEF LeasesChecked, CollectorInv
    <2>3. CASE Check
      <3>1. current' = current /\ current # None /\ gc' \in {"top", "call"}
        BY <2>3 DEF Check, IInv, CollectorInv
      <3>2. gc' = "call" => waitfor'[current] = {}
        BY <1>0, <2>3, <3>1 DEF Check, TypeOK
      <3> QED
        BY <3>1, <3>2 DEF CollectorInv
    <2>4. CASE Call
      BY <2>4 DEF Call, IInv, CollectorInv
    <2>5. CASE Free
      BY <2>5 DEF Free, CollectorInv
    <2> QED
      BY <2>1, <2>2, <2>3, <2>4, <2>5 DEF Collector
  <1>5. \A o \in Objects, s \in Slots : o \in refs[s] /\ Recorded(o, s) => Recorded(o, s)'
    <2>1. CASE Check
      <3> SUFFICES ASSUME NEW o \in Objects, NEW s \in Slots, o \in refs[s],
                          <<s, tick[s]>> \in waitfor[o]
                   PROVE  <<s, tick[s]>> \in waitfor'[o]
        BY <1>1 DEF Recorded
      <3>1. current \in Requests /\ o \in Requests
        BY <1>0, <2>1 DEF Check, IInv, CollectorInv, Requests
      <3>2. tick[s] \in 0..TimeMod - 1 /\ gv[s] = "ours"
        BY <1>0, ThreadFacts DEF TypeOK, IInv, RefsInv
      <3>3. ~MovedOn(<<s, tick[s]>>)
        BY <3>2, NotLater DEF MovedOn
      <3> QED
        BY <1>0, <2>1, <3>1, <3>3 DEF Check, TypeOK
    <2>2. CASE ~Check
      <3>1. waitfor' = waitfor
        BY <2>2 DEF Collector, Top, CheckLeases, LeasesChecked, Call, Free, Called,
           requests
      <3> QED
        BY <1>1, <3>1 DEF Recorded
    <2> QED
      BY <2>1, <2>2
  <1>6. PassedAreRecorded'
    BY <1>1, <1>5 DEF IInv, PassedAreRecorded
  <1>7. HoldersAreWaitedFor'
    BY <1>1, <1>5 DEF IInv, HoldersAreWaitedFor, Scanned
  <1>8. OnceInv' /\ FreedInv'
    <2>1. CASE Top /\ queue' = Tail(queue) /\ queue # <<>>
      <3>1. /\ current = None /\ current' = Head(queue) /\ freed' = freed
            /\ gc # "done"
        BY <1>0, <2>1 DEF Top, CollectorUnchanged, entities
      <3>2. /\ Len(queue') = Len(queue) - 1 /\ Len(queue) >= 1
            /\ \A i \in 1..Len(queue') : queue'[i] = queue[i + 1]
            /\ Head(queue) = queue[1]
        BY <1>0, <2>1
      <3>3. \A o \in Objects : InQueue(o)' => InQueue(o) /\ o # queue[1]
        BY <1>0, <3>2 DEF InQueue, IInv, OnceInv
      <3>4. OnceInv'
        BY <1>0, <3>1, <3>2, <3>3 DEF IInv, OnceInv
      <3>5. InQueue(queue[1])
        BY <3>2 DEF InQueue
      <3>6. FreedInv'
        BY <1>0, <1>1, <3>1, <3>2, <3>3, <3>5 DEF IInv, FreedInv, Scanned, TypeOK
      <3> QED
        BY <3>4, <3>6
    <2>2. CASE Call
      <3>1. /\ current' = current /\ current \in Requests /\ freed' = freed
            /\ gc = "call" /\ gc' \in {"done", "free"}
            /\ \/ queue' = queue
               \/ queue' = Append(queue, current) /\ gc' = "done"
        BY <2>2 DEF Call, CollectorUnchanged, entities, IInv, TypeOK, CollectorInv
      <3>2. \A o \in Objects : current = o => ~InQueue(o) /\ o \notin freed
        BY <3>1 DEF IInv, OnceInv, FreedInv
      <3>3. CASE queue' = queue
        BY <1>1, <3>1, <3>2, <3>3 DEF IInv, OnceInv, FreedInv, InQueue, Scanned
      <3>4. CASE queue' = Append(queue, current) /\ gc' = "done"
        <4>1. /\ Len(queue') = Len(queue) + 1
              /\ \A i \in 1..Len(queue') :
                   queue'[i] = IF i = Len(queue) + 1 THEN current ELSE queue[i]
          BY <1>0, <3>1, <3>4
        <4>2. \A o \in Objects : InQueue(o)' => InQueue(o) \/ o = current
          BY <4>1 DEF InQueue
        <4>3. OnceInv'
          BY <3>1, <3>2, <3>4, <4>1, <4>2 DEF IInv, OnceInv, InQueue
        <4>4. FreedInv'
          BY <1>0, <1>1, <3>1, <3>2, <3>4, <4>2 DEF IInv, FreedInv, Scanned, TypeOK
        <4> QED
          BY <4>3, <4>4
      <3> QED
        BY <3>1, <3>3, <3>4
    <2>3. CASE Free
      <3>1. /\ UNCHANGED <<queue, current>> /\ gc = "free" /\ gc' = "done"
            /\ freed' = freed \union {current} /\ current \in Objects
        BY <1>0, <2>3 DEF Free, requests, IInv, CollectorInv, Requests
      <3>2. current \notin index /\ ~Scanned(current) /\ ~InQueue(current)
        BY <3>1 DEF IInv, QueueInv, OnceInv, Queued
      <3> QED
        BY <1>1, <3>1, <3>2 DEF IInv, OnceInv, FreedInv, InQueue, Scanned
    <2>4. CASE Called
      <3>1. queue' = queue /\ freed' = freed /\ current' = None
        BY <2>4 DEF Called, requests, CollectorUnchanged, entities
      <3> QED
        BY <1>0, <1>1, <3>1, ThreadFacts
        DEF IInv, OnceInv, FreedInv, InQueue, Scanned, TypeOK
    <2>5. CASE \/ Top /\ queue' = queue /\ current' = current
               \/ CheckLeases \/ LeasesChecked \/ Check
      <3>1. UNCHANGED <<queue, current, freed>> /\ gc # "done"
        BY <2>5 DEF Top, CheckLeases, LeasesChecked, Check, requests,
           CollectorUnchanged, entities
      <3> QED
        BY <1>1, <3>1 DEF IInv, OnceInv, FreedInv, InQueue, Scanned
    <2> QED
      BY <2>1, <2>2, <2>3, <2>4, <2>5 DEF Collector, Top
  <1>9. NoUseAfterFree'
    <2>1. \A s \in Threads : s = Gc \/ s \in Slots
      BY GcAssumption DEF Threads, Slots, Gc
    <2>2. CASE Free
      <3>1. /\ current \in Objects /\ waitfor[current] = {}
            /\ freed' = freed \union {current} /\ refs'[Gc] = {}
        BY <1>0, <2>2, ThreadFacts DEF Free, IInv, CollectorInv, Requests, TypeOK
      <3>2. current \notin index /\ ~Scanned(current)
        BY <3>1 DEF IInv, QueueInv, Queued
      <3>3. \A s \in Slots : current \notin refs[s]
        BY <3>1, <3>2 DEF IInv, HoldersAreWaitedFor, Recorded
      <3> QED
        BY <1>1, <2>1, <3>1, <3>3, ThreadFacts DEF IInv, NoUseAfterFree
    <2>3. CASE Call
      <3>1. /\ freed' = freed /\ freed \subseteq Objects
            /\ refs'[Gc] \in {refs[Gc], {}, {current}} /\ current \notin freed
        BY <1>0, <2>3, ThreadFacts DEF Call, CollectorUnchanged, entities, TypeOK,
           IInv, FreedInv
      <3> QED
        BY <1>1, <2>1, <3>1, ThreadFacts DEF IInv, NoUseAfterFree
    <2>4. CASE Top \/ CheckLeases \/ LeasesChecked \/ Check \/ Called
      <3>1. freed' = freed /\ refs'[Gc] \in {refs[Gc], {}}
        BY <1>0, <2>4, ThreadFacts DEF Top, CheckLeases, LeasesChecked, Check, Called,
           CollectorUnchanged, entities, TypeOK
      <3> QED
        BY <1>1, <2>1, <3>1, ThreadFacts DEF IInv, NoUseAfterFree
    <2> QED
      BY <2>2, <2>3, <2>4 DEF Collector
  <1> QED
    BY <1>2, <1>3, <1>4, <1>6, <1>7, <1>8, <1>9 DEF IInv

\* Shutting down hands the collector one request more, which is for no entity.
LEMMA ShutdownStep ==
    ASSUME IInv, TypeOK', WaitTimesOut \/ Stop \/ Shutdown
    PROVE  IInv'
  <1>1. /\ UNCHANGED <<state, gv, nest, tick, refs, index, freed, gather, waitfor,
                       current>>
        /\ queue' = queue \/ queue' = Append(queue, Noop)
        /\ gc' = gc \/ (gc = "waiting" /\ gc' = "woken")
    BY DEF WaitTimesOut, Stop, Shutdown, Drain, BeginFree, QueueQuiet, EnqueueNoop,
           Join, FiniUnchanged, threads, entities, requests
  <1>2. \A o \in Objects : \A i \in 1..Len(queue') :
           queue'[i] = o => i \in 1..Len(queue) /\ queue[i] = o
    <2>1. queue \in Seq(Requests)
      BY DEF IInv, TypeOK
    <2>2. CASE queue' = Append(queue, Noop)
      <3>1. /\ Len(queue') = Len(queue) + 1 /\ Len(queue) \in Nat
            /\ \A i \in 1..Len(queue') :
                 queue'[i] = IF i = Len(queue) + 1 THEN Noop ELSE queue[i]
        BY <2>1, <2>2
      <3> QED
        BY <3>1, ThreadFacts
    <2> QED
      BY <1>1, <2>2
  <1>3. \A o \in Objects : InQueue(o)' => InQueue(o)
    BY <1>2 DEF InQueue
  <1>4. RefsInv' /\ ScanInv' /\ NoUseAfterFree' /\ CollectorInv'
    BY <1>1 DEF IInv, RefsInv, ScanInv, NoUseAfterFree, CollectorInv
  <1>5. QueueInv'
    BY <1>1, <1>3 DEF IInv, QueueInv, Queued, Scanned
  <1>6. PassedAreRecorded' /\ HoldersAreWaitedFor'
    BY <1>1, RecordsKept
  <1>7. OnceInv'
    BY <1>1, <1>2, <1>3 DEF IInv, OnceInv
  <1>8. FreedInv'
    BY <1>1, <1>3 DEF IInv, FreedInv, Scanned, TypeOK
  <1> QED
    BY <1>4, <1>5, <1>6, <1>7, <1>8 DEF IInv

-----------------------------------------------------------------------------
(* Counting, and the end of the domain.                                    *)

\* Nothing comes to be counted and nothing ceases to be.
LEMMA CountSame ==
    ASSUME CountInv, count' = count, \A r \in Requests : Counted(r)' <=> Counted(r)
    PROVE  CountInv'
  <1>1. Counting' = Counting
    BY DEF Counting
  <1> QED
    BY <1>1 DEF CountInv

\* One request more is counted.
LEMMA CountMore ==
    ASSUME CountInv, count' = count + 1, NEW x \in Requests, ~Counted(x), Counted(x)',
           \A r \in Requests \ {x} : Counted(r)' <=> Counted(r)
    PROVE  CountInv'
  <1>1. Counting' = Counting \union {x} /\ x \notin Counting
    BY DEF Counting
  <1> QED
    BY <1>1, FS_AddElement DEF CountInv

\* One request less is counted.
LEMMA CountLess ==
    ASSUME CountInv, count' = count - 1, NEW x \in Requests, Counted(x), ~Counted(x)',
           \A r \in Requests \ {x} : Counted(r)' <=> Counted(r)
    PROVE  CountInv'
  <1>1. Counting' = Counting \ {x} /\ x \in Counting
    BY DEF Counting
  <1> QED
    BY <1>1, FS_RemoveElement DEF CountInv

\* As long as something is counted, the count is not 0.
LEMMA CountIsNotZero ==
    ASSUME CountInv, NEW r \in Requests, Counted(r)
    PROVE  count # 0
  <1>1. Counting # {}
    BY DEF Counting
  <1> QED
    BY <1>1, FS_EmptySet DEF CountInv

\* At first nothing is counted and every entity is in the index.
LEMMA InitEnd == Init => EndInv
  <1> SUFFICES ASSUME Init PROVE EndInv
    OBVIOUS
  <1>1. Len(queue) = 0 /\ \A u \in Threads : gather[u].req = None /\ gather[u].step = "none"
    BY DEF Init, Idle
  <1>2. Counting = {}
    BY <1>1, ThreadFacts DEF Init, Counting, Counted, InQueue, Requests
  <1>3. CountInv
    BY <1>2, FS_EmptySet DEF Init, CountInv
  <1>4. NoopInv
    BY <1>1, ThreadFacts DEF Init, NoopInv, Queued, InQueue
  <1>5. AccountedInv
    BY DEF Init, AccountedInv
  <1>6. ShutdownInv
    BY <1>1 DEF Init, ShutdownInv
  <1> QED
    BY <1>3, <1>4, <1>5, <1>6 DEF EndInv

\* Steps that neither make, move nor free a request.
LEMMA EndKept ==
    ASSUME EndInv,
           UNCHANGED <<index, freed, queue, count, current, terminate, fini>>,
           \A u \in Threads : /\ gather'[u].req = gather[u].req
                              /\ gather'[u].step = "queue" <=> gather[u].step = "queue",
           gc' = gc \/ {gc, gc'} \intersect {"free", "done", "exit"} = {}
    PROVE  EndInv'
  <1>1. \A r : Counted(r)' <=> Counted(r)
    BY DEF Counted, InQueue
  <1>2. CountInv'
    BY <1>1, CountSame DEF EndInv
  <1>3. NoopInv'
    BY DEF EndInv, NoopInv, Queued, InQueue
  <1>4. AccountedInv'
    BY DEF EndInv, AccountedInv, InQueue, Scanned
  <1>5. ShutdownInv'
    BY DEF EndInv, ShutdownInv
  <1> QED
    BY <1>2, <1>3, <1>4, <1>5 DEF EndInv

\* An entity leaves the index for a scan; the domain has not been stopped.
LEMMA UnlinkEnd ==
    ASSUME IInv, EndInv, NEW t \in Threads, NEW o \in Objects, Unlink(t, o)
    PROVE  EndInv'
  <1>1. /\ UNCHANGED <<freed, queue, count, current, gc, terminate, fini>>
        /\ o \in index /\ index' = index \ {o}
        /\ \A u \in Threads \ {t} : gather'[u] = gather[u]
        /\ gather'[t].req = o /\ gather'[t].step = "vtime"
        /\ gather[t].req = None /\ gather[t].step = "none"
    BY DEF Unlink, requests, control, IInv, TypeOK, Scan, Idle
  <1>2. fini = "run"
    BY <1>1 DEF EndInv, ShutdownInv
  <1>3. \A r : Counted(r)' <=> Counted(r)
    BY <1>1 DEF Counted, InQueue
  <1>4. CountInv'
    BY <1>1, <1>3, CountSame DEF EndInv
  <1>5. NoopInv'
    BY <1>1 DEF EndInv, NoopInv, Queued, InQueue
  <1>6. AccountedInv'
    <2>1. \A p \in Objects : Scanned(p) => Scanned(p)'
      BY <1>1, ThreadFacts DEF Scanned
    <2>2. Scanned(o)'
      BY <1>1 DEF Scanned
    <2> QED
      BY <1>1, <2>1, <2>2 DEF EndInv, AccountedInv, InQueue
  <1>7. ShutdownInv'
    BY <1>1, <1>2 DEF EndInv, ShutdownInv
  <1> QED
    BY <1>4, <1>5, <1>6, <1>7 DEF EndInv

\* A thread in its slot.
LEMMA SlotEnd ==
    ASSUME IInv, EndInv, NEW t \in Slots, ThreadStep(t)
    PROVE  EndInv'
  <1>1. ASSUME NEW o \in Objects, Unlink(t, o) PROVE EndInv'
    BY <1>1, UnlinkEnd, ThreadFacts
  <1>2. CASE ~\E o \in Objects : Unlink(t, o)
    <2>1. UNCHANGED <<index, freed, gather, queue, count, current, gc, terminate, fini>>
      BY <1>2 DEF ThreadStep, Register, Exit, Awake, Asleep, AwakeToAwake,
         EnterDomain, Lookup, entities, requests, control
    <2> QED
      BY <2>1, EndKept
  <1> QED
    BY <1>1, <1>2

\* A request in the making is counted before it is queued.
LEMMA MakingEnd ==
    ASSUME IInv, EndInv, NEW t \in Threads, Making(t)
    PROVE  EndInv'
  <1> DEFINE g == gather[t]
  <1>0. /\ TypeOK /\ g \in Scans /\ g.step # "none" /\ g.req \in Objects
        /\ g.step \in {"vtime", "gv"} => g.next <= NSlots
    <2>1. g \in Scans /\ g.step # "none"
      BY DEF IInv, TypeOK, Making, GatherVtime, GatherGv, Count, Enqueue
    <2> QED
      BY <2>1, GcAssumption DEF IInv, ScanInv, Scans
  <1>1. Scanned(g.req) /\ ~Queued(g.req) /\ fini = "run"
    BY <1>0, ThreadFacts DEF Scanned, IInv, QueueInv, EndInv, ShutdownInv
  <1>2. g.req \in Requests /\ g.req # Noop /\ g.req # None
    BY <1>0, ThreadFacts DEF Requests
  <1>3. \A u \in Threads : gather[u].req = g.req => u = t
    BY <1>2 DEF IInv, ScanInv
  <1>4. CASE GatherVtime(t) \/ GatherGv(t)
    <2>1. /\ UNCHANGED <<index, freed, queue, count, current, gc, terminate, fini>>
          /\ \A u \in Threads \ {t} : gather'[u] = gather[u]
          /\ g.step \in {"vtime", "gv"}
          /\ \/ gather'[t] = Passed(g)
             \/ gather'[t] = [g EXCEPT !.step = "gv", !.seen = tick[g.next]]
      BY <1>0, <1>4 DEF GatherVtime, GatherGv, threads, entities, requests, control,
         TypeOK
    <2>2. gather'[t].req = g.req /\ gather'[t].step # "queue"
      BY <1>0, <2>1, PassedType DEF Scans
    <2> QED
      BY <2>1, <2>2, EndKept
  <1>5. CASE Count(t)
    <2>1. /\ UNCHANGED <<index, freed, queue, current, gc, terminate, fini>>
          /\ count' = count + 1
          /\ \A u \in Threads \ {t} : gather'[u] = gather[u]
          /\ g.step = "count" /\ gather'[t].req = g.req /\ gather'[t].step = "queue"
      BY <1>0, <1>5 DEF Count, threads, entities, control, TypeOK, Scans
    <2>2. ~Counted(g.req)
      BY <1>1, <1>2, <1>3, <2>1 DEF Counted, Queued
    <2>3. Counted(g.req)'
      BY <2>1 DEF Counted
    <2>4. \A r \in Requests \ {g.req} : Counted(r)' <=> Counted(r)
      BY <2>1 DEF Counted, InQueue
    <2>5. CountInv'
      BY <1>2, <2>1, <2>2, <2>3, <2>4, CountMore DEF EndInv
    <2>6. NoopInv'
      BY <2>1 DEF EndInv, NoopInv, Queued, InQueue
    <2>7. AccountedInv'
      BY <2>1 DEF EndInv, AccountedInv, InQueue, Scanned
    <2>8. gc # "exit"
      BY <1>1 DEF EndInv, ShutdownInv
    <2>9. ShutdownInv'
      BY <1>1, <2>1, <2>8 DEF EndInv, ShutdownInv
    <2> QED
      BY <2>5, <2>6, <2>7, <2>9 DEF EndInv
  <1>6. CASE Enqueue(t)
    <2>1. /\ UNCHANGED <<index, freed, count, current, terminate, fini>>
          /\ queue' = Append(queue, g.req) /\ queue \in Seq(Requests)
          /\ gc' = gc \/ (gc = "waiting" /\ gc' = "woken")
          /\ \A u \in Threads \ {t} : gather'[u] = gather[u]
          /\ g.step = "queue" /\ gather'[t].req = None /\ gather'[t].step = "none"
      BY <1>0, <1>6 DEF Enqueue, threads, entities, TypeOK, Idle
    <2>2. /\ Len(queue') = Len(queue) + 1 /\ Len(queue) \in Nat
          /\ \A i \in 1..Len(queue') :
               queue'[i] = IF i = Len(queue) + 1 THEN g.req ELSE queue[i]
      BY <1>2, <2>1
    <2>3. \A r : InQueue(r)' <=> r = g.req \/ InQueue(r)
      BY <2>2 DEF InQueue
    <2>4. \A r : Counted(r)' <=> Counted(r)
      BY <1>2, <1>3, <2>1, <2>3 DEF Counted
    <2>5. CountInv'
      BY <2>1, <2>4, CountSame DEF EndInv
    <2>6. NoopInv'
      BY <1>2, <2>1, <2>2, <2>3 DEF EndInv, NoopInv, Queued
    <2>7. AccountedInv'
      <3>1. \A o \in Objects : Scanned(o) => Scanned(o)' \/ o = g.req
        BY <2>1 DEF Scanned
      <3> QED
        BY <2>1, <2>3, <3>1 DEF EndInv, AccountedInv
    <2>8. gc # "exit"
      BY <1>1 DEF EndInv, ShutdownInv
    <2>9. ShutdownInv'
      BY <1>1, <2>1, <2>8 DEF EndInv, ShutdownInv
    <2> QED
      BY <2>5, <2>6, <2>7, <2>9 DEF EndInv
  <1> QED
    BY <1>4, <1>5, <1>6 DEF Making

\* A step of the collector: a request is in its hands or back in the queue, and
\* counted until it is freed.  It leaves only when nothing is counted.
LEMMA CollectorEnd ==
    ASSUME IInv, EndInv, Collector
    PROVE  EndInv'
  <1>1. /\ UNCHANGED <<index, gather, terminate, fini>>
        /\ queue \in Seq(Requests) /\ Len(queue) \in Nat
        /\ gc # "exit" /\ fini # "done"
    BY DEF Collector, Top, CheckLeases, LeasesChecked, Check, Call, Free, Called,
       CollectorUnchanged, entities, IInv, TypeOK, EndInv, ShutdownInv
  <1>2. \A r \in Requests : Queued(r) => ~Scanned(r) /\ (r = Noop => fini = "join")
    <2>1. ~Scanned(Noop)
      BY ThreadFacts DEF IInv, TypeOK, Scans, Scanned
    <2>2. fini # "join" => ~Queued(Noop)
      BY <1>1 DEF EndInv, NoopInv
    <2> QED
      BY <2>1, <2>2, ThreadFacts DEF IInv, QueueInv, Requests
  <1>3. CASE /\ UNCHANGED <<freed, queue, count, current>>
             /\ {gc, gc'} \intersect {"free", "done", "exit"} = {}
    BY <1>1, <1>3, EndKept
  <1>4. CASE Top /\ gc' = "exit"
    <2>1. /\ UNCHANGED <<freed, queue, count, current>>
          /\ gc = "top" /\ terminate /\ count = 0
      BY <1>4 DEF Top, Quit, CollectorUnchanged, entities
    <2>2. \A r \in Requests : ~Counted(r)
      BY <2>1, CountIsNotZero DEF EndInv
    <2>3. current = None
      BY <2>1, <2>2 DEF Counted, IInv, TypeOK
    <2>4. queue = <<>>
      <3>1. Len(queue) # 0 => InQueue(queue[1]) /\ queue[1] \in Requests
        BY <1>1 DEF InQueue
      <3> QED
        BY <1>1, <2>2, <3>1 DEF Counted
    <2>5. fini \in {"join", "done"}
      BY <2>1, <2>2 DEF EndInv, ShutdownInv, Counted, Requests
    <2>6. \A r : Counted(r)' <=> Counted(r)
      BY <1>1, <1>4, <2>1 DEF Counted, InQueue
    <2>7. CountInv'
      BY <2>1, <2>6, CountSame DEF EndInv
    <2>8. NoopInv'
      BY <1>1, <2>1 DEF EndInv, NoopInv, Queued, InQueue
    <2>9. AccountedInv'
      BY <1>1, <2>1, <2>3, GcAssumption DEF EndInv, AccountedInv, InQueue, Scanned
    <2>10. ShutdownInv'
      BY <1>1, <2>1, <2>3, <2>4, <2>5 DEF EndInv, ShutdownInv
    <2> QED
      BY <2>7, <2>8, <2>9, <2>10 DEF EndInv
  <1>5. CASE Top /\ current = None /\ queue # <<>> /\ gc' = "lease"
             /\ current' = Head(queue) /\ queue' = Tail(queue)
    <2>1. UNCHANGED <<freed, count>> /\ gc \in {"top", "woken"}
      BY <1>5 DEF Top, CollectorUnchanged, entities
    <2>2. /\ Len(queue') = Len(queue) - 1 /\ Len(queue) \in Nat \ {0}
          /\ current' = queue[1]
          /\ \A i \in 1..Len(queue) - 1 : queue'[i] = queue[i + 1]
      BY <1>1, <1>5
    <2>3. \A r : InQueue(r) <=> r = current' \/ InQueue(r)'
      <3>1. \A r : InQueue(r) => r = current' \/ InQueue(r)'
        <4> SUFFICES ASSUME NEW r, NEW i \in 1..Len(queue), queue[i] = r, i # 1
                     PROVE  InQueue(r)'
          BY <2>2 DEF InQueue
        <4>1. i - 1 \in 1..Len(queue) - 1 /\ queue'[i - 1] = r
          BY <2>2
        <4> QED
          BY <2>2, <4>1 DEF InQueue
      <3>2. \A r : InQueue(r)' => InQueue(r)
        <4> SUFFICES ASSUME NEW r, NEW i \in 1..Len(queue) - 1, queue'[i] = r
                     PROVE  InQueue(r)
          BY <2>2 DEF InQueue
        <4>1. i + 1 \in 1..Len(queue) /\ queue[i + 1] = r
          BY <2>2
        <4> QED
          BY <4>1 DEF InQueue
      <3>3. InQueue(queue[1])
        BY <2>2 DEF InQueue
      <3> QED
        BY <2>2, <3>1, <3>2, <3>3
    <2>4. current' \in Requests
      BY <1>1, <2>2
    <2>5. \A r \in Requests : Counted(r)' <=> Counted(r)
      BY <1>1, <1>5, <2>1, <2>3, GcAssumption DEF Counted, Requests
    <2>6. CountInv'
      BY <2>1, <2>5, CountSame DEF EndInv
    <2>7. NoopInv'
      <3>1. fini \notin {"join", "done"} => ~Queued(Noop)'
        BY <2>3 DEF EndInv, NoopInv, Queued
      <3>2. current' = Noop => ~InQueue(Noop)'
        <4> SUFFICES ASSUME queue[1] = Noop, NEW i \in 1..Len(queue) - 1,
                            queue'[i] = Noop
                     PROVE  FALSE
          BY <2>2 DEF InQueue
        <4>1. i + 1 \in 1..Len(queue) /\ 1 \in 1..Len(queue) /\ queue[i + 1] = Noop
          BY <2>2
        <4> QED
          BY <4>1 DEF EndInv, NoopInv
      <3>3. \A i, j \in 1..Len(queue') : queue'[i] = Noop /\ queue'[j] = Noop => i = j
        <4> SUFFICES ASSUME NEW i \in 1..Len(queue) - 1, NEW j \in 1..Len(queue) - 1,
                            queue'[i] = Noop, queue'[j] = Noop
                     PROVE  i = j
          BY <2>2
        <4>1. /\ i + 1 \in 1..Len(queue) /\ queue[i + 1] = Noop
              /\ j + 1 \in 1..Len(queue) /\ queue[j + 1] = Noop
          BY <2>2
        <4>2. i + 1 = j + 1
          BY <4>1 DEF EndInv, NoopInv
        <4> QED
          BY <4>2
      <3> QED
        BY <1>1, <3>1, <3>2, <3>3 DEF NoopInv
    <2>8. AccountedInv'
      BY <1>1, <1>5, <2>1, <2>3, GcAssumption DEF EndInv, AccountedInv, Scanned
    <2>9. ShutdownInv'
      BY <1>1, <1>5 DEF EndInv, ShutdownInv
    <2> QED
      BY <2>6, <2>7, <2>8, <2>9 DEF EndInv
  <1>6. CASE Call /\ current \in TwoPhase \ requeued
    <2>1. /\ UNCHANGED <<freed, count, current>>
          /\ queue' = Append(queue, current) /\ gc = "call" /\ gc' = "done"
          /\ current \in Objects
      BY <1>6, GcAssumption DEF Call, CollectorUnchanged, entities
    <2>2. /\ Len(queue') = Len(queue) + 1 /\ current \in Requests /\ current # Noop
          /\ \A i \in 1..Len(queue') :
               queue'[i] = IF i = Len(queue) + 1 THEN current ELSE queue[i]
      BY <1>1, <2>1, GcAssumption DEF Requests
    <2>3. \A r : InQueue(r)' <=> r = current \/ InQueue(r)
      BY <1>1, <2>2 DEF InQueue
    <2>4. \A r : Counted(r)' <=> Counted(r)
      BY <1>1, <2>1, <2>3 DEF Counted
    <2>5. CountInv'
      BY <2>1, <2>4, CountSame DEF EndInv
    <2>6. NoopInv'
      BY <1>1, <2>1, <2>2, <2>3 DEF EndInv, NoopInv, Queued
    <2>7. AccountedInv'
      BY <1>1, <2>1, <2>3 DEF EndInv, AccountedInv, Scanned
    <2>8. ShutdownInv'
      BY <1>1, <2>1 DEF EndInv, ShutdownInv
    <2> QED
      BY <2>5, <2>6, <2>7, <2>8 DEF EndInv
  <1>7. CASE Call /\ current \notin TwoPhase \ requeued
    <2>1. /\ UNCHANGED <<freed, queue, current>> /\ count' = count - 1
          /\ gc = "call" /\ gc' \in {"free", "done"}
          /\ gc' = "done" => current = Noop
      BY <1>7 DEF Call, CollectorUnchanged, entities
    <2>2. current \in Requests /\ Queued(current)
      BY <2>1 DEF IInv, CollectorInv, TypeOK, Queued
    <2>3. ~InQueue(current)
      BY <2>1, <2>2 DEF IInv, OnceInv, EndInv, NoopInv, Requests
    <2>4. Counted(current)
      BY <2>1 DEF Counted
    <2>5. ~(Counted(current)')
      BY <1>1, <1>2, <2>1, <2>2, <2>3 DEF Counted, InQueue, Scanned
    <2>6. \A r \in Requests \ {current} : Counted(r)' <=> Counted(r)
      BY <1>1, <2>1 DEF Counted, InQueue
    <2>7. CountInv'
      BY <2>1, <2>2, <2>4, <2>5, <2>6, CountLess DEF EndInv
    <2>8. NoopInv'
      BY <1>1, <2>1 DEF EndInv, NoopInv, Queued, InQueue
    <2>9. AccountedInv'
      BY <1>1, <2>1, GcAssumption DEF EndInv, AccountedInv, InQueue, Scanned
    <2>10. ShutdownInv'
      BY <1>1, <2>1 DEF EndInv, ShutdownInv
    <2> QED
      BY <2>7, <2>8, <2>9, <2>10 DEF EndInv
  <1>8. CASE Free \/ Called
    <2>1. /\ UNCHANGED <<queue, count>> /\ gc \in {"free", "done"}
          /\ gc' \in {"done", "top"}
          /\ gc = "done" <=> gc' = "top"
          /\ gc = "free" => freed' = freed \union {current} /\ current' = current
          /\ gc = "done" => freed' = freed /\ current' = None
      BY <1>8 DEF Free, Called, CollectorUnchanged, requests, entities
    <2>2. \A r \in Requests : Counted(r)' <=> Counted(r)
      BY <1>1, <2>1, GcAssumption DEF Counted, InQueue, Requests
    <2>3. CountInv'
      BY <2>1, <2>2, CountSame DEF EndInv
    <2>4. NoopInv'
      BY <1>1, <2>1, GcAssumption DEF EndInv, NoopInv, Queued, InQueue
    <2>5. AccountedInv'
      BY <1>1, <2>1 DEF EndInv, AccountedInv, InQueue, Scanned
    <2>6. ShutdownInv'
      BY <1>1, <2>1 DEF EndInv, ShutdownInv
    <2> QED
      BY <2>3, <2>4, <2>5, <2>6 DEF EndInv
  <1>9. CASE Top
    <2>1. gc \in {"top", "woken"} /\ UNCHANGED <<freed, count>>
      BY <1>9 DEF Top, CollectorUnchanged, entities
    <2> QED
      BY <1>3, <1>4, <1>5, <1>9, <2>1 DEF Top
  <1>10. CASE CheckLeases \/ LeasesChecked \/ Check
    BY <1>3, <1>10 DEF CheckLeases, LeasesChecked, Check, CollectorUnchanged,
       requests, entities
  <1> QED
    BY <1>6, <1>7, <1>8, <1>9, <1>10 DEF Collector

\* The domain is stopped when it is empty, and the no-op made after all else.
LEMMA ShutdownEnd ==
    ASSUME IInv, EndInv, WaitTimesOut \/ Stop \/ Shutdown
    PROVE  EndInv'
  <1>1. CASE WaitTimesOut
    BY <1>1, EndKept DEF WaitTimesOut, entities, requests
  <1>2. CASE Stop \/ Drain \/ QueueQuiet \/ Join
    <2>1. /\ UNCHANGED <<index, freed, gather, queue, count, current, gc, terminate>>
          /\ fini = "wait" <=> fini' = "noop"
          /\ fini' \notin {"run", "wait"} /\ fini \notin {"noop", "done"}
          /\ fini = "run" => index = {} /\ \A u \in Threads : gather[u] = Idle
          /\ fini' = "done" <=> fini = "join"
          /\ fini = "join" => gc = "exit"
          /\ fini' # "join"
      BY <1>2 DEF Stop, Drain, QueueQuiet, Join, FiniUnchanged, entities
    <2>2. \A r : Counted(r)' <=> Counted(r)
      BY <2>1 DEF Counted, InQueue
    <2>3. CountInv'
      BY <2>1, <2>2, CountSame DEF EndInv
    <2>4. NoopInv'
      BY <2>1 DEF EndInv, NoopInv, Queued, InQueue
    <2>5. AccountedInv'
      BY <2>1 DEF EndInv, AccountedInv, InQueue, Scanned
    <2>6. ShutdownInv'
      BY <1>2, <2>1 DEF EndInv, ShutdownInv, Idle, Stop, Drain, QueueQuiet, Join
    <2> QED
      BY <2>3, <2>4, <2>5, <2>6 DEF EndInv
  <1>3. CASE BeginFree
    <2>1. /\ UNCHANGED <<index, freed, gather, queue, current, gc>>
          /\ count' = count + 1 /\ fini = "drained" /\ fini' = "wait"
      BY <1>3 DEF BeginFree, FiniUnchanged, entities
    <2>2. ~Counted(Noop)
      BY <2>1, ThreadFacts
         DEF Counted, EndInv, NoopInv, Queued, IInv, TypeOK, Scans
    <2>3. Counted(Noop)' /\ \A r \in Requests \ {Noop} : Counted(r)' <=> Counted(r)
      BY <2>1 DEF Counted, InQueue
    <2>4. CountInv'
      BY <2>1, <2>2, <2>3, CountMore DEF EndInv, Requests
    <2>5. NoopInv'
      BY <2>1 DEF EndInv, NoopInv, Queued, InQueue
    <2>6. AccountedInv'
      BY <2>1 DEF EndInv, AccountedInv, InQueue, Scanned
    <2>7. ShutdownInv'
      BY <2>1 DEF EndInv, ShutdownInv
    <2> QED
      BY <2>4, <2>5, <2>6, <2>7 DEF EndInv
  <1>4. CASE EnqueueNoop
    <2>1. /\ UNCHANGED <<index, freed, gather, count, current, terminate>>
          /\ queue' = Append(queue, Noop) /\ fini = "noop" /\ fini' = "join"
          /\ gc' = gc \/ (gc = "waiting" /\ gc' = "woken")
      BY <1>4 DEF EnqueueNoop, FiniUnchanged, entities
    <2>2. queue \in Seq(Requests) /\ Noop \in Requests
      BY DEF IInv, TypeOK, Requests
    <2>3. /\ Len(queue') = Len(queue) + 1 /\ Len(queue) \in Nat
          /\ \A i \in 1..Len(queue') :
               queue'[i] = IF i = Len(queue) + 1 THEN Noop ELSE queue[i]
      BY <2>1, <2>2
    <2>4. \A r : InQueue(r)' <=> r = Noop \/ InQueue(r)
      BY <2>3 DEF InQueue
    <2>5. ~InQueue(Noop) /\ current # Noop /\ gc # "exit"
      BY <2>1 DEF EndInv, NoopInv, ShutdownInv, Queued
    <2>6. \A r : Counted(r)' <=> Counted(r)
      BY <2>1, <2>4 DEF Counted
    <2>7. CountInv'
      BY <2>1, <2>6, CountSame DEF EndInv
    <2>8. NoopInv'
      BY <2>1, <2>3, <2>5 DEF NoopInv, InQueue
    <2>9. AccountedInv'
      BY <2>1, <2>4 DEF EndInv, AccountedInv, Scanned
    <2>10. ShutdownInv'
      BY <2>1, <2>5 DEF EndInv, ShutdownInv
    <2> QED
      BY <2>7, <2>8, <2>9, <2>10 DEF EndInv
  <1> QED
    BY <1>1, <1>2, <1>3, <1>4 DEF Shutdown

-----------------------------------------------------------------------------
(* Theorems.                                                               *)

\* The invariant is inductive: whoever holds a deleted entity has been passed
\* by the scan awake, and is recorded with the virtual time it still has.
THEOREM Invariance == Spec => []IInv
  <1>1. IInv /\ [Next]_vars => IInv'
    <2> SUFFICES ASSUME IInv, [Next]_vars
                 PROVE  IInv'
      OBVIOUS
    <2>1. CASE UNCHANGED vars
      <3>1. UNCHANGED <<state, gv, nest, tick, refs, index, freed, gather, waitfor,
                        queue, count, current, gc, requeued, terminate, fini>>
        BY <2>1 DEF vars, threads, entities, requests, control
      <3>2. TypeOK' /\ RefsInv' /\ NoUseAfterFree'
        BY <3>1 DEF IInv, TypeOK, RefsInv, NoUseAfterFree
      <3>3. PassedAreRecorded' /\ HoldersAreWaitedFor'
        BY <3>1, RecordsKept
      <3> QED
        BY <3>1, <3>2, <3>3, ControlKept DEF IInv
    <2>2. CASE Next
      <3>1. TypeOK'
        BY <2>2, TypeStep DEF IInv
      <3>2. ASSUME NEW t \in Slots, ThreadStep(t)
            PROVE  IInv'
        <4>1. CASE \E o \in Objects : Unlink(t, o)
          BY <3>1, <4>1, UnlinkStep, ThreadFacts
        <4>2. CASE ~\E o \in Objects : Unlink(t, o)
          BY <3>1, <3>2, <4>2, SlotStep DEF ThreadStep
        <4> QED
          BY <4>1, <4>2
      <3>3. ASSUME NEW t \in Threads, Making(t)
            PROVE  IInv'
        BY <3>1, <3>3, MakingStep
      <3>4. ASSUME NEW o \in Objects, LeaseExpires(o)
            PROVE  IInv'
        BY <3>1, <3>4, UnlinkStep, ThreadFacts DEF LeaseExpires
      <3>5. CASE Collector
        BY <3>1, <3>5, CollectorStep
      <3>6. CASE WaitTimesOut \/ Stop \/ Shutdown
        BY <3>1, <3>6, ShutdownStep
      <3> QED
        BY <2>2, <3>2, <3>3, <3>4, <3>5, <3>6 DEF Next
    <2> QED
      BY <2>1, <2>2
  <1> QED
    BY <1>1, InitInv, PTL DEF Spec

\* Every variable keeps to its values, virtual times to their modulus.
THEOREM TypeCorrect == Spec => []TypeOK
  <1>1. IInv => TypeOK
    BY DEF IInv
  <1> QED
    BY <1>1, Invariance, PTL

\* Once the scan for a deleted entity is over, every thread that still has a
\* pointer to it is among those the collector waits for.
THEOREM HoldersWaited == Spec => []HoldersAreWaitedFor
  <1>1. IInv => HoldersAreWaitedFor
    BY DEF IInv
  <1> QED
    BY <1>1, Invariance, PTL

\* The collector releases the memory of no entity that a thread can reach,
\* for any number of threads and however virtual times wrap around.
THEOREM NeverUsedAfterFree == Spec => []NoUseAfterFree
  <1>1. IInv => NoUseAfterFree
    BY DEF IInv
  <1> QED
    BY <1>1, Invariance, PTL

\* Every request is counted, and every entity in the index, on its way through
\* the queue or freed: this is inductive given the invariant above.
THEOREM EndInvariance == Spec => []EndInv
  <1>1. IInv /\ EndInv /\ [Next]_vars => EndInv'
    <2> SUFFICES ASSUME IInv, EndInv, [Next]_vars
                 PROVE  EndInv'
      OBVIOUS
    <2>1. CASE UNCHANGED vars
      BY <2>1, EndKept DEF vars, entities, requests, control
    <2>2. ASSUME NEW o \in Objects, LeaseExpires(o)
          PROVE  EndInv'
      BY <2>2, UnlinkEnd, ThreadFacts DEF LeaseExpires
    <2> QED
      BY <2>1, <2>2, SlotEnd, MakingEnd, CollectorEnd, ShutdownEnd DEF Next
  <1> QED
    BY <1>1, InitEnd, Invariance, PTL DEF Spec

\* Once the collector has been joined its queue is empty, nothing is counted
\* and every entity has been freed, for any number of threads and entities.
THEOREM NothingIsLeft == Spec => []NothingLeftBehind
  <1>1. IInv /\ EndInv => NothingLeftBehind
    <2> SUFFICES ASSUME IInv, EndInv, fini = "done"
                 PROVE  /\ queue = <<>> /\ current = None /\ count = 0
                        /\ freed = Objects
      BY DEF NothingLeftBehind
    <2>1. /\ queue = <<>> /\ current = None /\ count = 0 /\ index = {}
          /\ \A u \in Threads : gather[u].req = None
      BY DEF EndInv, ShutdownInv
    <2>2. \A o \in Objects : o \in freed
      BY <2>1, GcAssumption DEF EndInv, AccountedInv, Scanned, InQueue
    <2> QED
      BY <2>1, <2>2 DEF IInv, TypeOK
  <1> QED
    BY <1>1, Invariance, EndInvariance, PTL
=============================================================================

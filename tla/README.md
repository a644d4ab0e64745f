# TLA+ models of the Go2 deployment stack

This directory holds TLA+ modules, TLC configurations and TLAPS proofs for the
code of this repository that runs a trained policy on a Unitree Go2, real or
simulated.  Paths below are relative to `src/2.Deploy/` unless they begin with
`1.Training`; `sdk/` stands for `unitree_sdk2_python/unitree_sdk2py/`, `ctl/`
for `Deploy_python/`, `sim/` for `Unitree_mujoco/simulate_python/`, `ddsi/` for
`cyclonedds/src/core/ddsi/src/` and `ddsc/` for `cyclonedds/src/core/ddsc/src/`.

## 1. The system

A controller process (`ctl/deploy.py`) reads the robot's state from one DDS
topic, shows it to a policy and writes motor commands to another.  The other
side is the robot, or a MuJoCo simulation (`sim/`) that speaks the same topics.
Below both is the Python SDK (`sdk/`): publish/subscribe channels over Cyclone
DDS, and on top of them remote calls with leases, which the controller uses to
take the legs over from the robot's own motion service.

| Part | Where | State it keeps | Operations |
|---|---|---|---|
| Channel, subscriber side | `sdk/core/channel.py`, `sdk/utils/bqueue.py` | DDS reader, handler, bounded queue, stop event, `ch_reader` thread | `Init` in three modes, `Read`, `Close`, data-available listener, thread loop |
| Channel, publisher side | `sdk/core/channel.py` | DDS writer, matched count | `Init`, `Write(timeout)`, `Close`, publication-matched listener |
| Channel factory | `sdk/core/channel.py` | domain, participant, `__initialized` | double-checked `Init`, `CreateChannel` |
| Futures and threads | `sdk/utils/future.py`, `sdk/utils/thread.py` | state, value, condition; quit flag, timer | `GetResult`, `Ready`, `Fail`, `Wait`; periodic call |
| RPC client | `sdk/rpc/client*.py`, `sdk/rpc/request_future.py` | table of futures | call with reply, call without reply, response handler |
| RPC server | `sdk/rpc/server*.py` | normal and priority queue, two threads | `Start`, `__Enqueue`, request handler |
| Lease | `sdk/rpc/lease_client.py`, `sdk/rpc/lease_server.py` | id, term, last renewal | apply, renewal, check of a request |
| Controller | `ctl/deploy.py`, `ctl/No_Look.py` | `low_state`, `low_cmd`, remote, phase | take-over, low-state handler, phases, `run`, exit |
| Simulator bridge | `sim/unitree_sdk2py_bridge.py` | messages, virtual remote | low-command handler, periodic publishers |
| Simulation | `sim/unitree_mujoco.py` | MuJoCo data, lock, shutdown event | stepping, viewer and window threads |
| Virtual remote | `sim/unitree_sdk2py_bridge.py`, `sim/unitree_mujoco.py` | buttons and axes under a lock | mouse and keyboard set, the publisher reads |
| DDS threads and collector | `ddsi/q_thread.c`, `ddsi/q_gc.c` | per thread: virtual time, domain; a queue of requests | awake, asleep, `gcreq_new`, `gcreq_enqueue`, the collector's loop, drain and free |
| DDS entities | `ddsc/dds_entity.c`, `ddsc/dds_handles.c` | per handle: counts of pins and references, CLOSING; children, `m_mutex` | pin, unpin, `dds_delete`, deletion of children, implicit parents and topics, `dds_create_writer` |
| DDS reliable writer | `ddsi/q_transmit.c`, `ddsi/ddsi_endpoint.c` | history cache, throttling, matched readers, state | `dds_write`, wait for acknowledgements, ACKNACK, departure of readers, deletion and lingering |
| Cyclone DDS, the rest | `cyclonedds` | discovery, caches, types, security | wire protocol and tools (vendored C) |
| Training | `1.Training` | none at run time | declarations for an external learner |

How they interact:

- `ChannelSubscriber` starts a `ch_reader` thread per queued subscription.  The
  DDS listener puts samples into its `BQueue`, the thread takes them out and
  calls the handler: `LowStateHandler`, `LowCmdHandler`, `__Enqueue` and
  `__ResponseHandler` all run there.
- A remote call is a sample on the server's request topic and one on its
  response topic.  Every client of a service reads the same response topic;
  the request id says whose answer it is, and the others drop it.
- `Client` may hold a lease: a thread of its own applies and renews by remote
  calls, every leased call carries the id, and the server compares.
- Under every channel is Cyclone DDS, whose threads (the application's, receive,
  discovery, event and collector threads) share entities by pointer.  `dds_delete`
  closes the handle, interrupts what blocks, and hands the entity to the
  collector, which frees it when no thread awake at that time can reach it.
- The controller calls the motion service through `MotionSwitcherClient`
  (three calls), then only publishes and subscribes.

What is hard here is not the arithmetic but the order of things: threads that
share a queue, a future, a lease cache, a sample or an entity that a third one
deletes; calls that time out while
their answer is on its way; the window between a check and a wait; Ctrl-C.
`PROJECT.json` lists the places under `hazards`, each at its line.

## 2. The modules

| Module | Models | State / actions and the code |
|---|---|---|
| `BQueue` | `BQueue` | records with the deque and the separate count; `Put`, `AfterGet`, `Cleared`, and when `Put` notifies |
| `SampleStream` | what a subscriber promises | samples are handled in increasing order, at most once, and may be lost |
| `ChannelReader` | `Channel.__Reader`, `ChannelSubscriber` | one action per step between two lock operations of the listener, the `ch_reader` thread and the application (`Close` alone is five) |
| `RpcAbstract` | what a remote call promises | a call runs at most once; success means it ran; failure means nothing |
| `Rpc` | `ClientBase`, `ClientStub`, `RequestFutureQueue`, `Future`, `ServerStub`, `Server` | calling threads, the response handler (two steps), the server's start-up, its ear and its two queue threads |
| `Lease` | `LeaseClient`, `LeaseServer`, the lease checks | per client the lease thread's steps; the server's handler is taken and finishes in two steps, so that its `now` may be stale |
| `Deploy` | `deploy.py` | the main thread's phases, Ctrl-C, `LowStateHandler`, the operator and the motion service |
| `Observation` | the shared state of `No_Look.py` | the handler replaces sample and sticks field by field, `run()` reads them entry by entry; a value is the number of the sample it is from |
| `GcQueue` | `q_thread`, `q_gc` | per thread its slot, virtual time (nesting and tick), domain and the pointers it has; the scan of the threads one load at a time; the collector's loop; shutting down |
| `EntityDelete` | `dds_entity`, `dds_handles`, `dds_create_writer` | a stack of activations per thread, so that nested and recursive deletions interleave with each other; one action per critical section |
| `WriterThrottle` | `q_transmit`, `ddsi_endpoint`, the handlers around a reliable writer | write, wait, delete, acknowledge, departure, linger event and collector, one action per stretch under the writer's lock |
| `ChannelReaderProofs`, `RpcProofs`, `LeaseProofs`, `DeployProofs`, `ObservationProofs`, `GcQueueProofs`, `EntityDeleteProofs`, `WriterThrottleProofs` | | theorems about these |
| `MC…` | | instances for TLC |

Composition is by contract.  `ChannelReader` is shown to implement
`SampleStream` (`StreamSpec`), and `Rpc` takes both its channels at that
contract: what a writer wrote is numbered and a handler sees increasing numbers
with gaps.  `Rpc` is shown to implement `RpcAbstract` (`AbstractSpec`), and
`Lease` and `Deploy` take their calls at that contract: a request may run late,
after its caller gave up, or never.  `Observation` takes its samples in order.
`WriterThrottle` takes the collector at what `GcQueue` shows of it: a request is
handled once every thread that was awake when it was made has been asleep.
Checking the product of all layers would be far out of reach and would show
nothing that these steps do not.

Abstractions worth knowing:

- *Samples* are numbers; the DDS reader is a cache of one (KEEP_LAST 1 is the
  default quality of service, and the channels pass none).  `Publish` may lose
  a sample, replace an untaken one, or arrive.
- *Numbering in `Rpc` is per client* although all clients share the response
  topic: an answer of another client is dropped by the table of futures
  without any effect, and losing more or fewer of one's own is allowed anyway.
  Request ids (`time.monotonic_ns`) are taken as distinct.
- The three variants of `_Call…Base` differ in payload only.  Handlers of the
  server are a counter `runs`.  What a handler returns matters once: an answer
  that cannot be encoded (`BadReply`) makes `Write` raise in its own error path
  (`channel.py:150`) and ends the queue thread.
- *Time in `Lease`* is a clock in ticks.  Any number of requests may be handled
  within one tick.  The clock does not go back, which `time.time_ns` may when it
  is set: what follows if it does is not asked.  Sleeps are rounded up to ticks.
  A call may fail at once, its request unwritten (`SendFails`), or when the wait
  for its answer is over (`CallFails`); a request or answer that is lost is one
  that is never taken.
- *Commands in `Deploy`* are told apart by kind (none, zero, gains of a phase,
  damping).  What `run()` computes is left to the reader of the course by the
  code itself; it sends a command or raises.  `_CallBase` results are "a mode",
  "no mode" and "nothing", the last covering time limits and error codes.
- *Pointers in `GcQueue`* are a set per thread.  A thread gets one by a lookup
  in the entity index while awake and gives all up when it goes to sleep, which
  is the rule the code's comments state for `thread_state_awake`.  Virtual times
  count modulo `TimeMod`, as the code's upper 28 bits do.  The list of thread
  states does not grow: a thread in a slot added after a scan began starts
  asleep and can no longer find the entity.
- *Entities in `EntityDelete`* are one participant, its publishers, writers and
  topics.  Counts and flags are those of `cnt_flags`; the handle server's lock is
  held within an action, `m_mutex` where the code holds it across calls.
  `StartCreate` creates a writer in a publisher that exists, given by the
  application or made implicitly before.  That `dds_create_writer` is called on a
  participant, makes the publisher itself (`ddsc/dds_writer.c:389`) and deletes
  it again when a later check fails, is not modelled.
- *Samples in `WriterThrottle`* are counted and are one unit of
  `unacked_bytes` each.  What is sent and when, heartbeats and liveliness do not
  influence who waits for whom.  The end of a domain (`rtps_stop`) with writers
  still throttled is left out: by `NotThrottledWhenDeleted` the application's
  own deletion never meets it.

Configurations that only differ in what they begin with are one run: `Rpc` has a
variable `setup`, `Deploy` has `real`, `EntityDelete` chooses a scene and
`WriterThrottle` a `conf` in `Init`; no action changes them.

Definitions marked as faulty variants are the operations with a plausible bug
(a dropped guard, a missing signal, an off-by-one).  No specification uses them;
they are there so that each property can be seen to fail when the code does.

## 3. Properties and runs

All passing runs finish without constraints; bounds are constants in guards.

| Run | Instance | Distinct states | Question |
|---|---|---|---|
| `channel_reader` | queue of 2, 5 samples, 2 lives of the subscriber in any mode, a handler that may raise | 25 092 | lost wake-ups, what `Close` guarantees and when it hangs, refinement of `SampleStream` |
| `rpc` | 3 calls: of 2 clients with queues of 1 (bad answer, without reply, with priority), and of 1 client with a queue of 2 | 46 042 | an answer reaches its caller, the leaking table, order of execution, every call returns, refinement of `RpcAbstract` |
| `lease` | 2 clients, one of which also makes leased calls, term 1, 5 ticks | 5 584 360 | when a lease may be lost, a call denied, an id given up or granted again |
| `lease_timely` | term 5, one tick each way, 16 ticks | 89 967 | renewing at 0.3 of the term is often enough |
| `deploy` | moves of 2 commands, 2 strokes of Ctrl-C, robot and simulator | 172 800 | a known pose before gains, damped exit, alone on the legs, SELECT and Ctrl-C end it |
| `deploy_conflict` | the same | | expected violation, see Findings |
| `observation` | 3 samples, the fields and entries of `No_Look.py` with two joints | 216 623 | how far an observation mixes samples |
| `gc` | 1 application thread beside the collector, 2 entities, one requeued and deleted by the collector, nesting of 2, times modulo 5 | 255 962 | no use after free, everything is freed, shutting down ends |
| `entity` | 3 threads, up to 6 entities, 3 scenes | 121 897 | one deleter, nothing used after it is freed or left half deleted, every call returns |
| `entity_two_deleters` | 2 threads, participant, implicit publisher and its writer | | expected violation, see Findings |
| `throttle` | 1 write thread, 1 wait, 2 readers, one possibly unmatched, 2 samples, with time limits and without | 1 399 773 | no use after free, by handlers that have given the lock up neither, no lost wake-up, lingering |
| `throttle_live` | 1 reader, silent with time limits, answering without, silent with room in the cache | 68 507 | blocked calls and `dds_delete` return |

Why the bounds are enough.  A queue of 2 with 5 samples fills, overflows and
empties with samples before, in and behind it; two lives are needed for
anything that survives a `Close`.  In `rpc` the queues of 1 overflow while the
third call is handled, three calls are the smallest number with two of one
client, and a queue of 2 overflows with three.  In `lease` a term of 1 lets a
lease expire and be granted again twice within five ticks, with calls
outstanding from before.  `Deploy`'s moves have a first, and a last command that
ends them; a second Ctrl-C is the only one that changes anything.  In
`observation` three samples are more than one observation can step back over.
In `gc` the collector is itself a second thread that holds and deletes entities,
and `GcQueueProofs` covers more application threads; two entities make a queue
with a request behind another.  `entity` needs a third thread for a deletion from
outside while two others delete parent and child.  In `throttle` two readers are
needed for one that leaves while the other still holds the writer back, and a
sample more than the cache takes for a write to block.

What the runs show, in the order of the hazards:

- `Close` of a queued subscriber can hang for ever.  `Interrupt()` is heard
  only by a thread that is already in `wait()`; one that has seen the event
  unset and not yet reached `wait()` misses it, and `join` never returns.
  `HangsOnlyAfterMissedInterrupt` and `CloseReturns` say that this window is
  the only way.  Within one life nothing is handled twice or out of order.
- The two sides of `Future.GetResult` and `Ready` lose no wake-up; a call may
  report a timeout although its answer is READY at that moment.
- `RequestFutureQueue.Remove` tests the builtin `id`, so futures of failed
  calls stay.  `OnlyFailedCallsLeak` says that no others do.
- A lease is lost only by running out, and a client gives it up only when the
  server has.  It does not say that a *handler* runs under a valid lease: the
  check (`server.py:101`) and the handler are two steps, and the call that
  finds a lease expired clears it and is admitted whatever its id.  Two clients
  can be granted the same id, in one tick, but only if the handler was suspended
  for longer than the term after it read the time, so that the first lease had
  run out before it was granted (`IdsAreFresh`).
- `deploy.py` damps the robot on every exit from the policy loop, but not when
  Ctrl-C comes in an earlier phase or again in `finally`.
- An observation of `No_Look.py` may mix samples, but steps back by no more than
  the one sample that is just being written: the sticks are written after
  `low_state` and partly read after it.  From one observation to the next the
  same bound holds entry by entry.
- The scan of the threads reads a virtual time and then a domain without a lock,
  and misses nobody who matters: a thread that was asleep when it was passed can
  no longer find the entity, and one that has slept since has given its pointers
  up.  `DeletedIsFreed` and `FreeReturns` hold although threads may stay awake in
  another domain for ever and the collector's timed wait may never time out.
- Deletions of parent, child and topic by different threads meet in one deleter
  per entity in the three scenes of `entity`.  Section "Findings" has the one
  they do not agree on, and "Known limits" those the scenes leave out.
- A throttled write, a wait for acknowledgements, a lingering deletion and four
  handler threads share one condition variable, and every change that makes one
  of them runnable signals it.  The writer is handed to the collector once.
  Handlers and `dds_delete` go on using it after they have unlocked it: they free
  the samples they removed with `wr->whc` (`ddsi/ddsi_proxy_endpoint.c:691`)
  and schedule the linger event (`ddsi/ddsi_endpoint.c:1338`).  `NoUseAfterFree`
  covers these too: that the thread is awake is what keeps the writer there.

*Fairness.*  Threads that can run do run (weak fairness of the listener, the
`ch_reader`, the queue threads, a call once begun, the main thread), the robot
goes on publishing.  Nothing is assumed of publishers of other samples, of the
application's `Init` and `Close`, of the channels (nothing is ever delivered by
fairness), of the motion service or of the operator.  `Lease` and `Observation`
have no fairness: their properties are safety, `TimelyHolderKeepsLease` included,
whose promptness is a guard on the clock.  In `GcQueue` the collector, requests
in the making and the shutdown get on, and a thread awake in this domain leaves
every level of its sections again and again although it enters others (strong
fairness of `LeavesOurs`, per level: operations of the API are finite); nothing
is assumed of threads in other domains and of the collector's time limit.  In
`EntityDelete` each thread's next step is weakly fair: locks are held for short
stretches and the operating system's mutexes do not starve a waiter for ever in
a finite number of calls.  In `WriterThrottle` locking `m_mutex`, for which
threads compete, is strongly fair; time limits elapse; a reader called
responsive sends acknowledgements again and again (it answers heartbeats), among
them one for everything; a silent one sends none.

*Findings.*

- `deploy_conflict`: when `CheckMode` has no result, `deploy.py` goes on without
  releasing the motion service (`ctl/deploy.py:248`), while the SDK's README
  (`unitree_sdk2_python/README.md:84`) asks for it to be off to prevent
  conflicting instructions.  `AloneOnTheLegs` says that this is the only way to
  get there.
- `entity_two_deleters`: `ddsc/dds_handles.c:520` says that only one thread may
  call `close_wait` on a handle.  `dds_handle_drop_childref_and_pin` (line 413)
  pins an implicit publisher with its last writer without marking it as closing;
  until `dds_handle_close` does, another deletion, for the participant, can pin
  it too.  Both threads then wait for the other's pin to go.

*Known limits.*  These were met while modelling, with `EntityDelete` and
`WriterThrottle` begun from other states than the runs do; the runs' scenes and
settings leave them out, so that what they check holds.

- `delete_children` waits once, without a loop, for a child that is deleted
  elsewhere (`ddsc/dds_entity.c:345`).  With two publishers and a topic going in
  parallel the departure of another child ends the wait, and the participant
  reaches `dds_handle_delete`, which asserts a reference count of 0, with a
  publisher still there.
- `delete_children` asserts that deleting a child returns OK or BAD_PARAMETER
  (line 338).  A topic that the application has deleted and a writer still
  refers to returns ALREADY_DELETED; a writer leaves its publisher before it
  drops the topic, so the second pass over a participant's children can meet one.
- `dds_entity_drop_ref` asserts that deleting the topic whose last reference it
  dropped returns OK (line 126).  The participant's deletion can take that topic
  between the two steps.
- `dds_create_writer` pins the topic and adds its reference later
  (`ddsc/dds_writer.c:469`) without looking at CLOSING again; a deletion of the
  topic in between only waits for the pin, and the topic goes under the new
  writer.
- `dds_delete` locks `m_mutex` (`ddsc/dds_entity.c:431`) before it interrupts
  blocked threads (line 456), and `dds_write` holds `m_mutex` while throttled.
  With an infinite `max_blocking_time` and a reader that stays matched and never
  acknowledges, both wait for ever.

Some hazards are in the models and no property covers them, because nothing in
the repository promises what they break, or because it does not hold.
`PROJECT.json` says so at each.

- A request that comes before the server's queues exist ends the server's ear
  (`sdk/rpc/server_stub.py:38`), a result that cannot be encoded ends the queue's
  thread (`sdk/rpc/server.py:122`): the server is deaf from then on.  `Rpc` has
  both, and its properties say what callers see, which is timeouts.
- The call that finds a lease expired is admitted whatever its id
  (`sdk/rpc/lease_server.py:63`), and the check and the handler are two steps.
- Ctrl-C outside the policy loop leaves the last command in force
  (`ctl/deploy.py:453`); a SELECT shorter than a cycle is not seen (line 477).
- A handler's exception ends its `ch_reader` thread (`sdk/core/channel.py:116`);
  a second `Init` without a queue leaves `__queueEnable` set (line 107), and
  without a queue a handler may overlap with the next `Init`'s (line 110), which a
  model with handlers in one step cannot show.

## 4. Proofs

TLC shows the properties for the instances above; TLAPS proves them for all
values of the constants.  Each `…Proofs` module has an inductive invariant,
one lemma per action or group of actions, and theorems that follow from it.
The assumptions are those named in the modules (`ReaderAssumption`,
`RpcAssumption`, `LeaseAssumption`, `DeployAssumption`, `OrderAssumption`,
`GcAssumption`, `EntityAssumption`, `ThrottleAssumption`): lengths, times and
watermarks are natural numbers, no two places in the handler's order are
the same field, the modulus of virtual times is larger than 2, each call has a
client, entities are told apart by their instance ids and topics have no
children, a writer's topic is of its publisher's participant
(`ParticipantAssumption`, which `dds_create_writer` checks), the entities that
exist at first are finitely many, with their parents and topics, and implicit
ones have children, finitely many threads write, and threads of different roles
are different.  Five theorems have a hypothesis of their own, named below:
`HolderKeeps`, `OneDeleterOfEach`, and the last three of `EntityDeleteProofs`.

- `ChannelReaderProofs`: types, `CountMatchesQueue`, `PipelineInOrder`, the three
  invariants of the run, `QuietAfterClose` and the refinement of `SampleStream`.
  `PipelineInOrder` is the core: each stage of the pipeline holds newer samples
  than the one after it, and that is preserved by every step only together with
  the types and the count.
- `RpcProofs`: calls, clients, lanes and lengths of queues are any.  `QueueInv` and
  `HandleInv` say that what is queued has been seen by the server's handler, has
  not run, and is in the order in which its client wrote it, behind everything
  that ran in its lane and behind what the lane's thread has in hand; that gives
  `FifoExecution`, although a full queue drops its oldest entries.  `FutureInv`
  says that a future is in one place at a time (the table, the response
  handler's hands, READY) and that the last two are of calls that ran.
  `AnswerCanReachCaller`, `NoLostWakeup` and `OnlyFailedCallsLeak` are conjuncts
  of the invariant.  `ImplementsCalls` is the refinement of `RpcAbstract`, step
  by step: handling a request is the abstract execution, a call that returns is the
  abstract success or failure, and other steps are stutters once the call began.
- `LeaseProofs`: `IInv` adds to the properties that the handler's time is not
  ahead of the clock (`ClockInv`), that ids are times at which they were granted
  (`GrantInv`), that the history and the cache agree (`CacheInv`), and that
  answers carry an id to those it was granted to (`AnswerInv`).  Expiry is judged
  by a time not later than the clock, which gives `LostOnlyByExpiry` although
  that time is stale.  A lease is granted when there is none or it has expired,
  so any earlier one has run out by then (`ReplacedHasExpired`); for one that has
  the new id, which is the clock, this is `IdsAreFresh`, and nothing is assumed
  about how many requests one tick sees.  A denied call carries an id that was
  granted (`AppInv`) and is no longer the server's, so that it has run out.
  `ResetOnlyWhenLost` needs `CallsInv`: every request on its way belongs to the
  present call of its client or to an earlier one, because a client sleeps at
  least a tick between two calls; so an answer that a client accepts is about
  the id it holds.  It needs `AgeInv` too: a client that calls holds an id older
  than the clock, so that a new lease does not bring back the one it was told
  is gone.  `HolderWasGranted`, that a client only holds ids granted to it, is a
  theorem and in no run.  `HolderKeeps` proves
  `TimelyHolderKeepsLease` for every term with `Term >= WaitSec(Term) + 3 * Delay`
  (the run has 5 against 2 + 3).  Its invariant dates everything: a client has one
  request on its way or in the handler, of the call it is in (`OneRequestInv`),
  nobody is later than the clock waits for (`Late`), the next renewal is asked
  for at most `Between`, a sleep and two delays, after the last (`Held`), and one
  client at a time holds a lease or is about to (`OneHolderInv`).  So no
  handler and no check finds the lease expired (`NotRunOut`), and only its
  holder's own renewals touch it (`LeaseStays`).
- `DeployProofs`: one invariant for commands, samples and the motion service.
  `PoseKnownBeforeGains` is inductive only with the fact that a button seen
  pressed has been seen in a sample.
- `ObservationProofs`: for any fields and orders, every field is of the sample
  being written if its place has been reached and of the one before otherwise;
  entries read earlier are no newer than the handler's sample, and not older
  than what the entry before them allowed.
- `GcQueueProofs`: `NoUseAfterFree` for any number of threads and entities, any
  nesting and virtual times that wrap around.  It is not inductive.  What makes
  it so is `HoldersAreWaitedFor`: once the scan for an entity is over, each
  thread with a pointer to it is recorded with the virtual time it still has;
  and that rests on `PassedAreRecorded`, the same for the threads a scan has
  passed, and on the scan being at a thread still in the section in which its
  time was read.  A thread cannot have left that section: going to sleep changes
  the time and gives the pointers up together, and after `Unlink` there is no way
  to a new one.  A time is never later than itself whatever the modulus
  (`NotLater`), so the collector drops no record of a thread that still holds
  the entity.  `QueueInv`, `OnceInv` and `FreedInv` say that an entity is in one
  place at a time: index, scan, queue, the collector's hand, or freed.
  `NothingLeftBehind` needs `EndInv` besides: the count is the number of requests
  between `gcreq_new` and `gcreq_free` (`CountInv`), the no-op of the shutdown is
  made once and last (`NoopInv`), every entity is in the index, in a scan, queued,
  in the collector's hand or freed (`AccountedInv`), and the collector leaves only
  when the domain is empty and nothing is counted (`ShutdownInv`).
- `EntityDeleteProofs`: any threads, entities and scenes.  Activations are
  numbered from the bottom of the stack, so that one keeps its number when others
  come and go above it.  `PinInv` says that the pin count of an entity is the
  number of activations that have it pinned, over all stacks; from it comes that
  past `dds_handle_close_wait` the deleting activation is alone (`AloneInv`), since
  a closing handle gets no new pins, and from that `AloneAtDelete` (what
  `dds_handle_delete` asserts of closing and pins), `OnePasses` (one activation
  of one thread gets past the wait, in every scene) and `PinnedOutlives` (nothing
  is freed that an activation has pinned or deletes).  `GoneInv` says that an
  entity out of the hash table belongs to one activation, `PendingInv` that a
  writer in the making is nobody else's.  `OneDeleterOfEach`, the property of the
  runs, has the hypothesis `Undisturbed`: the application deletes neither implicit
  publishers nor their parents.  The scenes of `entity` meet it, that of
  `entity_two_deleters` does not, and there the property fails.
  `RefcCounts` is about references.  `Linked` and `Refers` name those that an
  entity causes: it is a child until it has left its parent, and refers to its
  topic until it has dropped that, also when it is out of the hash table already.
  `RefcInv` says that the count is the entity's own reference and these, all
  along; with `ClosedInv` (what is closed has been freed, or an activation
  deletes it), `ImplicitInv` and `DeferInv` (an implicit parent, or a deleted
  topic, has somebody left or somebody who takes it along) it is inductive and
  gives `NothingIsHalfDeleted` in every scene.
  The other three do not hold in every execution: the "Known limits" of section
  3 are counterexamples.  `Orderly` excludes the steps they begin with: that the
  single wait of `delete_children` ends with the child still there (the first
  limit), that a writer refers to a topic that is closing or about to be dropped
  (the fourth), and that another deletion takes a topic about to be dropped (the
  third).  In what remains, `VisitInv` says that the children that are left are
  still ahead of the visit, so that none is left after it, `KnownInv` that what
  is referred to can be found, `DropInv` that one activation drops a topic;
  these give `HandleIsUnused` and `MemoryIsUsedBeforeFree`.  `CallersAreAnswered`
  needs `Settled` too, which excludes the second limit: the participant's
  deletion comes to a deleted topic between the two steps of a writer that leaves
  its publisher and drops the topic.  In the second pass all publishers are gone,
  so that no other writer can refer to the topic then (`LateWriters`).
- `WriterThrottleProofs`: any numbers of writes, waits, readers and samples.
  `HandleInv` and `DeleteInv` say who has the handle pinned and `m_mutex` locked,
  and that past its wait the deletion is alone, hence that nobody is throttled
  when the writer is deleted.  `FateInv` says that there is at most one request for
  the writer and that it waits for every thread that found the writer in the
  index and has not finished with it, locked or not: `NoUseAfterFree`.  `RexmitInv`,
  retransmitting holds writes back only while some matched reader is behind, is
  what `NoLostWakeup` rests on: the step that acknowledges the last sample also
  ends it.  `AckAllIs` and its like say what each way of acknowledging does to the
  least number that all readers have acknowledged; `LingersUntilAcked` follows
  from them.

Model-checked only:

- Liveness, and with it ENABLED, is out of the prover's reach: `CloseReturns`,
  `CallReturns`, `SelectEnds`, `InterruptEnds`, `DeletedIsFreed`, `FreeReturns`,
  `CallsReturn`, `BlockedCallsReturn`, `DeleteReturns`.
- Of `EntityDelete`, `UnusedWhenDeleted`, `NoUseAfterFree` and `NestedDeletions`
  are proved for the executions that `Orderly` (and `Settled`) describe; the run
  `entity` checks them in its scenes without these hypotheses.

## 5. Not modelled

Nothing in these is a matter of states: the training configuration, tensor and
rotation helpers, the dashboard, the CRC, generated message types, the terrain
generator, the small examples.

Left out although they have states, in the order in which they would be worth
adding:

1. The simulator: stepping under the lock, the command handler and the recurrent
   publishers without it (`sim/unitree_sdk2py_bridge.py:473`, 482), torques that
   persist when the controller has ended.  Whether a torn state matters is a
   question about its numbers, which a model of the order of steps cannot ask.
2. `Write` with a time limit against the match count (`sdk/core/channel.py:134`),
   and the factory's double-checked initialisation.
3. The rest of Cyclone DDS: discovery and leases of remote participants, the
   reader history cache, waitsets, the event queue, the end of a domain with
   calls still in progress, and everything that is a format, a compiler or a tool.
   Three of its parts are modelled because every program here depends on their
   concurrency; the others are vendored code whose contract the models state.

`PROJECT.json` lists every part with its reason.

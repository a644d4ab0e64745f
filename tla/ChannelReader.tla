--------------------------- MODULE ChannelReader ---------------------------
(***************************************************************************)
(* The receiving half of a channel: class Channel.__Reader of              *)
(* unitree_sdk2py/core/channel.py, driven by ChannelSubscriber.            *)
(*                                                                         *)
(* Four threads meet here: the publisher (another process), the DDS        *)
(* receive thread that runs __OnDataAvailable, the ch_reader thread that   *)
(* empties the queue, and the application thread that calls Init, Read and *)
(* Close.  Samples are numbered in the order they are written.             *)
(***************************************************************************)
EXTENDS BQueue

CONSTANTS QueueLen,   \* queueLen given to Init when a queue is asked for
          MaxSample,  \* bound: number of samples the publisher writes
          MaxInit,    \* bound: number of times the application calls Init
          MayRaise    \* TRUE if the user's handler may raise an exception

ASSUME ReaderAssumption ==
    /\ QueueLen \in Nat \ {0}
    /\ MaxSample \in Nat
    /\ MaxInit \in Nat
    /\ MayRaise \in BOOLEAN

VARIABLES
    sent,         \* newest sample written by the publisher (0: none)
    cache,        \* sample stored in the DDS reader, KEEP_LAST 1 (0: none)
    due,          \* DDS has an on_data_available call to make
    hand,         \* sample __OnDataAvailable has taken and not passed on yet
    reader,       \* the attribute __reader, and how it was last initialised
    queueEnable,  \* __queueEnable
    queue,        \* __queue
    event,        \* __threadEvent
    worker,       \* program counter of the ch_reader thread
    item,         \* sample Get returned to the ch_reader thread
    closer,       \* where the application thread is inside Close
    inits,        \* number of Init calls so far
    last,         \* newest sample the handler was called with
    calls,        \* number of handler calls so far
    missed        \* history: Interrupt fell between is_set() and wait()

vars == <<sent, cache, due, hand, reader, queueEnable, queue, event, worker,
          item, closer, inits, last, calls, missed>>

dds  == <<sent, cache, due>>

Samples == 1..MaxSample

Open == {"poll", "direct", "queued"}

Stopped == {"none", "done", "dead"}

FlagsOK ==
    /\ due \in BOOLEAN
    /\ queueEnable \in BOOLEAN
    /\ event \in BOOLEAN
    /\ missed \in BOOLEAN

DataOK ==
    /\ sent \in 0..MaxSample
    /\ cache \in 0..MaxSample
    /\ hand \in 0..MaxSample
    /\ reader \in Open \union {"none", "deleted"}
    /\ queue \in QueueType(Samples) /\ queue.curLen \in 0..QueueLen
    /\ worker \in Stopped \union {"check", "get", "wait", "woken", "handle"}
    /\ item \in 0..MaxSample
    /\ closer \in {"idle", "set", "interrupt", "clear", "join"}
    /\ inits \in 0..MaxInit
    /\ last \in 0..MaxSample
    /\ calls \in Nat

TypeOK == FlagsOK /\ DataOK

Init ==
    /\ sent = 0 /\ cache = 0 /\ due = FALSE /\ hand = 0
    /\ reader = "none" /\ queueEnable = FALSE /\ queue = EmptyQueue
    /\ event = FALSE /\ worker = "none" /\ item = 0
    /\ closer = "idle" /\ inits = 0 /\ last = 0 /\ calls = 0
    /\ missed = FALSE

\* ChannelSubscriber.Init does something only when it is not inited.
CanInit ==
    /\ closer = "idle"
    /\ reader \notin Open
    /\ inits < MaxInit

-----------------------------------------------------------------------------
(* Faulty variants of the actions below, for showing that the properties     *)
(* can fail.  No specification uses them.                                    *)

\* the thread of a new Init is given the old, set event.
InitQueuedOldEvent ==
    /\ CanInit
    /\ inits' = inits + 1
    /\ reader' = "queued"
    /\ queueEnable' = TRUE
    /\ queue' = EmptyQueue
    /\ worker' = "check"
    /\ missed' = FALSE
    /\ UNCHANGED <<dds, hand, item, event, closer, last, calls>>

\* Close interrupts the queue without having set the event.
CloseWithoutSet ==
    /\ closer = "set"
    /\ closer' = "interrupt"
    /\ UNCHANGED <<dds, hand, reader, queueEnable, queue, event, worker, item,
                   inits, last, calls, missed>>

\* Close sets the event and interrupts nobody.
CloseWithoutInterrupt ==
    /\ closer = "interrupt"
    /\ missed' = (worker = "get")
    /\ closer' = "clear"
    /\ UNCHANGED <<dds, hand, reader, queueEnable, queue, event, worker, item,
                   inits, last, calls>>

\* Close returns without joining the thread.
CloseWithoutJoin ==
    /\ closer = "join"
    /\ closer' = "idle"
    /\ UNCHANGED <<dds, hand, reader, queueEnable, queue, event, worker, item,
                   inits, last, calls, missed>>

-----------------------------------------------------------------------------
(* The publisher and DDS.                                                  *)

\* A sample reaches the open reader, replacing one not taken yet, or is lost.
Publish ==
    /\ sent < MaxSample
    /\ sent' = sent + 1
    /\ \/ /\ reader \in Open
          /\ cache' = sent + 1
          /\ due' = (reader # "poll")
       \/ UNCHANGED <<cache, due>>
    /\ UNCHANGED <<hand, reader, queueEnable, queue, event, worker, item,
                   closer, inits, last, calls, missed>>

\* take(1): the sample leaves the DDS reader.  If Read was quicker there is
\* none, samples[0] raises and the call is over.
ListenerTake ==
    /\ due
    /\ hand = 0
    /\ hand' = cache
    /\ cache' = 0
    /\ due' = FALSE
    /\ UNCHANGED <<sent, reader, queueEnable, queue, event, worker, item,
                   closer, inits, last, calls, missed>>

\* Notification of the one thread that may be waiting in Get.
Notified(pc) == IF pc = "wait" THEN "woken" ELSE pc

\* The rest of __OnDataAvailable: Put without replace, or the handler itself.
ListenerDeliver ==
    /\ hand # 0
    /\ hand' = 0
    /\ \/ /\ queueEnable
          /\ queue' = Put(queue, hand, QueueLen, FALSE)
          /\ worker' = IF PutNotifies(queue, QueueLen, FALSE)
                       THEN Notified(worker) ELSE worker
          /\ UNCHANGED <<last, calls>>
       \/ /\ ~queueEnable
          /\ last' = hand /\ calls' = calls + 1
          /\ UNCHANGED <<queue, worker>>
    /\ UNCHANGED <<sent, cache, due, reader, queueEnable, event, item,
                   closer, inits, missed>>

-----------------------------------------------------------------------------
(* The ch_reader thread: while not is_set(): Get(); handler(sample).       *)

WorkerCheck ==
    /\ worker = "check"
    /\ worker' = IF event THEN "done" ELSE "get"
    /\ UNCHANGED <<dds, hand, reader, queueEnable, queue, event, item,
                   closer, inits, last, calls, missed>>

\* Get returns the oldest sample.
TakeItem ==
    /\ queue.items # <<>>
    /\ item' = FirstOf(queue)
    /\ queue' = AfterGet(queue)
    /\ worker' = "handle"

\* Get, entered: take, or release the lock and wait, in one critical section.
WorkerGet ==
    /\ worker = "get"
    /\ \/ TakeItem
       \/ /\ queue.items = <<>>
          /\ worker' = "wait"
          /\ UNCHANGED <<queue, item>>
    /\ UNCHANGED <<dds, hand, reader, queueEnable, event, closer, inits,
                   last, calls, missed>>

\* Get, notified and holding the lock again: take, or return None.
WorkerWoken ==
    /\ worker = "woken"
    /\ \/ TakeItem
       \/ /\ queue.items = <<>>
          /\ worker' = "check"
          /\ UNCHANGED <<queue, item>>
    /\ UNCHANGED <<dds, hand, reader, queueEnable, event, closer, inits,
                   last, calls, missed>>

\* The handler runs; an exception it raises ends the thread.
WorkerHandle ==
    /\ worker = "handle"
    /\ last' = item
    /\ calls' = calls + 1
    /\ worker' \in {"check"} \union (IF MayRaise THEN {"dead"} ELSE {})
    /\ UNCHANGED <<dds, hand, reader, queueEnable, queue, event, item,
                   closer, inits, missed>>

-----------------------------------------------------------------------------
(* The application thread.                                                 *)

\* Init(handler, queueLen > 0): queue, event and thread are new objects.
InitQueued ==
    /\ CanInit
    /\ inits' = inits + 1
    /\ reader' = "queued"
    /\ queueEnable' = TRUE
    /\ queue' = EmptyQueue
    /\ event' = FALSE
    /\ worker' = "check"
    /\ missed' = FALSE
    /\ UNCHANGED <<dds, hand, item, closer, last, calls>>

\* Init(handler) and Init(): only the DDS reader is new; __queueEnable and
\* the queue keep what an earlier Init left in them.
InitUnqueued ==
    /\ CanInit
    /\ inits' = inits + 1
    /\ reader' \in {"direct", "poll"}
    /\ UNCHANGED <<dds, hand, queueEnable, queue, event, worker, item,
                   closer, last, calls, missed>>

\* Read takes the stored sample itself, in any mode.
ReadSample ==
    /\ closer = "idle"
    /\ reader \in Open
    /\ cache # 0
    /\ cache' = 0
    /\ UNCHANGED <<sent, due, hand, reader, queueEnable, queue, event, worker,
                   item, closer, inits, last, calls, missed>>

\* Close, first half: del self.__reader.  No listener call begins afterwards,
\* one in progress may still finish.
Close ==
    /\ closer = "idle"
    /\ reader \in Open
    /\ reader' = "deleted"
    /\ cache' = 0
    /\ due' = FALSE
    /\ closer' = IF queueEnable THEN "set" ELSE "idle"
    /\ UNCHANGED <<sent, hand, queueEnable, queue, event, worker, item,
                   inits, last, calls, missed>>

CloseSet ==
    /\ closer = "set"
    /\ event' = TRUE
    /\ closer' = "interrupt"
    /\ UNCHANGED <<dds, hand, reader, queueEnable, queue, worker, item,
                   inits, last, calls, missed>>

\* Interrupt() wakes a waiting thread; one that has seen the event unset and
\* has not reached wait() yet is not waiting.
CloseInterrupt ==
    /\ closer = "interrupt"
    /\ worker' = Notified(worker)
    /\ missed' = (worker = "get")
    /\ closer' = "clear"
    /\ UNCHANGED <<dds, hand, reader, queueEnable, queue, event, item,
                   inits, last, calls>>

CloseClear ==
    /\ closer = "clear"
    /\ queue' = Cleared(queue)
    /\ closer' = "join"
    /\ UNCHANGED <<dds, hand, reader, queueEnable, event, worker, item,
                   inits, last, calls, missed>>

CloseJoin ==
    /\ closer = "join"
    /\ worker \in Stopped
    /\ closer' = "idle"
    /\ UNCHANGED <<dds, hand, reader, queueEnable, queue, event, worker, item,
                   inits, last, calls, missed>>

-----------------------------------------------------------------------------
Listener == ListenerTake \/ ListenerDeliver
Worker   == WorkerCheck \/ WorkerGet \/ WorkerWoken \/ WorkerHandle
Closing  == CloseSet \/ CloseInterrupt \/ CloseClear \/ CloseJoin

Next == \/ Publish \/ Listener \/ Worker \/ Closing
        \/ InitQueued \/ InitUnqueued \/ ReadSample \/ Close

Spec == Init /\ [][Next]_vars

\* Threads that can run do run; nobody is obliged to publish, Init or Close.
FairSpec == Spec /\ WF_vars(Listener) /\ WF_vars(Worker) /\ WF_vars(Closing)

-----------------------------------------------------------------------------
(* Properties.                                                             *)

\* The length BQueue counts is the length of its deque, in every interleaving
\* of Put, Get and Clear: Put trusts the count alone (bqueue.py:15).
CountMatchesQueue == queue.curLen = Len(queue.items)

\* Everything in flight is newer than what the handler has seen, and each
\* stage holds newer samples than the stage after it: nothing is handled out
\* of order or twice, across Close and Init too.
PipelineInOrder ==
    /\ last <= sent /\ item <= sent /\ hand <= sent /\ cache <= sent
    /\ worker = "handle" => item > last
    /\ \A i \in DOMAIN queue.items :
           /\ queue.items[i] > last /\ queue.items[i] > item
           /\ queue.items[i] <= sent
    /\ \A i, j \in DOMAIN queue.items :
           i < j => queue.items[i] < queue.items[j]
    /\ hand # 0 => /\ hand > last /\ hand > item
                   /\ \A i \in DOMAIN queue.items : hand > queue.items[i]
    /\ cache # 0 => /\ cache > last /\ cache > item /\ cache > hand
                    /\ \A i \in DOMAIN queue.items : cache > queue.items[i]

\* The ch_reader thread never sleeps on a queue that has a sample: no wake-up
\* of Put is lost (bqueue.py:25, 33).
NoLostWakeup == worker = "wait" => queue.items = <<>>

\* Close can hang in join only if its Interrupt fell in the window between
\* the thread's is_set() and its wait() (channel.py:80-82, 113-114).
HangsOnlyAfterMissedInterrupt ==
    closer = "join" /\ worker = "wait" => missed

\* A subscriber initialised with a queue has a thread that empties it, unless
\* its own handler raised (channel.py:112-116 has no try).
QueuedReaderIsServed ==
    reader = "queued" => worker \notin {"none", "done"}

\* Once Close of a queued subscriber has returned, its handler is not called
\* any more: join has waited for the last call (channel.py:82).
QuietAfterClose ==
    [][reader = "deleted" /\ closer = "idle" /\ queueEnable
         => calls' = calls]_vars

\* Close returns, unless its Interrupt was missed.
CloseReturns == (closer # "idle") ~> (closer = "idle" \/ missed)

\* The subscriber implements the stream of samples the layers above rely on.
Stream == INSTANCE SampleStream
StreamSpec == Stream!Spec
=============================================================================

------------------------ MODULE ChannelReaderProofs ------------------------
(***************************************************************************)
(* Proofs about ChannelReader, for every queue length and any number of    *)
(* samples and of Init calls.                                              *)
(***************************************************************************)
EXTENDS ChannelReader, TLAPS

\* A subscriber that never had a queue has neither samples queued nor a thread.
WorkerInv ==
    ~queueEnable => worker = "none" /\ queue.items = <<>>

\* Where Close and the thread are with respect to each other.
ShutdownInv ==
    /\ closer # "idle" => reader = "deleted"
    /\ closer = "idle" /\ reader \notin Open => worker \in Stopped
    /\ closer \in {"interrupt", "clear", "join"} => event
    /\ closer \in {"clear", "join"} /\ worker \in {"get", "wait"} => missed
    /\ reader = "queued" => ~event

\* The inductive invariant.
IInv ==
    /\ DataOK
    /\ CountMatchesQueue
    /\ WorkerInv
    /\ ShutdownInv
    /\ NoLostWakeup
    /\ QueuedReaderIsServed
    /\ PipelineInOrder

-----------------------------------------------------------------------------
(* What the queue operators do to a queue whose count is right.            *)

\* Put on a queue with room appends the sample and notifies.
LEMMA PutWithRoom ==
    ASSUME NEW q, NEW x, NEW n, ~Full(q, n)
    PROVE  Put(q, x, n, FALSE) = AppendTo(q, x) /\ PutNotifies(q, n, FALSE)
  BY DEF Put, PutNotifies, Full

\* Appending counts the sample and keeps the order of the others.
LEMMA AppendLast ==
    ASSUME NEW S, NEW q \in QueueType(S), NEW x \in S,
           q.curLen = Len(q.items)
    PROVE  /\ AppendTo(q, x) \in QueueType(S)
           /\ AppendTo(q, x).curLen = q.curLen + 1
           /\ Len(AppendTo(q, x).items) = Len(q.items) + 1
           /\ \A i \in 1..Len(q.items) : AppendTo(q, x).items[i] = q.items[i]
           /\ AppendTo(q, x).items[Len(q.items) + 1] = x
  BY DEF QueueType, AppendTo

\* Put on a full queue changes nothing and notifies nobody.
LEMMA PutWhenFull ==
    ASSUME NEW q, NEW x, NEW n, Full(q, n)
    PROVE  Put(q, x, n, FALSE) = q /\ ~PutNotifies(q, n, FALSE)
  BY DEF Put, PutNotifies, Full

\* Get removes the first sample and keeps the order of the others.
LEMMA GetFirst ==
    ASSUME NEW S, NEW q \in QueueType(S),
           q.curLen = Len(q.items), q.items # <<>>
    PROVE  /\ FirstOf(q) \in S
           /\ FirstOf(q) = q.items[1]
           /\ Len(q.items) >= 1
           /\ AfterGet(q) \in QueueType(S)
           /\ AfterGet(q).curLen = q.curLen - 1
           /\ Len(AfterGet(q).items) = Len(q.items) - 1
           /\ \A i \in 1..Len(AfterGet(q).items) :
                  AfterGet(q).items[i] = q.items[i + 1]
  BY DEF QueueType, FirstOf, AfterGet, DropOldest

\* Clear leaves an empty queue, and none of its fields stale.
LEMMA ClearEmpties ==
    ASSUME NEW S, NEW q \in QueueType(S), q.curLen = Len(q.items)
    PROVE  Cleared(q).items = <<>> /\ Cleared(q).curLen = 0
           /\ Cleared(q) \in QueueType(S)
  BY DEF QueueType, Cleared, EmptyQueue

-----------------------------------------------------------------------------
\* The invariant holds at first.
LEMMA InitInv == Init => IInv
  <1> SUFFICES ASSUME Init PROVE IInv
    OBVIOUS
  <1> USE ReaderAssumption DEF Init, EmptyQueue
  <1>1. DataOK
    BY DEF DataOK, QueueType, Open, Stopped, Samples
  <1>2. CountMatchesQueue /\ NoLostWakeup /\ PipelineInOrder
    BY DEF CountMatchesQueue, NoLostWakeup, PipelineInOrder
  <1>3. WorkerInv /\ ShutdownInv /\ QueuedReaderIsServed
    BY DEF WorkerInv, ShutdownInv, QueuedReaderIsServed, Open, Stopped
  <1> QED
    BY <1>1, <1>2, <1>3 DEF IInv


\* What the type invariant says of the numbers PipelineInOrder compares.
LEMMA Numbers ==
    ASSUME DataOK, CountMatchesQueue
    PROVE  /\ queue \in QueueType(Samples)
           /\ queue.curLen = Len(queue.items)
           /\ Len(queue.items) \in Nat
           /\ DOMAIN queue.items = 1..Len(queue.items)
           /\ \A i \in 1..Len(queue.items) : queue.items[i] \in Nat
           /\ sent \in Nat /\ cache \in Nat /\ hand \in Nat
           /\ item \in Nat /\ last \in Nat
  <1>1. queue \in QueueType(Samples)
    BY DEF DataOK
  <1>2. queue.items \in Seq(Samples)
    BY <1>1 DEF QueueType
  <1>3. \A i \in 1..Len(queue.items) : queue.items[i] \in Samples
    BY <1>2
  <1>4. Samples \subseteq Nat
    BY ReaderAssumption DEF Samples
  <1>5. DOMAIN queue.items = 1..Len(queue.items) /\ Len(queue.items) \in Nat
    BY <1>2
  <1>6. /\ sent \in Nat /\ cache \in Nat /\ hand \in Nat
        /\ item \in Nat /\ last \in Nat
    BY ReaderAssumption DEF DataOK
  <1> QED
    BY <1>1, <1>3, <1>4, <1>5, <1>6 DEF CountMatchesQueue

\* Get moves the oldest queued sample on: the pipeline stays in order.
LEMMA TakeKeepsOrder ==
    ASSUME NEW n \in Nat, n >= 1, DOMAIN queue.items = 1..n,
           PipelineInOrder,
           DOMAIN queue'.items = 1..(n - 1),
           \A i \in 1..(n - 1) : queue'.items[i] = queue.items[i + 1],
           item' = queue.items[1], sent \in Nat, last \in Nat, item' \in Nat,
           UNCHANGED <<sent, last, hand, cache>>
    PROVE  PipelineInOrder'
  <1>1. \A i \in 1..(n - 1) : i + 1 \in 1..n /\ 1 \in 1..n /\ 1 < i + 1
    OBVIOUS
  <1>2. ASSUME NEW i \in DOMAIN queue'.items
        PROVE  /\ queue'.items[i] > last' /\ queue'.items[i] > item'
               /\ queue'.items[i] <= sent'
               /\ hand # 0 => hand > queue'.items[i]
               /\ cache # 0 => cache > queue'.items[i]
    <2>1. i + 1 \in 1..n /\ 1 \in 1..n /\ 1 < i + 1
      BY <1>1
    <2>2. queue.items[1] < queue.items[i + 1]
      BY <2>1 DEF PipelineInOrder
    <2>3. /\ queue.items[i + 1] > last /\ queue.items[i + 1] <= sent
          /\ hand # 0 => hand > queue.items[i + 1]
          /\ cache # 0 => cache > queue.items[i + 1]
      BY <2>1 DEF PipelineInOrder
    <2> QED
      BY <2>2, <2>3
  <1>3. ASSUME NEW i \in DOMAIN queue'.items, NEW j \in DOMAIN queue'.items,
               i < j
        PROVE  queue'.items[i] < queue'.items[j]
    <2>1. i + 1 \in 1..n /\ j + 1 \in 1..n /\ i + 1 < j + 1
      BY <1>1, <1>3
    <2>2. queue.items[i + 1] < queue.items[j + 1]
      BY <2>1 DEF PipelineInOrder
    <2>3. /\ queue'.items[i] = queue.items[i + 1]
          /\ queue'.items[j] = queue.items[j + 1]
      OBVIOUS
    <2> QED
      BY ONLY <2>2, <2>3
  <1>4. /\ item' > last /\ item' <= sent
        /\ hand # 0 => hand > item'
        /\ cache # 0 => cache > item'
    <2>1. 1 \in DOMAIN queue.items
      OBVIOUS
    <2> QED
      BY <2>1 DEF PipelineInOrder
  <1>5. /\ last <= sent /\ hand <= sent /\ cache <= sent
        /\ hand # 0 => hand > last
        /\ cache # 0 => cache > last /\ cache > hand
    BY DEF PipelineInOrder
  <1> QED
    BY <1>2, <1>3, <1>4, <1>5 DEF PipelineInOrder

\* Put moves the listener's sample behind the queued ones: so does it.
LEMMA AppendKeepsOrder ==
    ASSUME NEW n \in Nat, DOMAIN queue.items = 1..n,
           PipelineInOrder,
           DOMAIN queue'.items = 1..(n + 1),
           \A i \in 1..n : queue'.items[i] = queue.items[i],
           queue'.items[n + 1] = hand, hand # 0, hand' = 0, 
           sent \in Nat, cache \in Nat, hand \in Nat,
           worker' = "handle" => worker = "handle",
           UNCHANGED <<sent, last, item, cache>>
    PROVE  PipelineInOrder'
  <1>1. \A i \in 1..(n + 1) : i \in 1..n \/ i = n + 1
    OBVIOUS
  <1>2. \A i \in DOMAIN queue'.items :
            /\ queue'.items[i] > last' /\ queue'.items[i] > item'
            /\ queue'.items[i] <= sent'
    BY <1>1 DEF PipelineInOrder
  <1>3. \A i, j \in DOMAIN queue'.items :
            i < j => queue'.items[i] < queue'.items[j]
    BY <1>1 DEF PipelineInOrder
  <1>5. cache' # 0 => /\ cache' > last' /\ cache' > item' /\ cache' > hand'
                    /\ \A i \in DOMAIN queue'.items : cache' > queue'.items[i]
    BY <1>1 DEF PipelineInOrder
  <1> QED
    BY <1>2, <1>3, <1>5 DEF PipelineInOrder

\* A sample that arrives is newer than all that are in flight.
LEMMA StoreKeepsOrder ==
    ASSUME PipelineInOrder, 
           sent \in Nat, last \in Nat, hand \in Nat, item \in Nat,
           cache' = sent + 1, sent' = sent + 1,
           \A i \in DOMAIN queue.items : queue.items[i] \in Nat,
           UNCHANGED <<last, item, hand, queue, worker>>
    PROVE  PipelineInOrder'
  BY DEF PipelineInOrder

\* The handler's sample was the newest one it had seen.
LEMMA HandleKeepsOrder ==
    ASSUME PipelineInOrder, worker = "handle", worker' # "handle",
           last' = item, UNCHANGED <<sent, item, cache, hand, queue>>
    PROVE  PipelineInOrder'
  BY DEF PipelineInOrder

\* Taking a sample from the queue, which both steps of Get may do.
LEMMA TakeInv ==
    ASSUME IInv, TakeItem, worker \in {"get", "woken"},
           UNCHANGED <<dds, hand, reader, queueEnable, event, closer, inits,
                       last, calls, missed>>
    PROVE  IInv'
  <1> USE ReaderAssumption DEF dds
  <1> DEFINE n == Len(queue.items)
  <1>1. queue \in QueueType(Samples) /\ queue.curLen = n /\ queue.items # <<>>
    BY Numbers DEF IInv, TakeItem
  <1>2. /\ item' = queue.items[1]
        /\ item' \in Samples
        /\ n >= 1
        /\ queue' \in QueueType(Samples)
        /\ queue'.curLen = n - 1
        /\ Len(queue'.items) = n - 1
        /\ \A i \in 1..(n - 1) : queue'.items[i] = queue.items[i + 1]
    BY <1>1, GetFirst DEF TakeItem
  <1>3. DOMAIN queue'.items = 1..(n - 1)
    BY <1>2 DEF IInv, QueueType
  <1>4. DataOK'
    BY <1>2, Numbers DEF IInv, TakeItem, DataOK, Samples
  <1>5. PipelineInOrder'
    <2>1. DOMAIN queue.items = 1..n /\ n \in Nat
          /\ sent \in Nat /\ last \in Nat /\ item' \in Nat
      BY <1>2, Numbers DEF IInv, Samples
    <2> QED
      BY <1>2, <1>3, <2>1, TakeKeepsOrder DEF IInv
  <1> QED
    BY <1>2, <1>4, <1>5 DEF IInv, TakeItem, CountMatchesQueue, WorkerInv,
       ShutdownInv, NoLostWakeup, QueuedReaderIsServed, Stopped

\* Every action preserves the inductive invariant.
LEMMA NextInv == IInv /\ [Next]_vars => IInv'
  <1> SUFFICES ASSUME IInv, [Next]_vars PROVE IInv'
    OBVIOUS
  <1> USE ReaderAssumption DEF dds
  <1> DEFINE n == Len(queue.items)
  <1> DEFINE Rest == /\ CountMatchesQueue /\ WorkerInv /\ ShutdownInv
                     /\ NoLostWakeup /\ QueuedReaderIsServed
  <1>1. CASE Publish
    <2>1. DataOK'
      BY <1>1 DEF IInv, Publish, DataOK
    <2>2. PipelineInOrder'
      <3>1. CASE UNCHANGED cache
        BY <1>1, <3>1, Numbers DEF IInv, Publish, PipelineInOrder
      <3>2. CASE cache' = sent + 1
        BY <1>1, <3>2, Numbers, StoreKeepsOrder DEF IInv, Publish
      <3> QED
        BY <1>1, <3>1, <3>2 DEF Publish
    <2>3. Rest'
      BY <1>1 DEF IInv, Publish, CountMatchesQueue, WorkerInv, ShutdownInv,
         NoLostWakeup, QueuedReaderIsServed
    <2> QED
      BY <2>1, <2>2, <2>3 DEF IInv
  <1>2. CASE ListenerTake
    <2>1. DataOK'
      BY <1>2 DEF IInv, ListenerTake, DataOK
    <2>2. PipelineInOrder'
      BY <1>2, Numbers DEF IInv, ListenerTake, PipelineInOrder
    <2>3. Rest'
      BY <1>2
      DEF IInv, ListenerTake, CountMatchesQueue, WorkerInv, ShutdownInv,
         NoLostWakeup, QueuedReaderIsServed
    <2> QED
      BY <2>1, <2>2, <2>3 DEF IInv
  <1>3. CASE ListenerDeliver
    <2>1. CASE queueEnable /\ queue.curLen < QueueLen
      <3>1. hand \in Samples /\ QueueLen \in Nat
        BY <1>3 DEF IInv, ListenerDeliver, DataOK, Samples
      <3>2. /\ queue \in QueueType(Samples)
            /\ queue.curLen = n
            /\ n \in Nat
        BY Numbers DEF IInv
      <3>3. /\ queue' = AppendTo(queue, hand)
            /\ worker' = Notified(worker)
            /\ UNCHANGED <<last, calls>>
        <4>1. ~Full(queue, QueueLen)
          BY <2>1, <3>1, <3>2 DEF Full
        <4>2. /\ Put(queue, hand, QueueLen, FALSE) = AppendTo(queue, hand)
              /\ PutNotifies(queue, QueueLen, FALSE)
          BY <4>1, PutWithRoom
        <4> QED
          BY <1>3, <2>1, <4>2 DEF ListenerDeliver
      <3>4. LET q == AppendTo(queue, hand)
            IN  /\ q \in QueueType(Samples)
                /\ q.curLen = queue.curLen + 1
                /\ Len(q.items) = n + 1
                /\ \A i \in 1..n : q.items[i] = queue.items[i]
                /\ q.items[n + 1] = hand
        BY <3>1, <3>2, AppendLast
      <3>5. /\ queue' \in QueueType(Samples)
            /\ queue'.curLen = n + 1
            /\ Len(queue'.items) = n + 1
            /\ DOMAIN queue'.items = 1..(n + 1)
            /\ \A i \in 1..n : queue'.items[i] = queue.items[i]
            /\ queue'.items[n + 1] = hand
        BY <3>2, <3>3, <3>4 DEF QueueType
      <3>6. DataOK'
        <4>1. queue'.curLen \in 0..QueueLen
          BY <2>1, <3>1, <3>2, <3>5
        <4>2. /\ hand' = 0
              /\ UNCHANGED <<sent, cache, reader, item, closer, inits, last,
                             calls>>
          BY <1>3, <3>3 DEF ListenerDeliver
        <4> QED
          BY <3>3, <3>5, <4>1, <4>2 DEF IInv, DataOK, Notified
      <3>7. PipelineInOrder'
        <4>1. /\ DOMAIN queue.items = 1..n
              /\ sent \in Nat /\ cache \in Nat /\ hand \in Nat
          BY Numbers DEF IInv
        <4>2. /\ hand # 0 /\ hand' = 0 /\ UNCHANGED <<sent, last, item, cache>>
              /\ worker' = "handle" => worker = "handle"
          BY <1>3, <3>3 DEF ListenerDeliver, Notified
        <4> QED
          BY <3>2, <3>5, <4>1, <4>2, AppendKeepsOrder DEF IInv
      <3>8. Rest'
        BY <1>3, <2>1, <3>3, <3>5
        DEF IInv, ListenerDeliver, Notified, Stopped, CountMatchesQueue,
            WorkerInv, ShutdownInv, NoLostWakeup, QueuedReaderIsServed
      <3> QED
        BY <3>6, <3>7, <3>8 DEF IInv
    <2>2. CASE queueEnable /\ ~(queue.curLen < QueueLen)
      <3>1. Full(queue, QueueLen)
        BY <2>2 DEF IInv, DataOK, Full
      <3>2. queue' = queue /\ worker' = worker /\ last' = last
            /\ calls' = calls
        BY <1>3, <2>2, <3>1, PutWhenFull DEF IInv, ListenerDeliver
      <3>3. DataOK'
        BY <1>3, <3>2 DEF IInv, ListenerDeliver, DataOK
      <3>4. PipelineInOrder'
        BY <1>3, <3>2, Numbers DEF IInv, ListenerDeliver, PipelineInOrder
      <3>5. Rest'
        BY <1>3, <3>2 DEF IInv, ListenerDeliver, CountMatchesQueue, WorkerInv,
           ShutdownInv, NoLostWakeup, QueuedReaderIsServed
      <3> QED
        BY <3>3, <3>4, <3>5 DEF IInv
    <2>3. CASE ~queueEnable
      <3>1. queue.items = <<>> /\ worker = "none"
        BY <2>3 DEF IInv, WorkerInv
      <3>2. UNCHANGED <<queue, worker>> /\ last' = hand
            /\ calls' = calls + 1
        BY <1>3, <2>3 DEF IInv, ListenerDeliver
      <3>3. DataOK'
        BY <1>3, <3>2 DEF IInv, ListenerDeliver, DataOK
      <3>4. PipelineInOrder'
        BY <1>3, <3>1, <3>2, Numbers DEF IInv, ListenerDeliver, PipelineInOrder
      <3>5. Rest'
        BY <1>3, <3>2 DEF IInv, ListenerDeliver, CountMatchesQueue, WorkerInv,
           ShutdownInv, NoLostWakeup, QueuedReaderIsServed
      <3> QED
        BY <3>3, <3>4, <3>5 DEF IInv
    <2> QED
      BY <2>1, <2>2, <2>3 DEF IInv
  <1>4. CASE WorkerCheck
    <2>1. DataOK'
      BY <1>4 DEF IInv, WorkerCheck, DataOK, Stopped
    <2>2. PipelineInOrder'
      BY <1>4 DEF IInv, WorkerCheck, PipelineInOrder
    <2>3. Rest'
      BY <1>4 DEF IInv, WorkerCheck, CountMatchesQueue, WorkerInv, ShutdownInv,
         NoLostWakeup, QueuedReaderIsServed, Stopped
    <2> QED
      BY <2>1, <2>2, <2>3 DEF IInv
  <1>5. CASE WorkerGet
    <2>1. CASE TakeItem
      BY <2>1, <1>5, TakeInv DEF WorkerGet
    <2>2. CASE queue.items = <<>> /\ worker' = "wait"
               /\ UNCHANGED <<queue, item>>
      <3>1. DataOK'
        BY <1>5, <2>2 DEF IInv, WorkerGet, DataOK
      <3>2. PipelineInOrder'
        BY <1>5, <2>2 DEF IInv, WorkerGet, PipelineInOrder
      <3>3. Rest'
        BY <1>5, <2>2 DEF IInv, WorkerGet, CountMatchesQueue, WorkerInv,
           ShutdownInv, NoLostWakeup, QueuedReaderIsServed, Stopped
      <3> QED
        BY <3>1, <3>2, <3>3 DEF IInv
    <2> QED
      BY <1>5, <2>1, <2>2 DEF WorkerGet
  <1>6. CASE WorkerWoken
    <2>1. CASE TakeItem
      BY <2>1, <1>6, TakeInv DEF WorkerWoken
    <2>2. CASE queue.items = <<>> /\ worker' = "check"
               /\ UNCHANGED <<queue, item>>
      <3>1. DataOK'
        BY <1>6, <2>2 DEF IInv, WorkerWoken, DataOK
      <3>2. PipelineInOrder'
        BY <1>6, <2>2 DEF IInv, WorkerWoken, PipelineInOrder
      <3>3. Rest'
        BY <1>6, <2>2 DEF IInv, WorkerWoken, CountMatchesQueue, WorkerInv,
           ShutdownInv, NoLostWakeup, QueuedReaderIsServed, Stopped
      <3> QED
        BY <3>1, <3>2, <3>3 DEF IInv
    <2> QED
      BY <1>6, <2>1, <2>2 DEF IInv, WorkerWoken
  <1>7. CASE WorkerHandle
    <2>1. DataOK'
      BY <1>7 DEF IInv, WorkerHandle, DataOK, Stopped
    <2>2. PipelineInOrder'
      BY <1>7, Numbers, HandleKeepsOrder DEF IInv, WorkerHandle
    <2>3. Rest'
      BY <1>7
      DEF IInv, WorkerHandle, CountMatchesQueue, WorkerInv, ShutdownInv,
         NoLostWakeup, QueuedReaderIsServed, Stopped
    <2> QED
      BY <2>1, <2>2, <2>3 DEF IInv
  <1>8. CASE CloseSet
    BY <1>8
    DEF IInv, CloseSet, DataOK, CountMatchesQueue, WorkerInv, ShutdownInv,
       NoLostWakeup, QueuedReaderIsServed, PipelineInOrder
  <1>9. CASE CloseInterrupt
    <2>1. DataOK'
      BY <1>9 DEF IInv, CloseInterrupt, Notified, DataOK
    <2>2. PipelineInOrder'
      BY <1>9 DEF IInv, CloseInterrupt, Notified, PipelineInOrder
    <2>3. Rest'
      BY <1>9 DEF IInv, CloseInterrupt, Notified, CountMatchesQueue, WorkerInv,
         ShutdownInv, NoLostWakeup, QueuedReaderIsServed, Stopped
    <2> QED
      BY <2>1, <2>2, <2>3 DEF IInv
  <1>10. CASE CloseClear
    <2>1. /\ queue' \in QueueType(Samples)
          /\ queue'.items = <<>>
          /\ queue'.curLen = 0
      BY <1>10, Numbers, ClearEmpties DEF IInv, CloseClear
    <2>2. DataOK'
      BY <1>10, <2>1 DEF IInv, CloseClear, DataOK
    <2>3. PipelineInOrder'
      BY <1>10, <2>1 DEF IInv, CloseClear, PipelineInOrder
    <2>4. Rest'
      BY <1>10, <2>1 DEF IInv, CloseClear, CountMatchesQueue, WorkerInv,
         ShutdownInv, NoLostWakeup, QueuedReaderIsServed
    <2> QED
      BY <2>2, <2>3, <2>4 DEF IInv
  <1>11. CASE CloseJoin
    BY <1>11 DEF IInv, CloseJoin, DataOK, CountMatchesQueue, WorkerInv,
       ShutdownInv, NoLostWakeup, QueuedReaderIsServed, PipelineInOrder
  <1>12. CASE InitQueued
    <2>1. /\ queue' \in QueueType(Samples)
          /\ queue'.items = <<>>
          /\ queue'.curLen = 0
      BY <1>12 DEF InitQueued, EmptyQueue, QueueType
    <2>2. worker \in Stopped
      BY <1>12 DEF IInv, InitQueued, CanInit, ShutdownInv
    <2>3. DataOK'
      BY <1>12, <2>1 DEF IInv, InitQueued, CanInit, DataOK, Open
    <2>4. PipelineInOrder'
      BY <1>12, <2>1 DEF IInv, InitQueued, PipelineInOrder
    <2>5. Rest'
      BY <1>12, <2>1, <2>2 DEF IInv, InitQueued, CanInit, CountMatchesQueue,
         WorkerInv, ShutdownInv, NoLostWakeup, QueuedReaderIsServed, Stopped,
         Open
    <2> QED
      BY <2>3, <2>4, <2>5 DEF IInv
  <1>13. CASE InitUnqueued
    <2>1. DataOK'
      BY <1>13 DEF IInv, InitUnqueued, CanInit, DataOK, Open
    <2>2. PipelineInOrder' /\ Rest'
      BY <1>13 DEF IInv, InitUnqueued, CanInit, CountMatchesQueue, WorkerInv,
         ShutdownInv, NoLostWakeup, QueuedReaderIsServed, PipelineInOrder,
         Open
    <2> QED
      BY <2>1, <2>2 DEF IInv
  <1>14. CASE ReadSample
    <2>1. DataOK'
      BY <1>14 DEF IInv, ReadSample, DataOK
    <2>2. PipelineInOrder'
      BY <1>14, Numbers DEF IInv, ReadSample, PipelineInOrder
    <2>3. Rest'
      BY <1>14 DEF IInv, ReadSample, CountMatchesQueue, WorkerInv, ShutdownInv,
         NoLostWakeup, QueuedReaderIsServed
    <2> QED
      BY <2>1, <2>2, <2>3 DEF IInv
  <1>15. CASE Close
    <2>1. DataOK'
      BY <1>15 DEF IInv, Close, DataOK
    <2>2. PipelineInOrder'
      BY <1>15, Numbers DEF IInv, Close, PipelineInOrder
    <2>3. ShutdownInv'
      BY <1>15 DEF IInv, Close, WorkerInv, ShutdownInv, Stopped, Open
    <2> QED
      BY <1>15, <2>1, <2>2, <2>3 DEF IInv, Close, CountMatchesQueue, WorkerInv,
         NoLostWakeup, QueuedReaderIsServed
  <1>16. CASE UNCHANGED vars
    BY <1>16 DEF IInv, vars, DataOK, CountMatchesQueue, WorkerInv,
       ShutdownInv, NoLostWakeup, QueuedReaderIsServed, PipelineInOrder
  <1> QED
    BY <1>1, <1>2, <1>3, <1>4, <1>5, <1>6, <1>7, <1>8, <1>9, <1>10, <1>11,
       <1>12, <1>13, <1>14, <1>15, <1>16
    DEF Next, Listener, Worker, Closing

-----------------------------------------------------------------------------
\* The invariant holds always.
LEMMA Invariance == Spec => []IInv
  BY InitInv, NextInv, PTL DEF Spec

\* The flags need no help from the rest of the state.
LEMMA FlagsInvariance == Spec => []FlagsOK
  <1>1. Init => FlagsOK
    BY DEF Init, FlagsOK
  <1>2. FlagsOK /\ [Next]_vars => FlagsOK'
    <2> SUFFICES ASSUME FlagsOK, [Next]_vars PROVE FlagsOK'
      OBVIOUS
    <2> USE DEF FlagsOK, dds
    <2>1. CASE Publish \/ ListenerTake \/ ListenerDeliver
      BY <2>1 DEF Publish, ListenerTake, ListenerDeliver
    <2>2. CASE Worker
      BY <2>2 DEF Worker, WorkerCheck, WorkerGet, WorkerWoken, WorkerHandle
    <2>3. CASE Closing
      BY <2>3 DEF Closing, CloseSet, CloseInterrupt, CloseClear, CloseJoin
    <2>4. CASE InitQueued \/ InitUnqueued \/ ReadSample \/ Close
      BY <2>4 DEF InitQueued, InitUnqueued, ReadSample, Close
    <2>5. CASE UNCHANGED vars
      BY <2>5 DEF vars
    <2> QED
      BY <2>1, <2>2, <2>3, <2>4, <2>5 DEF Next, Listener
  <1> QED
    BY <1>1, <1>2, PTL DEF Spec

\* Every variable keeps its type, and the queue is never longer than the
\* length given to Init (bqueue.py:12-27).
THEOREM TypeCorrect == Spec => []TypeOK
  <1>1. IInv => DataOK
    BY DEF IInv
  <1> QED
    BY <1>1, Invariance, FlagsInvariance, PTL DEF TypeOK

\* The count BQueue keeps is always the length of its deque.
THEOREM CountCorrect == Spec => []CountMatchesQueue
  <1>1. IInv => CountMatchesQueue
    BY DEF IInv
  <1> QED
    BY <1>1, Invariance, PTL

\* Samples travel to the handler in the order they were written, each once,
\* through any number of Close and Init calls (channel.py:84-116).
THEOREM InOrder == Spec => []PipelineInOrder
  <1>1. IInv => PipelineInOrder
    BY DEF IInv
  <1> QED
    BY <1>1, Invariance, PTL

\* The ch_reader thread never sleeps beside a queued sample.
THEOREM NoWakeupLost == Spec => []NoLostWakeup
  <1>1. IInv => NoLostWakeup
    BY DEF IInv
  <1> QED
    BY <1>1, Invariance, PTL

\* The only way for Close to hang is an Interrupt that fell between is_set()
\* and wait() (channel.py:80, 113).
THEOREM HangExplained == Spec => []HangsOnlyAfterMissedInterrupt
  <1>1. IInv => HangsOnlyAfterMissedInterrupt
    BY DEF IInv, ShutdownInv, HangsOnlyAfterMissedInterrupt
  <1> QED
    BY <1>1, Invariance, PTL

\* A queued subscriber that is open has a thread, or had a raising handler.
THEOREM Served == Spec => []QueuedReaderIsServed
  <1>1. IInv => QueuedReaderIsServed
    BY DEF IInv
  <1> QED
    BY <1>1, Invariance, PTL

\* After Close has returned, a queued subscriber calls no handler.
THEOREM Quiet == Spec => QuietAfterClose
  <1>1. IInv /\ [Next]_vars =>
          [reader = "deleted" /\ closer = "idle" /\ queueEnable
             => calls' = calls]_vars
    <2> SUFFICES ASSUME IInv, Next, reader = "deleted", closer = "idle",
                        queueEnable
                 PROVE  calls' = calls
      BY DEF vars
    <2>1. worker \in Stopped
      BY DEF IInv, ShutdownInv, Open
    <2>2. ~WorkerHandle
      BY <2>1 DEF WorkerHandle, Stopped
    <2>3. ListenerDeliver => calls' = calls
      BY DEF ListenerDeliver
    <2> QED
      BY <2>2, <2>3
      DEF Next, Publish, Listener, ListenerTake, Worker, WorkerCheck,
          WorkerGet, WorkerWoken, Closing, CloseSet, CloseInterrupt,
          CloseClear, CloseJoin, InitQueued, InitUnqueued, ReadSample, Close
  <1> QED
    BY <1>1, Invariance, PTL DEF Spec, QuietAfterClose

\* A step of the subscriber is a step of the stream it promises, or none.
LEMMA StepImplements ==
    IInv /\ [Next]_vars => [Stream!Next]_<<sent, last, calls>>
  <1> SUFFICES ASSUME IInv, [Next]_vars, ~(UNCHANGED <<sent, last, calls>>)
               PROVE  Stream!Next
    OBVIOUS
  <1> USE DEF dds
  <1>1. CASE Publish
    BY <1>1 DEF Publish, Stream!Next, Stream!Publish
  <1>2. CASE WorkerHandle
    <2>1. item > last /\ item <= sent /\ item \in Nat /\ last \in Nat
          /\ sent \in Nat
      BY <1>2, Numbers DEF IInv, WorkerHandle, PipelineInOrder
    <2> QED
      BY <1>2, <2>1 DEF WorkerHandle, Stream!Next, Stream!Handle
  <1>3. CASE ListenerDeliver
    <2>1. last' = hand /\ hand # 0 /\ sent' = sent /\ calls' = calls + 1
      BY <1>3 DEF ListenerDeliver
    <2>2. hand > last /\ hand <= sent /\ hand \in Nat /\ last \in Nat
          /\ sent \in Nat
      BY <2>1, Numbers DEF IInv, PipelineInOrder
    <2> QED
      BY <2>1, <2>2 DEF Stream!Next, Stream!Handle
  <1>4. ListenerTake \/ WorkerCheck \/ WorkerGet \/ WorkerWoken \/ Closing
        \/ InitQueued \/ InitUnqueued \/ ReadSample \/ Close
        \/ UNCHANGED vars => UNCHANGED <<sent, last, calls>>
    BY DEF ListenerTake, WorkerCheck, WorkerGet, WorkerWoken, Closing,
       CloseSet, CloseInterrupt, CloseClear, CloseJoin, InitQueued,
       InitUnqueued, ReadSample, Close, vars
  <1> QED
    BY <1>1, <1>2, <1>3, <1>4 DEF Next, Listener, Worker

\* The subscriber implements the lossy, ordered, duplicate-free stream.
THEOREM ImplementsStream == Spec => StreamSpec
  <1>1. Init => Stream!Init
    BY DEF Init, Stream!Init
  <1> QED
    BY <1>1, StepImplements, Invariance, PTL DEF Spec, StreamSpec, Stream!Spec

=============================================================================

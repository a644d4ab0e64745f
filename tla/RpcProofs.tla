------------------------------ MODULE RpcProofs ------------------------------
(***************************************************************************)
(* Proofs about Rpc, for any clients, calls and queue lengths, and for its *)
(* implementing RpcAbstract.                                               *)
(***************************************************************************)
EXTENDS Rpc, TLAPS

TypeOK ==
    /\ setup \in Setups
    /\ pc \in [Calls -> {"idle", "registered", "written", "waiting", "expired",
                         "woken", "done"}]
    /\ result \in [Calls -> {"none", "ok", "timeout", "senderr"}]
    /\ table \subseteq Calls /\ ready \subseteq Calls
    /\ seq \in [Calls -> Nat]
    /\ wrote \in [Clients -> Nat] /\ taken \in [Clients -> Nat]
    /\ rseq \in [Calls -> Nat]
    /\ answered \in [Clients -> Nat] /\ heard \in [Clients -> Nat]
    /\ hold \in [Clients -> Calls \union {None}]
    /\ server \in {"off", "open", "half", "up"} /\ ear \in {"alive", "dead"}
    /\ queue \in [Lanes -> QueueType(Calls)]
    /\ thread \in [Lanes -> {"none", "get", "wait", "woken", "handle", "respond",
                             "dead"}]
    /\ cur \in [Lanes -> Calls \union {None}]
    /\ runs \in [Calls -> 0..1]

\* The count a queue keeps beside its deque is the deque's length.
CountInv == \A k \in Lanes : queue[k].curLen = Len(queue[k].items)

\* The server's handler has seen r.
Seen(r) == 0 < seq[r] /\ seq[r] <= taken[Owner[r]]

\* r was written before s by the same client.
Before(r, s) == Owner[r] = Owner[s] => seq[r] < seq[s]

\* Only what was written has a number, and only what was seen has run.
NumberInv ==
    /\ \A r \in Calls : pc[r] \in {"idle", "registered"} => seq[r] = 0
    /\ \A r \in Calls : runs[r] = 1 => Seen(r)

\* What is in a lane's queue has been seen, has not run, and is in the order in
\* which its client wrote it.
QueueInv ==
    \A k \in Lanes : \A i \in 1..Len(queue[k].items) :
        LET r == queue[k].items[i] IN
        /\ Lane(r) = k /\ Seen(r) /\ runs[r] = 0
        /\ \A j \in 1..Len(queue[k].items) : i < j => Before(r, queue[k].items[j])
        /\ \A s \in Calls : runs[s] = 1 /\ Lane(s) = k => Before(s, r)

\* The request a queue thread is about to handle comes after all that have run
\* and before all that are queued; the one it answers has run.
HandleInv ==
    \A k \in Lanes :
        /\ thread[k] \in {"handle", "respond"} => cur[k] \in Calls
        /\ thread[k] = "handle" =>
              /\ Lane(cur[k]) = k /\ Seen(cur[k]) /\ runs[cur[k]] = 0
              /\ \A i \in 1..Len(queue[k].items) : Before(cur[k], queue[k].items[i])
              /\ \A s \in Calls : runs[s] = 1 /\ Lane(s) = k => Before(s, cur[k])
        /\ thread[k] = "respond" => runs[cur[k]] = 1

\* An answer, a future in the handler's hands and a READY one are of a call that
\* has run; a future is in one place at a time.
FutureInv ==
    /\ \A r \in Calls : rseq[r] > 0 => runs[r] = 1
    /\ \A c \in Clients : hold[c] # None =>
          Owner[hold[c]] = c /\ runs[hold[c]] = 1 /\ hold[c] \notin table
    /\ \A r \in ready : runs[r] = 1 /\ r \notin table
    /\ \A r \in Calls : pc[r] = "woken" => r \in ready
    /\ table \intersect NoReply = {}

\* The inductive invariant.
IInv == /\ TypeOK
        /\ CountInv
        /\ NumberInv
        /\ QueueInv
        /\ HandleInv
        /\ FutureInv
        /\ AnswerCanReachCaller
        /\ NoLostWakeup
        /\ OnlyFailedCallsLeak

-----------------------------------------------------------------------------
(* The queue operators and the setup.                                      *)

\* What a setup is made of; it does not change.
LEMMA SetupFacts ==
    ASSUME TypeOK
    PROVE  /\ Owner \in [Calls -> Clients] /\ NoReply \subseteq Calls
           /\ \A k \in Lanes : MaxLen(k) \in Nat \ {0}
           /\ \A r \in Calls : Lane(r) \in Lanes
           /\ None \notin Calls
  BY RpcAssumption DEF TypeOK, Owner, NoReply, MaxLen, Lane, Lanes

\* The setting is chosen once.
LEMMA SetupFixed ==
    ASSUME UNCHANGED setup
    PROVE  /\ Owner' = Owner /\ NoReply' = NoReply
           /\ \A r \in Calls : Lane(r)' = Lane(r)
  BY DEF Owner, NoReply, Lane, EnablePrio, Prio

\* Put with replacement appends r behind all but at most the oldest entry.
LEMMA PutReplaces ==
    ASSUME NEW q \in QueueType(Calls), q.curLen = Len(q.items),
           NEW n \in Nat \ {0}, NEW r \in Calls, NEW p,
           p = AppendTo(IF Full(q, n) THEN DropOldest(q) ELSE q, r)
    PROVE  /\ p \in QueueType(Calls) /\ p.curLen = Len(p.items)
           /\ \E d \in 0..1 :
                 /\ Len(p.items) = Len(q.items) - d + 1
                 /\ \A i \in 1..Len(q.items) - d : p.items[i] = q.items[i + d]
                 /\ p.items[Len(q.items) - d + 1] = r
  <1>0. q.items \in Seq(Calls) /\ q.curLen \in Int /\ Len(q.items) \in Nat
    BY DEF QueueType
  <1>1. CASE ~Full(q, n)
    <2>1. p.items = Append(q.items, r) /\ p.curLen = q.curLen + 1
          /\ p = [items |-> Append(q.items, r), curLen |-> q.curLen + 1]
      BY <1>1 DEF AppendTo
    <2>2. p \in QueueType(Calls) /\ p.curLen = Len(p.items)
      BY <1>0, <2>1 DEF QueueType
    <2>a. /\ Len(p.items) = Len(q.items) + 1
          /\ \A i \in 1..Len(q.items) : p.items[i] = q.items[i]
          /\ p.items[Len(q.items) + 1] = r
      BY SMTT(40), <1>0, <2>1
    <2>3. /\ Len(p.items) = Len(q.items) - 0 + 1
          /\ \A i \in 1..Len(q.items) - 0 : p.items[i] = q.items[i + 0]
          /\ p.items[Len(q.items) - 0 + 1] = r
      BY <1>0, <2>a
    <2>4. 0 \in 0..1
      OBVIOUS
    <2> QED
      BY <2>2, <2>3, <2>4
  <1>2. CASE Full(q, n)
    <2>0. q.items # <<>>
      BY <1>0, <1>2 DEF Full
    <2>1. p = [items |-> Append(Tail(q.items), r), curLen |-> q.curLen - 1 + 1]
          /\ p.items = Append(Tail(q.items), r) /\ p.curLen = q.curLen - 1 + 1
      BY <1>2 DEF AppendTo, DropOldest
    <2>t. /\ Tail(q.items) \in Seq(Calls) /\ Len(Tail(q.items)) = Len(q.items) - 1
          /\ Len(q.items) >= 1
          /\ \A i \in 1..Len(q.items) - 1 : Tail(q.items)[i] = q.items[i + 1]
      BY <1>0, <2>0
    <2>2. p \in QueueType(Calls) /\ p.curLen = Len(p.items)
      BY SMTT(40), <1>0, <2>t, <2>1 DEF QueueType
    <2>3. /\ Len(p.items) = Len(q.items) - 1 + 1
          /\ \A i \in 1..Len(q.items) - 1 : p.items[i] = q.items[i + 1]
          /\ p.items[Len(q.items) - 1 + 1] = r
      BY SMTT(40), <1>0, <2>t, <2>1
    <2>4. 1 \in 0..1
      OBVIOUS
    <2> QED
      BY <2>2, <2>3, <2>4
  <1> QED
    BY <1>1, <1>2

\* Get takes the oldest entry.
LEMMA GetOldest ==
    ASSUME NEW q \in QueueType(Calls), q.curLen = Len(q.items), q.items # <<>>
    PROVE  /\ FirstOf(q) = q.items[1] /\ FirstOf(q) \in Calls
           /\ Len(q.items) >= 1
           /\ AfterGet(q) \in QueueType(Calls)
           /\ AfterGet(q).curLen = Len(AfterGet(q).items)
           /\ Len(AfterGet(q).items) = Len(q.items) - 1
           /\ \A i \in 1..Len(q.items) - 1 : AfterGet(q).items[i] = q.items[i + 1]
  BY DEF QueueType, FirstOf, AfterGet, DropOldest

\* The type invariant of one queue.
LEMMA QueueFacts ==
    ASSUME TypeOK, NEW k \in Lanes
    PROVE  /\ queue[k] \in QueueType(Calls)
           /\ queue[k].items \in Seq(Calls) /\ Len(queue[k].items) \in Nat
           /\ \A i \in 1..Len(queue[k].items) : queue[k].items[i] \in Calls
  BY DEF TypeOK, QueueType

-----------------------------------------------------------------------------
\* The invariant holds at first.
LEMMA InitInv == Init => IInv
  <1> SUFFICES ASSUME Init PROVE IInv
    OBVIOUS
  <1> USE DEF Init, EmptyQueue
  <1>1. TypeOK
    BY RpcAssumption DEF TypeOK, QueueType
  <1>2. CountInv /\ NumberInv /\ QueueInv /\ HandleInv
    BY DEF CountInv, NumberInv, QueueInv, HandleInv
  <1>3. FutureInv
    BY DEF FutureInv
  <1>4. AnswerCanReachCaller /\ NoLostWakeup /\ OnlyFailedCallsLeak
    BY DEF AnswerCanReachCaller, NoLostWakeup, OnlyFailedCallsLeak
  <1> QED
    BY <1>1, <1>2, <1>3, <1>4 DEF IInv

\* While the server rests, numbers that were given stay: its part of the
\* invariant is kept.
LEMMA ServerFrame ==
    ASSUME IInv, UNCHANGED <<setup, taken, service>>,
           seq' \in [Calls -> Nat], \A q \in Calls : seq[q] > 0 => seq'[q] = seq[q]
    PROVE  /\ CountInv' /\ QueueInv' /\ HandleInv'
           /\ \A q \in Calls : runs'[q] = 1 => Seen(q)'
           /\ \A k \in Lanes : thread'[k] = "wait" => queue'[k].items = <<>>
  <1> USE DEF service
  <1>1. TypeOK
    BY DEF IInv
  <1>2. Owner' = Owner /\ \A r \in Calls : Lane(r)' = Lane(r)
    BY SetupFixed
  <1>3. \A q \in Calls : Seen(q) => Seen(q)' /\ seq[q] > 0 /\ seq'[q] = seq[q]
    BY <1>1, <1>2 DEF Seen, TypeOK
  <1>4. \A q, s \in Calls : Seen(q) /\ Seen(s) /\ Before(q, s) => Before(q, s)'
    BY <1>2, <1>3 DEF Before
  <1>5. \A q \in Calls : runs[q] = 1 => Seen(q)
    BY DEF IInv, NumberInv
  <1>6. CountInv'
    BY DEF IInv, CountInv
  <1>7. QueueInv'
    <2> SUFFICES ASSUME NEW k \in Lanes, NEW i \in 1..Len(queue[k].items)
                 PROVE  LET r == queue[k].items[i] IN
                        /\ Lane(r)' = k /\ Seen(r)' /\ runs[r] = 0
                        /\ \A j \in 1..Len(queue[k].items) :
                              i < j => Before(r, queue[k].items[j])'
                        /\ \A s \in Calls : runs[s] = 1 /\ Lane(s)' = k
                              => Before(s, r)'
      BY DEF QueueInv
    <2> DEFINE n == Len(queue[k].items)
               at(j) == queue[k].items[j]
    <2>1. \A j \in 1..n : at(j) \in Calls /\ Seen(at(j))
      BY <1>1, QueueFacts DEF IInv, QueueInv
    <2>2. /\ Lane(at(i)) = k /\ runs[at(i)] = 0
          /\ \A j \in 1..n : i < j => Before(at(i), at(j))
          /\ \A s \in Calls : runs[s] = 1 /\ Lane(s) = k => Before(s, at(i))
      BY DEF IInv, QueueInv
    <2> QED
      BY <1>2, <1>3, <1>4, <1>5, <2>1, <2>2
  <1>8. HandleInv'
    <2> SUFFICES ASSUME NEW k \in Lanes
                 PROVE  /\ thread[k] \in {"handle", "respond"} => cur[k] \in Calls
                        /\ thread[k] = "handle" =>
                              /\ Lane(cur[k])' = k /\ Seen(cur[k])'
                              /\ runs[cur[k]] = 0
                              /\ \A i \in 1..Len(queue[k].items) :
                                    Before(cur[k], queue[k].items[i])'
                              /\ \A s \in Calls : runs[s] = 1 /\ Lane(s)' = k
                                    => Before(s, cur[k])'
                        /\ thread[k] = "respond" => runs[cur[k]] = 1
      BY DEF HandleInv
    <2>1. \A j \in 1..Len(queue[k].items) :
             queue[k].items[j] \in Calls /\ Seen(queue[k].items[j])
      BY <1>1, QueueFacts DEF IInv, QueueInv
    <2> QED
      BY <1>2, <1>3, <1>4, <1>5, <2>1 DEF IInv, HandleInv
  <1> QED
    BY <1>3, <1>5, <1>6, <1>7, <1>8 DEF IInv, NoLostWakeup

\* The calling thread.
LEMMA CallerStep ==
    ASSUME IInv, UNCHANGED setup, NEW r \in Calls, Caller(r)
    PROVE  IInv'
  <1> USE DEF requests, answers, service
  <1>1. TypeOK
    BY DEF IInv
  <1>2. Owner' = Owner /\ NoReply' = NoReply
    BY SetupFixed
  <1>3. Owner \in [Calls -> Clients] /\ NoReply \subseteq Calls /\ None \notin Calls
    BY <1>1, SetupFacts
  <1>4. UNCHANGED <<setup, taken, service, answers, ready>>
    BY DEF Caller, Register, WriteRequest, WriteFails, GetResult, Expire,
           ReturnTimeout, ReturnAnswer
  <1>5. /\ pc' = [pc EXCEPT ![r] = pc'[r]] /\ result' = [result EXCEPT ![r] = result'[r]]
        /\ seq' = [seq EXCEPT ![r] = seq'[r]]
        /\ seq'[r] \in Nat /\ wrote' \in [Clients -> Nat]
        /\ table' = IF pc[r] = "idle" /\ r \notin NoReply
                    THEN table \union {r} ELSE table
        /\ pc[r] # "registered" => seq'[r] = seq[r]
        /\ pc[r] = "idle" => pc'[r] = "registered"
    BY <1>1, <1>3 DEF TypeOK, Caller, Register, WriteRequest, WriteFails,
           GetResult, Expire, ReturnTimeout, ReturnAnswer, Return
  <1>6. /\ pc'[r] \in {"registered", "written", "waiting", "expired", "done"}
        /\ pc'[r] = "registered" => pc[r] = "idle"
        /\ pc[r] = "idle" => pc'[r] = "registered"
        /\ pc'[r] = "written" => pc[r] = "registered" /\ r \notin NoReply
        /\ pc'[r] = "waiting" => pc[r] = "written" /\ r \notin ready
        /\ pc'[r] = "expired" => pc[r] = "waiting"
        /\ result'[r] \in {"none", "ok", "timeout", "senderr"}
        /\ pc'[r] = "done" => \/ result'[r] \in {"timeout", "senderr"}
                              \/ r \in NoReply
                              \/ r \in ready
    BY <1>1 DEF TypeOK, IInv, FutureInv, Caller, Register, WriteRequest,
           WriteFails, GetResult, Expire, ReturnTimeout, ReturnAnswer, Return
  <1>7. pc[r] = "idle" => seq[r] = 0 /\ runs[r] = 0 /\ r \notin ready
    BY <1>1 DEF IInv, NumberInv, FutureInv, TypeOK, Seen
  <1>8. TypeOK'
    BY <1>1, <1>4, <1>5, <1>6 DEF TypeOK
  <1>9. seq' \in [Calls -> Nat] /\ \A q \in Calls : seq[q] > 0 => seq'[q] = seq[q]
    BY <1>1, <1>5 DEF TypeOK, IInv, NumberInv
  <1>10. CountInv' /\ QueueInv' /\ HandleInv'
    BY <1>4, <1>9, ServerFrame
  <1>11. NumberInv'
    <2>1. \A q \in Calls : runs'[q] = 1 => Seen(q)'
      BY <1>4, <1>9, ServerFrame
    <2>2. \A q \in Calls : pc'[q] \in {"idle", "registered"} => seq'[q] = 0
      BY <1>1, <1>5, <1>6 DEF TypeOK, IInv, NumberInv
    <2> QED
      BY <2>1, <2>2 DEF NumberInv
  <1>12. FutureInv'
    BY <1>1, <1>2, <1>4, <1>5, <1>6, <1>7 DEF TypeOK, IInv, FutureInv
  <1>13. AnswerCanReachCaller'
    BY <1>1, <1>2, <1>4, <1>5, <1>6 DEF TypeOK, IInv, AnswerCanReachCaller
  <1>14. NoLostWakeup'
    BY <1>1, <1>4, <1>5, <1>6 DEF TypeOK, IInv, NoLostWakeup
  <1>15. OnlyFailedCallsLeak'
    BY <1>1, <1>4, <1>5, <1>6 DEF TypeOK, IInv, FutureInv, OnlyFailedCallsLeak
  <1> QED
    BY <1>8, <1>10, <1>11, <1>12, <1>13, <1>14, <1>15 DEF IInv

\* The response handler takes the future of r out of the table.
LEMMA ReceiveStep ==
    ASSUME IInv, UNCHANGED setup, NEW r \in Calls, Receive(r)
    PROVE  IInv'
  <1> USE DEF requests, service
  <1>1. TypeOK
    BY DEF IInv
  <1>2. Owner' = Owner /\ NoReply' = NoReply
    BY SetupFixed
  <1>3. Owner \in [Calls -> Clients] /\ NoReply \subseteq Calls /\ None \notin Calls
    BY <1>1, SetupFacts
  <1> DEFINE c == Owner[r]
  <1>4. /\ c \in Clients /\ hold[c] = None /\ rseq[r] > heard[c]
        /\ heard' = [heard EXCEPT ![c] = rseq[r]]
        /\ hold' = [hold EXCEPT ![c] = IF r \in table THEN r ELSE None]
        /\ table' = table \ {r}
        /\ UNCHANGED <<setup, pc, result, ready, requests, rseq, answered, service>>
    BY <1>3 DEF Receive
  <1>5. runs[r] = 1
    BY <1>1, <1>4 DEF IInv, TypeOK, FutureInv
  <1>6. TypeOK'
    BY <1>1, <1>4 DEF TypeOK
  <1>7. CountInv' /\ QueueInv' /\ HandleInv' /\ NumberInv'
    <2>1. CountInv' /\ QueueInv' /\ HandleInv'
          /\ \A q \in Calls : runs'[q] = 1 => Seen(q)'
      BY <1>1, <1>4, ServerFrame DEF TypeOK
    <2> QED
      BY <1>4, <2>1 DEF IInv, NumberInv
  <1>8. FutureInv'
    BY <1>1, <1>2, <1>3, <1>4, <1>5 DEF TypeOK, IInv, FutureInv
  <1>9. AnswerCanReachCaller'
    BY <1>1, <1>2, <1>3, <1>4 DEF TypeOK, IInv, AnswerCanReachCaller
  <1>10. NoLostWakeup' /\ OnlyFailedCallsLeak'
    BY <1>4 DEF IInv, NoLostWakeup, OnlyFailedCallsLeak
  <1> QED
    BY <1>6, <1>7, <1>8, <1>9, <1>10 DEF IInv

\* The response handler makes the future in its hands READY.
LEMMA MakeReadyStep ==
    ASSUME IInv, UNCHANGED setup, NEW c \in Clients, MakeReady(c)
    PROVE  IInv'
  <1> USE DEF requests, service
  <1>1. TypeOK
    BY DEF IInv
  <1>2. Owner' = Owner /\ NoReply' = NoReply
    BY SetupFixed
  <1>3. Owner \in [Calls -> Clients] /\ NoReply \subseteq Calls /\ None \notin Calls
    BY <1>1, SetupFacts
  <1> DEFINE r == hold[c]
  <1>4. /\ r \in Calls /\ Owner[r] = c /\ runs[r] = 1 /\ r \notin table
        /\ ready' = ready \union {r}
        /\ pc' = [pc EXCEPT ![r] = IF @ = "waiting" THEN "woken" ELSE @]
        /\ hold' = [hold EXCEPT ![c] = None]
        /\ UNCHANGED <<setup, result, table, requests, rseq, answered, heard, service>>
    BY <1>1 DEF MakeReady, TypeOK, IInv, FutureInv
  <1> HIDE DEF r
  <1>5. TypeOK'
    BY <1>1, <1>4 DEF TypeOK
  <1>6. CountInv' /\ QueueInv' /\ HandleInv' /\ NumberInv'
    <2>1. CountInv' /\ QueueInv' /\ HandleInv'
          /\ \A q \in Calls : runs'[q] = 1 => Seen(q)'
      BY <1>1, <1>4, ServerFrame DEF TypeOK
    <2> QED
      BY <1>1, <1>4, <2>1 DEF TypeOK, IInv, NumberInv
  <1>7. FutureInv'
    BY <1>1, <1>2, <1>4 DEF TypeOK, IInv, FutureInv
  <1>8. AnswerCanReachCaller'
    BY <1>1, <1>2, <1>3, <1>4 DEF TypeOK, IInv, AnswerCanReachCaller, r
  <1>9. NoLostWakeup' /\ OnlyFailedCallsLeak'
    BY <1>1, <1>4 DEF TypeOK, IInv, NoLostWakeup, OnlyFailedCallsLeak
  <1> QED
    BY <1>5, <1>6, <1>7, <1>8, <1>9 DEF IInv

\* The server's start changes nothing the invariant is about.
LEMMA StartStep ==
    ASSUME IInv, UNCHANGED setup, Start
    PROVE  IInv'
  <1> USE DEF requests, answers, client
  <1>1. TypeOK
    BY DEF IInv
  <1>2. Owner' = Owner /\ NoReply' = NoReply /\ \A r \in Calls : Lane(r)' = Lane(r)
    BY SetupFixed
  <1>3. /\ UNCHANGED <<setup, client, requests, answers, ear, queue, cur, runs>>
        /\ server' \in {"open", "half", "up"}
        /\ thread' \in [Lanes -> {"none", "get", "wait", "woken", "handle",
                                  "respond", "dead"}]
        /\ \A k \in Lanes : thread'[k] = thread[k] \/ thread'[k] = "get"
    BY <1>1 DEF Start, OpenChannel, StartQueue, StartPrioQueue, TypeOK, Lanes
  <1>4. TypeOK' /\ CountInv'
    BY <1>1, <1>3 DEF TypeOK, IInv, CountInv
  <1>5. \A q \in Calls : Seen(q)' = Seen(q)
    BY <1>2, <1>3 DEF Seen
  <1>6. \A q, s \in Calls : Before(q, s)' = Before(q, s)
    BY <1>2, <1>3 DEF Before
  <1>7. NumberInv'
    BY <1>3, <1>5 DEF IInv, NumberInv
  <1>8. QueueInv'
    BY <1>1, <1>2, <1>3, <1>5, <1>6, QueueFacts DEF IInv, QueueInv
  <1>9. HandleInv'
    BY <1>1, <1>2, <1>3, <1>5, <1>6, QueueFacts DEF IInv, HandleInv
  <1>10. FutureInv' /\ AnswerCanReachCaller'
    BY <1>2, <1>3 DEF IInv, FutureInv, AnswerCanReachCaller
  <1>11. NoLostWakeup' /\ OnlyFailedCallsLeak'
    BY <1>3 DEF IInv, NoLostWakeup, OnlyFailedCallsLeak
  <1> QED
    BY <1>4, <1>7, <1>8, <1>9, <1>10, <1>11 DEF IInv

\* __Enqueue: what it stores is newer than all its client's requests before.
LEMMA EnqueueStep ==
    ASSUME IInv, UNCHANGED setup, NEW r \in Calls, Enqueue(r)
    PROVE  IInv'
  <1> USE DEF answers, client
  <1> DEFINE l == Lane(r)
             o == Owner[r]
             SeenNow(q) == 0 < seq[q] /\ seq[q] <= taken'[Owner[q]]
  <1>1. TypeOK
    BY DEF IInv
  <1>2. Owner' = Owner /\ NoReply' = NoReply /\ \A q \in Calls : Lane(q)' = Lane(q)
    BY SetupFixed
  <1>3. /\ Owner \in [Calls -> Clients] /\ l \in Lanes /\ o \in Clients
        /\ MaxLen(l) \in Nat \ {0}
    BY <1>1, SetupFacts
  <1>4. /\ seq[r] > taken[o] /\ taken' = [taken EXCEPT ![o] = seq[r]]
        /\ UNCHANGED <<setup, client, seq, wrote, answers, server, cur, runs>>
        /\ seq[r] \in Nat /\ taken[o] \in Nat
    BY <1>1, <1>3 DEF Enqueue, TypeOK
  <1>5. \A q \in Calls : Seen(q) => SeenNow(q) /\ (Owner[q] = o => seq[q] < seq[r])
    BY <1>1, <1>2, <1>3, <1>4 DEF Seen, TypeOK
  <1>6. SeenNow(r) /\ ~Seen(r) /\ runs[r] = 0
    BY <1>1, <1>2, <1>3, <1>4 DEF Seen, TypeOK, IInv, NumberInv
  <1>8. \A q \in Calls : Seen(q) => Before(q, r)
    BY <1>5 DEF Before
  <1> HIDE DEF SeenNow
  <1>9. NumberInv'
    BY <1>2, <1>4, <1>5 DEF IInv, NumberInv, Seen, SeenNow
  <1>10. FutureInv' /\ AnswerCanReachCaller' /\ OnlyFailedCallsLeak'
    BY <1>2, <1>4 DEF IInv, FutureInv, AnswerCanReachCaller, OnlyFailedCallsLeak
  <1>11. \A k \in Lanes : \A i \in 1..Len(queue[k].items) :
            /\ queue[k].items[i] \in Calls /\ Seen(queue[k].items[i])
            /\ Lane(queue[k].items[i]) = k /\ runs[queue[k].items[i]] = 0
            /\ \A j \in 1..Len(queue[k].items) :
                  i < j => Before(queue[k].items[i], queue[k].items[j])
            /\ \A s \in Calls : runs[s] = 1 /\ Lane(s) = k
                  => Before(s, queue[k].items[i])
    BY <1>1, QueueFacts DEF IInv, QueueInv
  <1>12. \A s \in Calls : runs[s] = 1 => Seen(s)
    BY DEF IInv, NumberInv
  <1>13. CASE UNCHANGED <<queue, thread>>
    <2>1. TypeOK' /\ CountInv'
      BY <1>1, <1>3, <1>4, <1>13 DEF TypeOK, IInv, CountInv, Enqueue
    <2>2. QueueInv'
      BY <1>2, <1>4, <1>5, <1>11, <1>13 DEF QueueInv, Seen, SeenNow, Before
    <2>3. HandleInv'
      BY <1>2, <1>4, <1>5, <1>11, <1>13 DEF IInv, HandleInv, Seen, SeenNow, Before
    <2>4. NoLostWakeup'
      BY <1>4, <1>13 DEF IInv, NoLostWakeup
    <2> QED
      BY <1>9, <1>10, <2>1, <2>2, <2>3, <2>4 DEF IInv
  <1>14. CASE /\ queue' = [queue EXCEPT ![l] = Put(@, r, MaxLen(l), TRUE)]
              /\ thread' = [thread EXCEPT ![l] =
                               IF @ = "wait" /\ PutNotifies(queue[l], MaxLen(l), TRUE)
                               THEN "woken" ELSE @]
              /\ UNCHANGED ear
    <2> DEFINE q0 == queue[l]
               q1 == queue'[l]
    <2>1. q0 \in QueueType(Calls) /\ q0.curLen = Len(q0.items) /\ Len(q0.items) \in Nat
      BY <1>1, <1>3, QueueFacts DEF IInv, CountInv
    <2>2. q1 = AppendTo(IF Full(q0, MaxLen(l)) THEN DropOldest(q0) ELSE q0, r)
      BY <1>1, <1>3, <1>14 DEF TypeOK, Put
    <2> HIDE DEF q1, q0, l
    <2>3. PICK d \in 0..1 :
             /\ Len(q1.items) = Len(q0.items) - d + 1
             /\ \A i \in 1..Len(q0.items) - d : q1.items[i] = q0.items[i + d]
             /\ q1.items[Len(q0.items) - d + 1] = r
      BY <1>3, <2>1, <2>2, PutReplaces
    <2>4. q1 \in QueueType(Calls) /\ q1.curLen = Len(q1.items)
      BY <1>3, <2>1, <2>2, PutReplaces
    <2> USE DEF q1, q0
    <2>5. \A k \in Lanes : k # l => queue'[k] = queue[k] /\ thread'[k] = thread[k]
      BY <1>1, <1>3, <1>14 DEF TypeOK
    <2>6. thread'[l] = IF thread[l] = "wait" THEN "woken" ELSE thread[l]
      BY <1>1, <1>3, <1>14 DEF TypeOK, PutNotifies
    <2>7. TypeOK' /\ CountInv'
      <3>1. queue' \in [Lanes -> QueueType(Calls)]
        BY <1>1, <1>14, <2>2, <2>4 DEF TypeOK
      <3>2. thread' \in [Lanes -> {"none", "get", "wait", "woken", "handle",
                                   "respond", "dead"}]
        BY <1>1, <1>14 DEF TypeOK
      <3>3. taken' \in [Clients -> Nat]
        BY <1>1, <1>4 DEF TypeOK
      <3>4. TypeOK'
        BY <1>1, <1>4, <1>14, <3>1, <3>2, <3>3 DEF TypeOK
      <3> QED
        BY <2>4, <2>5, <3>4 DEF IInv, CountInv
    <2> HIDE DEF q1, q0
    <2>8. \A i \in 1..Len(q1.items) :
             \/ i = Len(q1.items) /\ q1.items[i] = r
             \/ /\ i \in 1..Len(q1.items) - 1 /\ i + d \in 1..Len(q0.items)
                /\ q1.items[i] = q0.items[i + d]
      BY <2>1, <2>3
    <2>9. ASSUME NEW i \in 1..Len(q1.items)
          PROVE  /\ q1.items[i] \in Calls /\ Lane(q1.items[i]) = l
                 /\ SeenNow(q1.items[i]) /\ runs[q1.items[i]] = 0
                 /\ i < Len(q1.items) => Seen(q1.items[i])
                 /\ \A s \in Calls :
                       runs[s] = 1 /\ Lane(s) = l => Before(s, q1.items[i])
      <3>1. CASE i = Len(q1.items) /\ q1.items[i] = r
        BY <1>6, <1>8, <1>12, <3>1 DEF l
      <3>2. CASE i + d \in 1..Len(q0.items) /\ q1.items[i] = q0.items[i + d]
        BY <1>3, <1>5, <1>11, <3>2 DEF q0
      <3> QED
        BY <2>8, <3>1, <3>2
    <2>10. ASSUME NEW i \in 1..Len(q1.items), NEW j \in 1..Len(q1.items), i < j
           PROVE  Before(q1.items[i], q1.items[j])
      <3>1. i \in Int /\ j \in Int /\ Len(q1.items) \in Int /\ i < Len(q1.items)
        BY <2>1, <2>3, <2>10
      <3>2. i + d \in 1..Len(q0.items) /\ q1.items[i] = q0.items[i + d]
            /\ q1.items[i] \in Calls /\ Seen(q1.items[i])
        BY <2>8, <2>9, <3>1
      <3>3. CASE j = Len(q1.items) /\ q1.items[j] = r
        BY <1>8, <3>2, <3>3
      <3>4. CASE j + d \in 1..Len(q0.items) /\ q1.items[j] = q0.items[j + d]
        <4>1. i + d < j + d
          BY <2>10, <3>1
        <4> QED
          BY <1>3, <1>11, <3>2, <3>4, <4>1 DEF q0
      <3> QED
        BY <2>8, <3>3, <3>4
    <2>11. QueueInv'
      <3> SUFFICES ASSUME NEW k \in Lanes, NEW i \in 1..Len(queue'[k].items)
                   PROVE  LET x == queue'[k].items[i] IN
                          /\ Lane(x) = k /\ SeenNow(x) /\ runs[x] = 0 /\ x \in Calls
                          /\ \A j \in 1..Len(queue'[k].items) :
                                /\ queue'[k].items[j] \in Calls
                                /\ i < j => Before(x, queue'[k].items[j])
                          /\ \A s \in Calls : runs[s] = 1 /\ Lane(s) = k => Before(s, x)
        BY <1>2, <1>4 DEF QueueInv, Seen, SeenNow, Before
      <3>1. CASE k = l
        BY <2>9, <2>10, <3>1 DEF q1
      <3>2. CASE k # l
        BY <1>5, <1>11, <2>5, <3>2
      <3> QED
        BY <3>1, <3>2
    <2>12. HandleInv'
      <3> SUFFICES ASSUME NEW k \in Lanes
                   PROVE  /\ thread'[k] \in {"handle", "respond"} => cur[k] \in Calls
                          /\ thread'[k] = "handle" =>
                                /\ Lane(cur[k]) = k /\ SeenNow(cur[k])
                                /\ runs[cur[k]] = 0
                                /\ \A i \in 1..Len(queue'[k].items) :
                                      /\ queue'[k].items[i] \in Calls
                                      /\ Before(cur[k], queue'[k].items[i])
                                /\ \A s \in Calls : runs[s] = 1 /\ Lane(s) = k
                                      => Before(s, cur[k])
                          /\ thread'[k] = "respond" => runs[cur[k]] = 1
        BY <1>2, <1>4 DEF HandleInv, Seen, SeenNow, Before
      <3>1. thread'[k] \in {"handle", "respond"} => thread[k] = thread'[k]
        BY <2>5, <2>6
      <3>2. ASSUME thread[k] = "handle", NEW i \in 1..Len(queue'[k].items)
            PROVE  queue'[k].items[i] \in Calls /\ Before(cur[k], queue'[k].items[i])
        <4>1. /\ cur[k] \in Calls /\ Seen(cur[k])
              /\ \A j \in 1..Len(queue[k].items) : Before(cur[k], queue[k].items[j])
          BY <3>2 DEF IInv, HandleInv
        <4>2. CASE k = l
          BY <1>8, <2>8, <2>9, <4>1, <4>2 DEF q0, q1
        <4>3. CASE k # l
          BY <1>11, <2>5, <4>1, <4>3
        <4> QED
          BY <4>2, <4>3
      <3> QED
        BY <1>5, <3>1, <3>2 DEF IInv, HandleInv
    <2>13. NoLostWakeup'
      BY <1>4, <2>5, <2>6 DEF IInv, NoLostWakeup
    <2> QED
      BY <1>9, <1>10, <2>7, <2>11, <2>12, <2>13 DEF IInv
  <1> QED
    BY <1>13, <1>14 DEF Enqueue

\* A queue thread takes the oldest request.
LEMMA DequeueStep ==
    ASSUME IInv, UNCHANGED setup, NEW l \in Lanes, Dequeue(l)
    PROVE  IInv'
  <1> USE DEF answers, client, requests
  <1>1. TypeOK
    BY DEF IInv
  <1>2. Owner' = Owner /\ NoReply' = NoReply /\ \A q \in Calls : Lane(q)' = Lane(q)
    BY SetupFixed
  <1>3. UNCHANGED <<setup, client, requests, answers, server, ear, runs>>
    BY DEF Dequeue
  <1>4. NumberInv'
    BY <1>2, <1>3 DEF IInv, NumberInv, Seen
  <1>5. FutureInv' /\ AnswerCanReachCaller' /\ OnlyFailedCallsLeak'
    BY <1>2, <1>3 DEF IInv, FutureInv, AnswerCanReachCaller, OnlyFailedCallsLeak
  <1>6. \A k \in Lanes : \A i \in 1..Len(queue[k].items) :
            /\ queue[k].items[i] \in Calls /\ Seen(queue[k].items[i])
            /\ Lane(queue[k].items[i]) = k /\ runs[queue[k].items[i]] = 0
            /\ \A j \in 1..Len(queue[k].items) :
                  i < j => Before(queue[k].items[i], queue[k].items[j])
            /\ \A s \in Calls : runs[s] = 1 /\ Lane(s) = k
                  => Before(s, queue[k].items[i])
    BY <1>1, QueueFacts DEF IInv, QueueInv
  <1>7. CASE /\ queue[l].items # <<>> /\ cur' = [cur EXCEPT ![l] = FirstOf(queue[l])]
             /\ queue' = [queue EXCEPT ![l] = AfterGet(@)]
             /\ thread' = [thread EXCEPT ![l] = "handle"]
    <2> DEFINE q0 == queue[l]
               q1 == queue'[l]
    <2>1. /\ q0 \in QueueType(Calls) /\ q0.curLen = Len(q0.items)
          /\ Len(q0.items) \in Nat /\ q0.items # <<>>
      BY <1>1, <1>7, QueueFacts DEF IInv, CountInv
    <2>2. q1 = AfterGet(q0) /\ thread'[l] = "handle" /\ cur'[l] = FirstOf(q0)
      BY <1>1, <1>7 DEF TypeOK
    <2>3. \A k \in Lanes : k # l => /\ queue'[k] = queue[k] /\ thread'[k] = thread[k]
                                    /\ cur'[k] = cur[k]
      BY <1>1, <1>7 DEF TypeOK
    <2> HIDE DEF q0, q1
    <2>4. /\ cur'[l] = q0.items[1] /\ cur'[l] \in Calls /\ 1 \in 1..Len(q0.items)
          /\ q1 \in QueueType(Calls) /\ q1.curLen = Len(q1.items)
          /\ Len(q1.items) = Len(q0.items) - 1
          /\ \A i \in 1..Len(q1.items) : q1.items[i] = q0.items[i + 1]
      BY <2>1, <2>2, GetOldest
    <2>5. \A i \in 1..Len(q1.items) : i + 1 \in 1..Len(q0.items) /\ 1 < i + 1
      BY <2>1, <2>4
    <2>6. TypeOK' /\ CountInv'
      <3>1. queue' \in [Lanes -> QueueType(Calls)]
        BY <1>1, <1>7, <2>2, <2>4 DEF TypeOK, q0
      <3>2. /\ cur' \in [Lanes -> Calls \union {None}]
            /\ thread' \in [Lanes -> {"none", "get", "wait", "woken", "handle",
                                      "respond", "dead"}]
        BY <1>1, <1>7, <2>2, <2>4 DEF TypeOK, q0
      <3>3. TypeOK'
        BY <1>1, <1>3, <3>1, <3>2 DEF TypeOK
      <3> QED
        BY <2>3, <2>4, <3>3 DEF IInv, CountInv, q1
    <2>7. ASSUME NEW i \in 1..Len(q1.items)
          PROVE  /\ q1.items[i] \in Calls /\ Seen(q1.items[i])
                 /\ Lane(q1.items[i]) = l /\ runs[q1.items[i]] = 0
                 /\ Before(cur'[l], q1.items[i])
                 /\ \A s \in Calls :
                       runs[s] = 1 /\ Lane(s) = l => Before(s, q1.items[i])
      BY <1>6, <2>4, <2>5 DEF q0
    <2>8. ASSUME NEW i \in 1..Len(q1.items), NEW j \in 1..Len(q1.items), i < j
          PROVE  Before(q1.items[i], q1.items[j])
      <3>1. i + 1 < j + 1
        BY <2>1, <2>4, <2>8
      <3> QED
        BY <1>6, <2>4, <2>5, <3>1 DEF q0
    <2>9. QueueInv'
      <3> SUFFICES ASSUME NEW k \in Lanes, NEW i \in 1..Len(queue'[k].items)
                   PROVE  LET x == queue'[k].items[i] IN
                          /\ Lane(x) = k /\ Seen(x) /\ runs[x] = 0 /\ x \in Calls
                          /\ \A j \in 1..Len(queue'[k].items) :
                                /\ queue'[k].items[j] \in Calls
                                /\ i < j => Before(x, queue'[k].items[j])
                          /\ \A s \in Calls : runs[s] = 1 /\ Lane(s) = k => Before(s, x)
        BY <1>2, <1>3 DEF QueueInv, Seen, Before
      <3>1. CASE k = l
        BY <2>7, <2>8, <3>1 DEF q1
      <3>2. CASE k # l
        BY <1>6, <2>3, <3>2
      <3> QED
        BY <3>1, <3>2
    <2>10. HandleInv'
      <3> SUFFICES ASSUME NEW k \in Lanes
                   PROVE  /\ thread'[k] \in {"handle", "respond"} => cur'[k] \in Calls
                          /\ thread'[k] = "handle" =>
                                /\ Lane(cur'[k]) = k /\ Seen(cur'[k])
                                /\ runs[cur'[k]] = 0
                                /\ \A i \in 1..Len(queue'[k].items) :
                                      /\ queue'[k].items[i] \in Calls
                                      /\ Before(cur'[k], queue'[k].items[i])
                                /\ \A s \in Calls : runs[s] = 1 /\ Lane(s) = k
                                      => Before(s, cur'[k])
                          /\ thread'[k] = "respond" => runs[cur'[k]] = 1
        BY <1>2, <1>3 DEF HandleInv, Seen, Before
      <3>1. CASE k = l
        BY <1>6, <2>2, <2>4, <2>7, <3>1 DEF q0, q1
      <3>2. CASE k # l
        BY <1>6, <2>3, <3>2 DEF IInv, HandleInv
      <3> QED
        BY <3>1, <3>2
    <2>11. NoLostWakeup'
      BY <1>3, <2>2, <2>3 DEF IInv, NoLostWakeup
    <2> QED
      BY <1>4, <1>5, <2>6, <2>9, <2>10, <2>11 DEF IInv
  <1>8. CASE /\ queue[l].items = <<>>
             /\ thread' = [thread EXCEPT ![l] = IF @ = "get" THEN "wait" ELSE "get"]
             /\ UNCHANGED <<queue, cur>>
    <2>1. \A k \in Lanes : thread'[k] \in {"handle", "respond"} => thread'[k] = thread[k]
      BY <1>1, <1>8 DEF TypeOK
    <2>2. TypeOK' /\ CountInv'
      BY <1>1, <1>3, <1>8 DEF TypeOK, IInv, CountInv
    <2>3. QueueInv'
      BY <1>2, <1>3, <1>6, <1>8 DEF QueueInv, Seen, Before
    <2>4. HandleInv'
      BY <1>2, <1>3, <1>6, <1>8, <2>1 DEF IInv, HandleInv, Seen, Before
    <2>5. NoLostWakeup'
      BY <1>1, <1>3, <1>8 DEF TypeOK, IInv, NoLostWakeup
    <2> QED
      BY <1>4, <1>5, <2>2, <2>3, <2>4, <2>5 DEF IInv
  <1> QED
    BY <1>7, <1>8 DEF Dequeue

\* A request runs: it is after all that have and before all that are queued.
LEMMA HandleStep ==
    ASSUME IInv, UNCHANGED setup, NEW l \in Lanes, Handle(l)
    PROVE  /\ IInv'
           /\ cur[l] \in Calls /\ runs[cur[l]] = 0 /\ seq[cur[l]] > 0
           /\ runs' = [runs EXCEPT ![cur[l]] = 1]
  <1> USE DEF answers, client, requests
  <1> DEFINE r == cur[l]
  <1>1. TypeOK
    BY DEF IInv
  <1>2. Owner' = Owner /\ NoReply' = NoReply /\ \A q \in Calls : Lane(q)' = Lane(q)
    BY SetupFixed
  <1>3. UNCHANGED <<setup, client, requests, answers, server, ear, queue, cur>>
    BY DEF Handle
  <1>4. /\ r \in Calls /\ Lane(r) = l /\ Seen(r) /\ runs[r] = 0 /\ seq[r] > 0
        /\ \A i \in 1..Len(queue[l].items) : Before(r, queue[l].items[i])
    BY DEF IInv, HandleInv, Handle, Seen
  <1>5. /\ runs' = [runs EXCEPT ![r] = 1]
        /\ thread'[l] \in {"get", "respond"}
        /\ \A k \in Lanes : k # l => thread'[k] = thread[k]
        /\ thread' \in [Lanes -> {"none", "get", "wait", "woken", "handle",
                                  "respond", "dead"}]
    BY <1>1, <1>4 DEF TypeOK, Handle
  <1>6. \A k \in Lanes : \A i \in 1..Len(queue[k].items) :
            /\ queue[k].items[i] \in Calls /\ Seen(queue[k].items[i])
            /\ Lane(queue[k].items[i]) = k /\ runs[queue[k].items[i]] = 0
            /\ \A j \in 1..Len(queue[k].items) :
                  i < j => Before(queue[k].items[i], queue[k].items[j])
            /\ \A s \in Calls : runs[s] = 1 /\ Lane(s) = k
                  => Before(s, queue[k].items[i])
    BY <1>1, QueueFacts DEF IInv, QueueInv
  <1> HIDE DEF r
  <1>7. \A q \in Calls : Before(r, q) /\ q = r => FALSE
    BY <1>1 DEF Before, TypeOK
  <1>8. /\ \A q \in Calls : q # r => runs'[q] = runs[q]
        /\ runs'[r] = 1 /\ runs' \in [Calls -> 0..1]
    BY <1>1, <1>4, <1>5 DEF TypeOK
  <1>9. TypeOK' /\ CountInv' /\ NumberInv'
    <2>1. TypeOK' /\ CountInv'
      BY <1>1, <1>3, <1>5, <1>8 DEF TypeOK, IInv, CountInv
    <2> QED
      BY <1>2, <1>3, <1>4, <1>8, <2>1 DEF IInv, NumberInv, Seen
  <1>10. QueueInv'
    <2> SUFFICES ASSUME NEW k \in Lanes, NEW i \in 1..Len(queue[k].items)
                 PROVE  LET x == queue[k].items[i] IN
                        /\ Lane(x) = k /\ Seen(x) /\ runs'[x] = 0 /\ x \in Calls
                        /\ \A j \in 1..Len(queue[k].items) :
                              /\ queue[k].items[j] \in Calls
                              /\ i < j => Before(x, queue[k].items[j])
                        /\ \A s \in Calls : runs'[s] = 1 /\ Lane(s) = k => Before(s, x)
      BY <1>2, <1>3 DEF QueueInv, Seen, Before
    <2>1. Lane(r) = k => k = l /\ Before(r, queue[k].items[i])
      BY <1>4
    <2>2. queue[k].items[i] # r
      BY <1>4, <1>6, <1>7, <2>1
    <2> QED
      BY <1>6, <1>8, <2>1, <2>2
  <1>11. HandleInv'
    <2> SUFFICES ASSUME NEW k \in Lanes
                 PROVE  /\ thread'[k] \in {"handle", "respond"} => cur[k] \in Calls
                        /\ thread'[k] = "handle" =>
                              /\ Lane(cur[k]) = k /\ Seen(cur[k])
                              /\ runs'[cur[k]] = 0
                              /\ \A i \in 1..Len(queue[k].items) :
                                    /\ queue[k].items[i] \in Calls
                                    /\ Before(cur[k], queue[k].items[i])
                              /\ \A s \in Calls : runs'[s] = 1 /\ Lane(s) = k
                                    => Before(s, cur[k])
                        /\ thread'[k] = "respond" => runs'[cur[k]] = 1
      BY <1>2, <1>3 DEF HandleInv, Seen, Before
    <2>1. CASE k = l
      BY <1>4, <1>5, <1>8, <2>1 DEF r
    <2>2. CASE k # l
      <3>1. thread[k] = "handle" => cur[k] # r
        BY <1>4, <2>2 DEF IInv, HandleInv
      <3>2. thread[k] = "respond" => runs'[cur[k]] = 1
        BY <1>4, <1>8 DEF IInv, HandleInv
      <3> QED
        BY <1>4, <1>5, <1>6, <1>8, <2>2, <3>1, <3>2 DEF IInv, HandleInv
    <2> QED
      BY <2>1, <2>2
  <1>12. FutureInv' /\ AnswerCanReachCaller' /\ OnlyFailedCallsLeak'
    <2>1. \A q \in Calls : runs[q] = 1 => runs'[q] = 1
      BY <1>8
    <2>2. FutureInv'
      BY <1>1, <1>2, <1>3, <2>1 DEF TypeOK, IInv, FutureInv
    <2> QED
      BY <1>2, <1>3, <2>2 DEF IInv, AnswerCanReachCaller, OnlyFailedCallsLeak
  <1>13. NoLostWakeup'
    BY <1>3, <1>5 DEF IInv, NoLostWakeup
  <1> QED
    BY <1>4, <1>5, <1>9, <1>10, <1>11, <1>12, <1>13 DEF IInv, r

\* Its answer is written, or not.
LEMMA RespondStep ==
    ASSUME IInv, UNCHANGED setup, NEW l \in Lanes, Respond(l)
    PROVE  IInv'
  <1> USE DEF client, requests
  <1>1. TypeOK
    BY DEF IInv
  <1>2. Owner' = Owner /\ NoReply' = NoReply /\ \A q \in Calls : Lane(q)' = Lane(q)
    BY SetupFixed
  <1>3. UNCHANGED <<setup, client, requests, heard, hold, server, ear, queue, cur, runs>>
    BY DEF Respond
  <1>4. cur[l] \in Calls /\ runs[cur[l]] = 1 /\ Owner[cur[l]] \in Clients
    BY <1>1, SetupFacts DEF IInv, HandleInv, Respond
  <1>5. /\ rseq' \in [Calls -> Nat] /\ answered' \in [Clients -> Nat]
        /\ \A q \in Calls : q # cur[l] => rseq'[q] = rseq[q]
        /\ thread' \in [Lanes -> {"none", "get", "wait", "woken", "handle",
                                  "respond", "dead"}]
        /\ \A k \in Lanes : thread'[k] = thread[k] \/ thread'[k] \in {"get", "dead"}
    BY <1>1, <1>4 DEF TypeOK, Respond
  <1>6. TypeOK' /\ CountInv' /\ NumberInv'
    <2>1. TypeOK' /\ CountInv'
      BY <1>1, <1>3, <1>5 DEF TypeOK, IInv, CountInv
    <2> QED
      BY <1>2, <1>3, <2>1 DEF IInv, NumberInv, Seen
  <1>7. QueueInv'
    BY SMTT(40), <1>1, <1>2, <1>3, QueueFacts DEF IInv, QueueInv, Seen, Before
  <1>8. HandleInv'
    BY <1>1, <1>2, <1>3, <1>5, QueueFacts DEF IInv, HandleInv, Seen, Before
  <1>9. FutureInv' /\ AnswerCanReachCaller'
    <2>1. FutureInv'
      BY <1>2, <1>3, <1>4, <1>5 DEF IInv, FutureInv
    <2> QED
      BY <1>2, <1>3, <2>1 DEF IInv, AnswerCanReachCaller
  <1>10. NoLostWakeup' /\ OnlyFailedCallsLeak'
    BY <1>3, <1>5 DEF IInv, NoLostWakeup, OnlyFailedCallsLeak
  <1> QED
    BY <1>6, <1>7, <1>8, <1>9, <1>10 DEF IInv

-----------------------------------------------------------------------------
\* Every step keeps the invariant.
LEMMA NextInv == IInv /\ Next /\ UNCHANGED setup => IInv'
  <1> SUFFICES ASSUME IInv, Next, UNCHANGED setup PROVE IInv'
    OBVIOUS
  <1>1. ASSUME NEW r \in Calls, Caller(r) \/ Receive(r) \/ Enqueue(r) PROVE IInv'
    BY <1>1, CallerStep, ReceiveStep, EnqueueStep
  <1>2. ASSUME NEW c \in Clients, MakeReady(c) PROVE IInv'
    BY <1>2, MakeReadyStep
  <1>3. ASSUME NEW k \in Lanes, QueueThread(k) PROVE IInv'
    BY <1>3, DequeueStep, HandleStep, RespondStep DEF QueueThread
  <1> QED
    BY <1>1, <1>2, <1>3, StartStep DEF Next

\* The invariant survives steps in which nothing here changes.
LEMMA StutterInv == IInv /\ UNCHANGED <<setup, vars>> => IInv'
  <1> SUFFICES ASSUME IInv, UNCHANGED <<setup, vars>> PROVE IInv'
    OBVIOUS
  <1> USE DEF vars, client, requests, answers, service
  <1>1. Owner' = Owner /\ NoReply' = NoReply /\ \A q \in Calls : Lane(q)' = Lane(q)
    BY SetupFixed
  <1>2. TypeOK' /\ CountInv'
    BY DEF IInv, TypeOK, CountInv
  <1>3. NumberInv' /\ QueueInv' /\ HandleInv'
    BY <1>1, QueueFacts DEF IInv, NumberInv, QueueInv, HandleInv, Seen, Before
  <1>4. FutureInv' /\ AnswerCanReachCaller' /\ NoLostWakeup' /\ OnlyFailedCallsLeak'
    BY <1>1 DEF IInv, FutureInv, AnswerCanReachCaller, NoLostWakeup,
                OnlyFailedCallsLeak
  <1> QED
    BY <1>2, <1>3, <1>4 DEF IInv

\* Rpc keeps its inductive invariant.
THEOREM Invariance == Spec => []IInv
  BY InitInv, NextInv, StutterInv, PTL DEF Spec

\* Types of the stubs, futures, queues and channels.
THEOREM TypeCorrect == Spec => []TypeOK
  <1>1. IInv => TypeOK
    BY DEF IInv
  <1> QED
    BY <1>1, Invariance, PTL

\* Until it is answered, a call in progress can be: SendRequest files the future
\* before it writes the request.
THEOREM AnswersReachCallers == Spec => []AnswerCanReachCaller
  <1>1. IInv => AnswerCanReachCaller
    BY DEF IInv
  <1> QED
    BY <1>1, Invariance, PTL

\* No caller waits beside a READY future, no queue thread beside a request.
THEOREM NobodyOversleeps == Spec => []NoLostWakeup
  <1>1. IInv => NoLostWakeup
    BY DEF IInv
  <1> QED
    BY <1>1, Invariance, PTL

\* Only futures of calls that failed stay in the table.
THEOREM LeakIsOfFailedCalls == Spec => []OnlyFailedCallsLeak
  <1>1. IInv => OnlyFailedCallsLeak
    BY DEF IInv
  <1> QED
    BY <1>1, Invariance, PTL

\* Requests of one client in one queue run in the order they were written.
THEOREM RunsInOrder == Spec => FifoExecution
  <1>1. ASSUME IInv, [Next /\ UNCHANGED setup]_<<setup, vars>>,
               NEW r \in Calls, NEW s \in Calls,
               Owner[r] = Owner[s], Lane(r) = Lane(s), seq[r] # 0,
               seq[r] < seq[s], runs[s] > 0
        PROVE  runs'[r] = runs[r]
    <2>0. TypeOK
      BY <1>1 DEF IInv
    <2>1. runs[s] = 1 /\ seq[r] \in Nat /\ seq[s] \in Nat
      BY <1>1, <2>0 DEF TypeOK
    <2>2. ASSUME NEW k \in Lanes, Handle(k), UNCHANGED setup PROVE runs'[r] = runs[r]
      <3>1. cur[k] # r
        BY <1>1, <2>1, <2>2 DEF IInv, HandleInv, Handle, Before
      <3> QED
        BY <1>1, <2>0, <2>2, <3>1, HandleStep DEF TypeOK
    <2>3. CASE UNCHANGED vars
      BY <2>3 DEF vars, service
    <2>4. ASSUME Next, \A k \in Lanes : ~Handle(k) PROVE runs' = runs
      BY <2>4 DEF Next, Caller, Register, WriteRequest, WriteFails, GetResult,
         Expire, ReturnTimeout, ReturnAnswer, Receive, Enqueue, MakeReady,
         Start, OpenChannel, StartQueue, StartPrioQueue, QueueThread, Dequeue,
         Respond, service
    <2> QED
      BY <1>1, <2>2, <2>3, <2>4
  <1>2. IInv /\ [Next /\ UNCHANGED setup]_<<setup, vars>>
          => [\A r, s \in Calls :
                (/\ Owner[r] = Owner[s] /\ Lane(r) = Lane(s)
                 /\ seq[r] # 0 /\ seq[r] < seq[s]
                 /\ runs[s] > 0) => runs'[r] = runs[r]]_vars
    BY <1>1
  <1> QED
    BY <1>2, Invariance, PTL DEF Spec, FifoExecution

-----------------------------------------------------------------------------
(* Rpc implements RpcAbstract.                                             *)

AbstractStatus == [r \in Calls |-> Status(r)]

\* A step of the calling thread begins, ends or continues one call.
LEMMA CallerImplements ==
    ASSUME IInv, UNCHANGED setup, NEW r \in Calls, Caller(r)
    PROVE  \/ Abstract!Begin(r) \/ Abstract!Succeed(r) \/ Abstract!Fail(r)
           \/ UNCHANGED <<AbstractStatus, runs>>
  <1>1. TypeOK /\ runs' = runs
    BY DEF IInv, Caller, Register, WriteRequest, WriteFails, GetResult, Expire,
           ReturnTimeout, ReturnAnswer, service
  <1>2. ASSUME NEW q \in Calls, q # r PROVE Status(q)' = Status(q)
    <2>1. pc'[q] = pc[q] /\ result'[q] = result[q]
      BY <1>1, <1>2 DEF TypeOK, Caller, Register, WriteRequest, WriteFails,
         GetResult, Expire, ReturnTimeout, ReturnAnswer, Return
    <2> QED
      BY <2>1 DEF Status
  <1>3. ASSUME NEW v, Status(r)' = v
        PROVE  AbstractStatus' = [AbstractStatus EXCEPT ![r] = v]
    BY <1>2, <1>3 DEF AbstractStatus
  <1>4. CASE Register(r)
    <2>1. Status(r) = "idle" /\ Status(r)' = "pending"
      BY <1>1, <1>4 DEF Register, Status, TypeOK
    <2> QED
      BY <1>1, <1>3, <2>1 DEF Abstract!Begin, AbstractStatus
  <1>5. CASE /\ pc[r] \notin {"idle", "done"} /\ pc'[r] = "done"
             /\ result'[r] = "ok" /\ (r \in NoReply \/ runs[r] = 1)
    <2>1. Status(r) = "pending" /\ Status(r)' = "ok"
      BY <1>5 DEF Status
    <2> QED
      BY <1>1, <1>3, <1>5, <2>1 DEF Abstract!Succeed, AbstractStatus
  <1>6. CASE /\ pc[r] \notin {"idle", "done"} /\ pc'[r] = "done"
             /\ result'[r] \in {"timeout", "senderr"}
    <2>1. Status(r) = "pending" /\ Status(r)' = "failed"
      BY <1>6 DEF Status
    <2> QED
      BY <1>1, <1>3, <2>1 DEF Abstract!Fail, AbstractStatus
  <1>7. CASE pc[r] \notin {"idle", "done"} /\ pc'[r] \notin {"idle", "done"}
    <2>1. Status(r)' = Status(r)
      BY <1>7 DEF Status
    <2> QED
      BY <1>1, <1>2, <2>1 DEF AbstractStatus
  <1>8. ~Register(r) =>
           /\ pc[r] \notin {"idle", "done"} /\ pc'[r] # "idle"
           /\ pc'[r] = "done" => \/ result'[r] = "ok" /\ (r \in NoReply \/ runs[r] = 1)
                                 \/ result'[r] \in {"timeout", "senderr"}
    BY <1>1 DEF TypeOK, IInv, FutureInv, Caller, WriteRequest, WriteFails,
       GetResult, Expire, ReturnTimeout, ReturnAnswer, Return
  <1> QED
    BY <1>4, <1>5, <1>6, <1>7, <1>8

\* Steps of the response handler and of the server leave what callers know.
LEMMA OthersImplement ==
    ASSUME IInv,
           \/ \E r \in Calls : Receive(r) \/ Enqueue(r)
           \/ \E c \in Clients : MakeReady(c)
           \/ Start
           \/ \E k \in Lanes : QueueThread(k)
    PROVE  UNCHANGED AbstractStatus
  <1>1. TypeOK /\ None \notin Calls
    BY RpcAssumption DEF IInv
  <1>2. ASSUME NEW c \in Clients, MakeReady(c)
        PROVE  \A q \in Calls : Status(q)' = Status(q)
    <2>1. hold[c] \in Calls /\ result' = result
      BY <1>1, <1>2 DEF MakeReady, TypeOK
    <2>2. \A q \in Calls : \/ pc'[q] = pc[q]
                           \/ pc[q] = "waiting" /\ pc'[q] = "woken"
      BY <1>1, <1>2, <2>1 DEF MakeReady, TypeOK
    <2> QED
      BY <2>1, <2>2 DEF Status
  <1>3. CASE UNCHANGED <<pc, result>>
    BY <1>3 DEF AbstractStatus, Status
  <1>4. (\E c \in Clients : MakeReady(c)) \/ UNCHANGED <<pc, result>>
    BY DEF Receive, Enqueue, Start, OpenChannel, StartQueue, StartPrioQueue,
           QueueThread, Dequeue, Handle, Respond, client
  <1> QED
    BY <1>2, <1>3, <1>4 DEF AbstractStatus

\* The handler runs a call that was begun and has not run.
LEMMA HandleImplements ==
    ASSUME IInv, UNCHANGED setup, NEW k \in Lanes, Handle(k)
    PROVE  Abstract!Run(cur[k])
  <1>1. /\ cur[k] \in Calls /\ runs[cur[k]] = 0 /\ seq[cur[k]] > 0
        /\ runs' = [runs EXCEPT ![cur[k]] = 1]
    BY HandleStep
  <1>2. pc[cur[k]] # "idle"
    BY <1>1 DEF IInv, NumberInv
  <1>3. Status(cur[k]) # "idle"
    BY <1>2 DEF Status
  <1>4. UNCHANGED AbstractStatus
    BY OthersImplement DEF QueueThread
  <1> QED
    BY <1>1, <1>3, <1>4 DEF Abstract!Run, AbstractStatus

\* Every step is a step of the abstract call, or none.
LEMMA StepImplements ==
    IInv /\ [Next /\ UNCHANGED setup]_<<setup, vars>>
      => [Abstract!Next /\ UNCHANGED NoReply]_<<NoReply, <<AbstractStatus, runs>>>>
  <1> SUFFICES ASSUME IInv, Next, UNCHANGED setup
               PROVE  \/ Abstract!Next /\ UNCHANGED NoReply
                      \/ UNCHANGED <<NoReply, <<AbstractStatus, runs>>>>
    <2>1. UNCHANGED <<setup, vars>>
             => UNCHANGED <<NoReply, <<AbstractStatus, runs>>>>
      BY DEF vars, client, service, NoReply, AbstractStatus, Status
    <2> QED
      BY <2>1
  <1>1. UNCHANGED NoReply
    BY SetupFixed
  <1>2. ASSUME NEW r \in Calls, Caller(r)
        PROVE  Abstract!Next \/ UNCHANGED <<AbstractStatus, runs>>
    BY <1>2, CallerImplements DEF Abstract!Next
  <1>3. ASSUME NEW k \in Lanes, Handle(k) PROVE Abstract!Next
    <2>1. cur[k] \in Calls
      BY <1>3, HandleStep
    <2> QED
      BY <1>3, <2>1, HandleImplements DEF Abstract!Next
  <1>4. ASSUME \A r \in Calls : ~Caller(r), \A k \in Lanes : ~Handle(k)
        PROVE  UNCHANGED <<AbstractStatus, runs>>
    <2>1. runs' = runs
      BY <1>4 DEF Next, Receive, Enqueue, MakeReady, Start, OpenChannel,
         StartQueue, StartPrioQueue, QueueThread, Dequeue, Respond, service
    <2> QED
      BY <1>4, <2>1, OthersImplement DEF Next
  <1> QED
    BY <1>1, <1>2, <1>3, <1>4

\* The stubs, futures and queues implement RpcAbstract: a call runs at most once,
\* and one that returned success has run, unless it asked for no reply.
THEOREM ImplementsCalls == Spec => AbstractSpec
  <1>1. Init => Abstract!Init
    <2> SUFFICES ASSUME Init PROVE Abstract!Init
      OBVIOUS
    <2>1. NoReply \subseteq Calls
      BY RpcAssumption DEF Init, NoReply
    <2>2. \A r \in Calls : Status(r) = "idle"
      BY DEF Init, Status
    <2> QED
      BY <2>1, <2>2 DEF Init, Abstract!Init
  <1> QED
    BY <1>1, StepImplements, Invariance, PTL
    DEF Spec, AbstractSpec, Abstract!Spec, Abstract!vars, AbstractStatus

=============================================================================

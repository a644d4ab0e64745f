-------------------------------- MODULE Rpc --------------------------------
(***************************************************************************)
(* Remote calls over two channels: ClientBase, ClientStub and              *)
(* RequestFutureQueue on one side, ServerStub and Server on the other.     *)
(*                                                                         *)
(* Every call has a thread of its own on its client.  The two channels are *)
(* taken at the contract SampleStream states and ChannelReader implements: *)
(* what one writer writes is numbered, and the reader's handler is called  *)
(* with increasing numbers, skipping what was lost.                        *)
(***************************************************************************)
EXTENDS BQueue

CONSTANTS Clients,   \* processes that hold a ClientStub
          Calls,     \* request identities; each is used once (monotonic_ns)
          Setups,    \* configurations to begin with: see setup
          None

ASSUME RpcAssumption ==
    /\ None \notin Calls
    /\ \A s \in Setups :
         /\ s.owner \in [Calls -> Clients]
         /\ s.noReply \subseteq Calls /\ s.badReply \subseteq Calls
         /\ s.prio \subseteq Calls /\ s.enablePrio \in BOOLEAN
         /\ s.queueMax \in Nat \ {0} /\ s.prioMax \in Nat \ {0}

VARIABLES
    setup,    \* chosen at first: what the operators below name
    pc,       \* where the thread of a call is
    result,   \* what the call returned
    table,    \* requests whose future is in a RequestFutureQueue
    ready,    \* requests whose future is READY
    seq,      \* number of a request in its client's stream (0: not written)
    wrote,    \* per client: requests written
    taken,    \* per client: newest request the server's handler has seen
    rseq,     \* number of a response in the stream to its client (0: none)
    answered, \* per client: responses written
    heard,    \* per client: newest response the client's handler has seen
    hold,     \* per client: future popped by the handler, not made ready yet
    server,   \* progress of ServerStub.Init
    ear,      \* the server's ch_reader thread: "alive" or "dead"
    queue,    \* the server's two BQueues
    thread,   \* program counters of its two queue threads
    cur,      \* the request each queue thread works on
    runs      \* how many times each request was handled

client   == <<pc, result, table, ready>>
requests == <<seq, wrote, taken>>
answers  == <<rseq, answered, heard, hold>>
service  == <<server, ear, queue, thread, cur, runs>>
vars     == <<client, requests, answers, service>>

Owner      == setup.owner     \* the client that makes a call
NoReply    == setup.noReply   \* calls made through _CallNoReplyBase
BadReply   == setup.badReply  \* calls whose handler's result has no encoding
Prio       == setup.prio      \* calls whose API has a priority > 0
EnablePrio == setup.enablePrio \* enablePrioQueue given to Server.Start
\* The queues' lengths, 10 and 5 in the code
MaxLen(k)  == IF k = "prio" THEN setup.prioMax ELSE setup.queueMax

Lanes   == {"normal", "prio"}
Lane(r) == IF EnablePrio /\ r \in Prio THEN "prio" ELSE "normal"
Elements(q) == {q.items[i] : i \in 1..Len(q.items)}

Init ==
    /\ setup \in Setups
    /\ pc = [r \in Calls |-> "idle"]
    /\ result = [r \in Calls |-> "none"]
    /\ table = {} /\ ready = {}
    /\ seq = [r \in Calls |-> 0]
    /\ wrote = [c \in Clients |-> 0]
    /\ taken = [c \in Clients |-> 0]
    /\ rseq = [r \in Calls |-> 0]
    /\ answered = [c \in Clients |-> 0]
    /\ heard = [c \in Clients |-> 0]
    /\ hold = [c \in Clients |-> None]
    /\ server = "off" /\ ear = "alive"
    /\ queue = [k \in Lanes |-> EmptyQueue]
    /\ thread = [k \in Lanes |-> "none"]
    /\ cur = [k \in Lanes |-> None]
    /\ runs = [r \in Calls |-> 0]

-----------------------------------------------------------------------------
(* Faulty variants of the operations below.  No specification uses them.   *)

\* Get looks the future up and pops it, but the handler loses it.
ReceiveLosesFuture(r) ==
    LET c == Owner[r] IN
    /\ hold[c] = None
    /\ rseq[r] > heard[c]
    /\ heard' = [heard EXCEPT ![c] = rseq[r]]
    /\ table' = table \ {r}
    /\ UNCHANGED <<pc, result, ready, requests, rseq, answered, hold, service>>

\* get for pop: the answered future stays in the table.
ReceiveKeepsFuture(r) ==
    LET c == Owner[r] IN
    /\ hold[c] = None
    /\ rseq[r] > heard[c]
    /\ heard' = [heard EXCEPT ![c] = rseq[r]]
    /\ hold' = [hold EXCEPT ![c] = IF r \in table THEN r ELSE None]
    /\ UNCHANGED <<client, requests, rseq, answered, service>>

\* Ready without notify.
MakeReadySilently(c) ==
    /\ hold[c] # None
    /\ ready' = ready \union {hold[c]}
    /\ hold' = [hold EXCEPT ![c] = None]
    /\ UNCHANGED <<pc, result, table, requests, rseq, answered, heard, service>>

\* GetResult(None): no time limit.
ExpireNever(r) == pc[r] = "waiting" /\ r \in ready /\ UNCHANGED vars

\* The response is sent before the handler has run, which then never does.
HandleAnswersFirst(k) ==
    /\ thread[k] = "handle"
    /\ thread' = [thread EXCEPT ![k] = "respond"]
    /\ UNCHANGED <<client, requests, answers, server, ear, queue, cur, runs>>

-----------------------------------------------------------------------------
(* The calling thread.                                                     *)

Return(r, value) ==
    /\ result' = [result EXCEPT ![r] = value]
    /\ pc' = [pc EXCEPT ![r] = "done"]

\* SendRequest puts the future in the table before it writes; a call without
\* reply has no future.
Register(r) ==
    /\ pc[r] = "idle"
    /\ pc' = [pc EXCEPT ![r] = "registered"]
    /\ table' = IF r \in NoReply THEN table ELSE table \union {r}
    /\ UNCHANGED <<result, ready, requests, answers, service>>

\* Write succeeds once a server's reader has been matched.
WriteRequest(r) ==
    /\ pc[r] = "registered"
    /\ server # "off"
    /\ wrote' = [wrote EXCEPT ![Owner[r]] = @ + 1]
    /\ seq' = [seq EXCEPT ![r] = wrote'[Owner[r]]]
    /\ \/ r \in NoReply /\ Return(r, "ok")
       \/ /\ r \notin NoReply
          /\ pc' = [pc EXCEPT ![r] = "written"]
          /\ UNCHANGED result
    /\ UNCHANGED <<table, ready, taken, answers, service>>

\* Write gives up waiting for a match, or DDS refuses.  Remove looks for the
\* builtin id and leaves the future where it is (request_future.py:45).
WriteFails(r) ==
    /\ pc[r] = "registered"
    /\ Return(r, "senderr")
    /\ UNCHANGED <<table, ready, requests, answers, service>>

\* GetResult takes the future's lock: the answer is there, or wait for it.
GetResult(r) ==
    /\ pc[r] = "written"
    /\ \/ r \in ready /\ Return(r, "ok")
       \/ /\ r \notin ready
          /\ pc' = [pc EXCEPT ![r] = "waiting"]
          /\ UNCHANGED result
    /\ UNCHANGED <<table, ready, requests, answers, service>>

\* The wait times out; the lock of the future is still to be taken again.
Expire(r) ==
    /\ pc[r] = "waiting"
    /\ pc' = [pc EXCEPT ![r] = "expired"]
    /\ UNCHANGED <<result, table, ready, requests, answers, service>>

\* wait() returned False: a timeout, even if the answer came meanwhile.
\* RemoveFuture has no effect, as in WriteFails.
ReturnTimeout(r) ==
    /\ pc[r] = "expired"
    /\ Return(r, "timeout")
    /\ UNCHANGED <<table, ready, requests, answers, service>>

\* wait() returned True: the state is READY.
ReturnAnswer(r) ==
    /\ pc[r] = "woken"
    /\ Return(r, "ok")
    /\ UNCHANGED <<table, ready, requests, answers, service>>

-----------------------------------------------------------------------------
(* The client's ch_reader thread: ClientStub.__ResponseHandler.            *)

\* Get pops the future; an answer nobody waits for is ignored.
Receive(r) ==
    LET c == Owner[r] IN
    /\ hold[c] = None
    /\ rseq[r] > heard[c]
    /\ heard' = [heard EXCEPT ![c] = rseq[r]]
    /\ hold' = [hold EXCEPT ![c] = IF r \in table THEN r ELSE None]
    /\ table' = table \ {r}
    /\ UNCHANGED <<pc, result, ready, requests, rseq, answered, service>>

\* Ready, under the future's lock, wakes the caller if it is waiting.
MakeReady(c) ==
    /\ hold[c] # None
    /\ ready' = ready \union {hold[c]}
    /\ pc' = [pc EXCEPT ![hold[c]] = IF @ = "waiting" THEN "woken" ELSE @]
    /\ hold' = [hold EXCEPT ![c] = None]
    /\ UNCHANGED <<result, table, requests, rseq, answered, heard, service>>

-----------------------------------------------------------------------------
(* The server.                                                             *)

\* ServerStub.Init opens the request channel before the queues exist.
OpenChannel ==
    /\ server = "off"
    /\ server' = "open"
    /\ UNCHANGED <<client, requests, answers, ear, queue, thread, cur, runs>>

StartQueue ==
    /\ server = "open"
    /\ server' = IF EnablePrio THEN "half" ELSE "up"
    /\ thread' = [thread EXCEPT !["normal"] = "get"]
    /\ UNCHANGED <<client, requests, answers, ear, queue, cur, runs>>

StartPrioQueue ==
    /\ server = "half"
    /\ server' = "up"
    /\ thread' = [thread EXCEPT !["prio"] = "get"]
    /\ UNCHANGED <<client, requests, answers, ear, queue, cur, runs>>

\* The queue a lane needs has been created.
HasQueue(k) == server = "up" \/ (server = "half" /\ k = "normal")

\* __Enqueue on the ch_reader thread.  Without a queue it raises, and the
\* thread, which has no try, ends.
Enqueue(r) ==
    LET k == Lane(r) IN
    /\ ear = "alive"
    /\ server # "off"
    /\ seq[r] > taken[Owner[r]]
    /\ taken' = [taken EXCEPT ![Owner[r]] = seq[r]]
    /\ \/ /\ HasQueue(k)
          /\ queue' = [queue EXCEPT ![k] = Put(@, r, MaxLen(k), TRUE)]
          /\ thread' = [thread EXCEPT ![k] =
                            IF @ = "wait" /\ PutNotifies(queue[k], MaxLen(k),
                                                         TRUE)
                            THEN "woken" ELSE @]
          /\ UNCHANGED ear
       \/ /\ ~HasQueue(k)
          /\ ear' = "dead"
          /\ UNCHANGED <<queue, thread>>
    /\ UNCHANGED <<client, seq, wrote, answers, server, cur, runs>>

\* Get on lane k, entered or woken: take the oldest request, or wait, or
\* return None to the loop, which calls Get again.
Dequeue(k) ==
    /\ thread[k] \in {"get", "woken"}
    /\ \/ /\ queue[k].items # <<>>
          /\ cur' = [cur EXCEPT ![k] = FirstOf(queue[k])]
          /\ queue' = [queue EXCEPT ![k] = AfterGet(@)]
          /\ thread' = [thread EXCEPT ![k] = "handle"]
       \/ /\ queue[k].items = <<>>
          /\ thread' = [thread EXCEPT ![k] = IF @ = "get" THEN "wait"
                                             ELSE "get"]
          /\ UNCHANGED <<queue, cur>>
    /\ UNCHANGED <<client, requests, answers, server, ear, runs>>

\* __ServerRequestHandler up to the response; a request without reply ends
\* here.
Handle(k) ==
    /\ thread[k] = "handle"
    /\ runs' = [runs EXCEPT ![cur[k]] = @ + 1]
    /\ thread' = [thread EXCEPT ![k] = IF cur[k] \in NoReply THEN "get"
                                       ELSE "respond"]
    /\ UNCHANGED <<client, requests, answers, server, ear, queue, cur>>

\* _SendResponse: written to the client's stream, or not and forgotten.  What
\* cannot be encoded makes Write raise from its own error path (e.args() at
\* channel.py:150), which ends the queue thread.
Respond(k) ==
    LET r == cur[k] IN
    /\ thread[k] = "respond"
    /\ \/ /\ r \notin BadReply
          /\ answered' = [answered EXCEPT ![Owner[r]] = @ + 1]
          /\ rseq' = [rseq EXCEPT ![r] = answered'[Owner[r]]]
          /\ thread' = [thread EXCEPT ![k] = "get"]
       \/ /\ thread' = [thread EXCEPT ![k] = "get"]
          /\ UNCHANGED <<answered, rseq>>
       \/ /\ r \in BadReply
          /\ thread' = [thread EXCEPT ![k] = "dead"]
          /\ UNCHANGED <<answered, rseq>>
    /\ UNCHANGED <<client, requests, heard, hold, server, ear, queue, cur,
                   runs>>

-----------------------------------------------------------------------------
Caller(r) == \/ Register(r) \/ WriteRequest(r) \/ WriteFails(r)
             \/ GetResult(r) \/ Expire(r) \/ ReturnTimeout(r)
             \/ ReturnAnswer(r)

Start == OpenChannel \/ StartQueue \/ StartPrioQueue

QueueThread(k) == Dequeue(k) \/ Handle(k) \/ Respond(k)

Next == \/ \E r \in Calls : Caller(r) \/ Receive(r) \/ Enqueue(r)
        \/ \E c \in Clients : MakeReady(c)
        \/ Start
        \/ \E k \in Lanes : QueueThread(k)

Spec == Init /\ [][Next /\ UNCHANGED setup]_<<setup, vars>>

\* A call that was begun goes on, its wait times out if nothing else ends it,
\* and the threads of the server run.  The channels promise nothing.
FairSpec ==
    /\ Spec
    /\ \A r \in Calls : WF_vars(pc[r] # "idle" /\ Caller(r))
    /\ \A k \in Lanes : WF_vars(QueueThread(k))
-----------------------------------------------------------------------------
(* Properties.                                                             *)

\* Until it is answered, a call in progress can still be: its future is in
\* the table, in the hands of the response handler, or READY.  SendRequest
\* files it before it writes, so that no answer can come too early.
AnswerCanReachCaller ==
    \A r \in Calls \ NoReply :
        pc[r] \in {"registered", "written", "waiting"} =>
            r \in table \/ hold[Owner[r]] = r \/ r \in ready

\* Nobody waits for what is already there: no caller beside a READY future,
\* no queue thread beside a queued request.
NoLostWakeup ==
    /\ \A r \in Calls : pc[r] = "waiting" => r \notin ready
    /\ \A k \in Lanes : thread[k] = "wait" => queue[k].items = <<>>

\* RequestFutureQueue.Remove never removes: what stays in the table are the
\* futures of calls that failed, never those of calls that were answered.
OnlyFailedCallsLeak ==
    \A r \in table : pc[r] = "done" => result[r] \in {"timeout", "senderr"}

\* The requests of one client that share a queue run in the order in which
\* they were written: once a later one ran, an earlier one never will.
FifoExecution ==
    [][\A r, s \in Calls :
          (/\ Owner[r] = Owner[s] /\ Lane(r) = Lane(s)
           /\ seq[r] # 0 /\ seq[r] < seq[s]
           /\ runs[s] > 0) => runs'[r] = runs[r]]_vars

\* Every call returns: the wait for the answer has a time limit.
CallReturns == \A r \in Calls : pc[r] # "idle" ~> pc[r] = "done"

\* What the calling code may rely on.
Status(r) == CASE pc[r] = "idle" -> "idle"
               [] pc[r] = "done" -> IF result[r] = "ok" THEN "ok" ELSE "failed"
               [] OTHER -> "pending"

Abstract == INSTANCE RpcAbstract
                WITH status <- [r \in Calls |-> Status(r)], noReply <- NoReply

\* The stubs, futures and queues implement RpcAbstract: no request is handled
\* twice, and a call that returned success has run, whatever timeouts, losses
\* and late answers came before.
AbstractSpec == Abstract!Spec
=============================================================================

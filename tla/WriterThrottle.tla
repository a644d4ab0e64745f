--------------------------- MODULE WriterThrottle ---------------------------
(***************************************************************************)
(* One reliable writer of Cyclone DDS between its application, its readers *)
(* and the garbage collector: writes that block while the history cache is *)
(* too full (throttle_writer), waiting for acknowledgements, and deletion, *)
(* which lingers until everything is acknowledged or a time is over.       *)
(*                                                                         *)
(* Samples are counted, not kept; one sample is one unit of unacked_bytes. *)
(* The writer's lock is held within an action, never across two; waiting   *)
(* for throttle_cond releases it and "woken" holds those it was signalled  *)
(* for.  The entity's mutex (m_mutex) is held across actions.              *)
(***************************************************************************)
EXTENDS Integers, FiniteSets, Sequences

CONSTANTS
    Writers,     \* application threads that call dds_write
    Waiters,     \* application threads that call dds_wait_for_acks
    Readers,     \* remote readers that are known, most of them matched
    Deleter,     \* the application thread that calls dds_delete
    Receiver,    \* the thread that handles acknowledgements
    Discovery,   \* the thread that learns of readers that are gone
    Events,      \* the event queue's thread, for the linger time
    Settings,    \* configurations: see conf
    MaxSeq,      \* bound: writes begin only below this sequence number
    None

Threads  == Writers \union Waiters \union {Deleter, Receiver, Discovery, Events}
Infinity == MaxSeq + Cardinality(Writers) + 1  \* MAX_SEQ_NUMBER

ASSUME ThrottleAssumption ==
    /\ \A s \in Settings : /\ s.low \in Nat /\ s.high \in Nat /\ s.low <= s.high
                           /\ {s.bounded, s.responsive, s.waits} \subseteq BOOLEAN
                           /\ s.readers \subseteq Readers
    /\ MaxSeq \in Nat
    /\ IsFiniteSet(Writers) /\ None \notin Threads \union Readers
    /\ "writer" \notin Readers  \* the collector tells its requests apart
    /\ Writers \intersect Waiters = {}
    /\ {Deleter, Receiver, Discovery, Events} \intersect (Writers \union Waiters) = {}
    /\ Deleter \notin {Receiver, Discovery, Events}
    /\ Receiver \notin {Discovery, Events} /\ Discovery # Events

VARIABLES
    conf,       \* chosen at first: whc_low and the largest whc_high; whether
                \* max_blocking_time and wait times are finite (bounded);
                \* whether the readers matched at first acknowledge what they
                \* were sent (responsive); bound: whether anybody waits for
                \* acknowledgements (waits)
    mode,       \* wr->state
    throttling, \* wr->throttling
    seq,        \* wr->seq
    acked,      \* samples up to here have left the history cache's unacked
    whcHigh,    \* wr->whc_high
    rexmit,     \* wr->retransmitting
    matched,    \* wr->readers
    rseq,       \* per reader: the match's seq
    indexed,    \* the writer is in the entity index
    gone,       \* readers whose proxies have left the entity index
    gcq,        \* the collector's requests with the threads they wait for
    notifying,  \* the collector has torn the writer down, not yet freed it
    awake,      \* threads that may hold pointers
    linger,     \* the linger event: "unset", "set" or "over"
    mWr,        \* the entity's m_wr is there
    freed,      \* the writer's memory is released
    closing,    \* the handle's CLOSING flag
    pinned,     \* threads that pin the handle
    mutex,      \* who holds m_mutex
    pc, arg,    \* per thread: where it is, and with which reader or number
    woken       \* waiting threads signalled since they began to wait

cache   == <<seq, acked, whcHigh, rexmit>>
links   == <<matched, rseq, gone>>
fate    == <<mode, indexed, gcq>>
api     == <<mWr, closing, pinned, mutex>>
vars    == <<conf, cache, links, fate, api, throttling, notifying, awake,
             linger, freed, pc, arg, woken>>

OPERATIONAL == 0
INTERRUPT   == 1
LINGERING   == 2
DELETING    == 3

At(t, p)  == pc[t] = p
Goto(t, p) == pc' = [pc EXCEPT ![t] = p]
Larger(a, b) == IF a >= b THEN a ELSE b

\* ddsi_writer_max_drop_seq, for readers m with acknowledgements r and last
\* sample s.
MaxDrop(m, r, s) ==
    IF m = {} THEN s
    ELSE LET low == CHOOSE x \in {r[i] : i \in m} : \A i \in m : x <= r[i]
         IN IF low = Infinity THEN s ELSE low

Unacked == seq - acked
MayContinue == (Unacked <= conf.low /\ ~rexmit) \/ mode # OPERATIONAL

\* ddsrt_cond_broadcast of throttle_cond
WakeAll == woken' = woken \union {t \in Threads : pc[t] \in {"blocked", "acking"}}

\* The requests q when thread t goes to sleep: none waits for it any more.
Without(q, t) == [i \in DOMAIN q |-> [q[i] EXCEPT !.wait = @ \ {t}]]
Asleep(t) == awake' = awake \ {t} /\ gcq' = Without(gcq, t)

(* Faulty variants of the definitions below.  No specification uses them.  *)

\* A handler or event deletes the writer without looking at its state.
DeleteLockedAgain(q) ==
    /\ mode' = DELETING /\ indexed' = FALSE
    /\ gcq' = Append(q, [what |-> "writer", wait |-> awake])

\* delete_writer_nolinger_locked over requests q, unless done; the
\* collector waits for the thread that deletes, too, as long as it is awake.
DeleteLocked(q) ==
    IF mode = DELETING THEN gcq' = q /\ UNCHANGED <<mode, indexed>>
    ELSE /\ mode' = DELETING /\ indexed' = FALSE
         /\ gcq' = Append(q, [what |-> "writer", wait |-> awake])

\* A faulty variant that signals nobody.  No specification uses it.
RemoveAckedSilently(q, m, r) ==
    LET a == Larger(acked, MaxDrop(m, r, seq)) IN
    /\ acked' = a /\ matched' = m /\ rseq' = r /\ woken' = woken
    /\ IF mode = LINGERING /\ a = seq THEN DeleteLocked(q)
       ELSE gcq' = q /\ UNCHANGED <<mode, indexed>>

\* ddsi_remove_acked_messages, with readers m that acknowledged r
RemoveAcked(q, m, r) ==
    LET a == Larger(acked, MaxDrop(m, r, seq)) IN
    /\ acked' = a /\ matched' = m /\ rseq' = r
    /\ WakeAll
    /\ IF mode = LINGERING /\ a = seq THEN DeleteLocked(q)
       ELSE gcq' = q /\ UNCHANGED <<mode, indexed>>

Init ==
    /\ mode = OPERATIONAL /\ throttling = 0
    /\ conf \in Settings
    /\ seq = 0 /\ acked = 0 /\ whcHigh \in conf.low..conf.high /\ rexmit = FALSE
    /\ matched = conf.readers /\ rseq = [r \in Readers |-> 0]
    /\ gone = {}
    /\ indexed = TRUE /\ gcq = <<>> /\ notifying = FALSE /\ awake = {}
    /\ linger = "unset" /\ mWr = TRUE /\ freed = FALSE
    /\ closing = FALSE /\ pinned = {} /\ mutex = None
    /\ pc = [t \in Threads |-> "idle"] /\ arg = [t \in Threads |-> None]
    /\ woken = {}

-----------------------------------------------------------------------------
(* dds_write                                                               *)

StartWrite(t) ==
    /\ At(t, "idle") /\ ~closing /\ seq < MaxSeq
    /\ pinned' = pinned \union {t} /\ Goto(t, "lock")
    /\ UNCHANGED <<conf, cache, links, fate, mWr, closing, mutex, throttling,
                   notifying, awake, linger, freed, arg, woken>>

\* The handle may have been closed meanwhile: dds_writer_lock does not ask.
LockWriter(t) ==
    /\ At(t, "lock") /\ t \in Writers /\ mutex = None
    /\ mutex' = t /\ awake' = awake \union {t} /\ Goto(t, "write")
    /\ UNCHANGED <<conf, cache, links, fate, mWr, closing, pinned, throttling,
                   notifying, linger, freed, arg, woken>>

\* The part of write_sample_eot after throttling: a sample is accepted while
\* the writer is operational.  Without readers to wait for it is unacked never.
Accept ==
    IF mode # OPERATIONAL THEN UNCHANGED <<seq, acked>>
    ELSE LET d == MaxDrop(matched, rseq, seq + 1) IN
         /\ seq' = seq + 1
         /\ acked' = IF d = seq + 1 THEN d ELSE acked

\* maybe_grow_whc depends on the time since it last grew.
Grown == IF rexmit \/ Unacked <= whcHigh THEN {whcHigh}
         ELSE {whcHigh, IF whcHigh < conf.high THEN whcHigh + 1 ELSE whcHigh}

WriteSample(t) ==
    /\ At(t, "write")
    /\ whcHigh' \in Grown /\ Unacked <= whcHigh'
    /\ Accept /\ Goto(t, "ending")
    /\ UNCHANGED <<conf, rexmit, links, fate, api, throttling, notifying, awake,
                   linger, freed, arg, woken>>

\* throttle_writer gives up the lock while it sends what is packed.
Throttle(t) ==
    /\ At(t, "write")
    /\ whcHigh' \in Grown /\ Unacked > whcHigh'
    /\ throttling' = throttling + 1 /\ Goto(t, "sending")
    /\ UNCHANGED <<conf, seq, acked, rexmit, links, fate, api, notifying, awake,
                   linger, freed, arg, woken>>

InThrottle(t) == At(t, "sending") \/ (At(t, "blocked") /\ t \in woken)

Block(t) ==
    /\ InThrottle(t) /\ ~MayContinue
    /\ Asleep(t) /\ Goto(t, "blocked") /\ woken' = woken \ {t}
    /\ UNCHANGED <<conf, cache, links, mode, indexed, api, throttling, notifying,
                   linger, freed, arg>>

\* Leaving throttle_writer signals the condition if the writer is going.
LeaveThrottle(t) ==
    /\ throttling' = throttling - 1
    /\ awake' = awake \union {t} /\ Goto(t, "ending")
    /\ IF mode # OPERATIONAL
       THEN woken' = {u \in Threads : u # t /\ pc[u] \in {"blocked", "acking"}}
       ELSE woken' = woken \ {t}

Continue(t) ==
    /\ InThrottle(t) /\ MayContinue
    /\ LeaveThrottle(t) /\ Accept
    /\ UNCHANGED <<conf, whcHigh, rexmit, links, fate, api, notifying, linger,
                   freed, arg>>

\* The time was over: the sample is dropped, even if room was made meanwhile.
TimeOut(t) ==
    /\ conf.bounded
    /\ At(t, "blocked") \/ (At(t, "sending") /\ ~MayContinue)
    /\ LeaveThrottle(t)
    /\ UNCHANGED <<conf, cache, links, fate, api, notifying, linger, freed, arg>>

EndWrite(t) ==
    /\ At(t, "ending") /\ t \in Writers
    /\ Asleep(t) /\ mutex' = None /\ pinned' = pinned \ {t} /\ Goto(t, "idle")
    /\ UNCHANGED <<conf, cache, links, mode, indexed, mWr, closing, throttling,
                   notifying, linger, freed, arg, woken>>

-----------------------------------------------------------------------------
(* dds_wait_for_acks pins the handle and takes neither mutex nor wakes.     *)

StartWait(t) ==
    /\ At(t, "idle") /\ ~closing /\ conf.waits
    /\ pinned' = pinned \union {t} /\ Goto(t, "entering")
    /\ UNCHANGED <<conf, cache, links, fate, mWr, closing, mutex, throttling,
                   notifying, awake, linger, freed, arg, woken>>

WaitCheck(t, ref) ==
    /\ IF mode = OPERATIONAL /\ ref > MaxDrop(matched, rseq, seq)
       THEN Goto(t, "acking") /\ UNCHANGED pinned
       ELSE Goto(t, "idle") /\ pinned' = pinned \ {t}
    /\ woken' = woken \ {t}
    /\ UNCHANGED <<conf, cache, links, fate, mWr, closing, mutex, throttling,
                   notifying, awake, linger, freed>>

EnterWait(t) ==
    At(t, "entering") /\ WaitCheck(t, seq) /\ arg' = [arg EXCEPT ![t] = seq]

RecheckWait(t) ==
    At(t, "acking") /\ t \in woken /\ WaitCheck(t, arg[t]) /\ UNCHANGED arg

WaitTimesOut(t) ==
    /\ conf.bounded /\ At(t, "acking")
    /\ Goto(t, "idle") /\ pinned' = pinned \ {t} /\ woken' = woken \ {t}
    /\ UNCHANGED <<conf, cache, links, fate, mWr, closing, mutex, throttling,
                   notifying, awake, linger, freed, arg>>

-----------------------------------------------------------------------------
(* dds_delete                                                              *)

StartDelete ==
    /\ At(Deleter, "idle")
    /\ closing' = TRUE /\ pinned' = pinned \union {Deleter}
    /\ Goto(Deleter, "lock")
    /\ UNCHANGED <<conf, cache, links, fate, mWr, mutex, throttling, notifying,
                   awake, linger, freed, arg, woken>>

(* Faulty variants of the definitions below.  No specification uses them.  *)

\* The interrupt signals nobody.
InterruptSilently ==
    /\ At(Deleter, "lock") /\ mutex = None
    /\ mode' = INTERRUPT /\ Goto(Deleter, "closewait")
    /\ UNCHANGED <<conf, cache, links, indexed, gcq, api, throttling, notifying,
                   awake, linger, freed, arg, woken>>

\* The writer is closed while others have it pinned.
CloseWithoutWait ==
    /\ At(Deleter, "closewait")
    /\ awake' = awake \union {Deleter} /\ Goto(Deleter, "close")
    /\ UNCHANGED <<conf, cache, links, fate, api, throttling, notifying, linger,
                   freed, arg, woken>>

\* Unacknowledged data does not hold the deletion up.
DeleteWriterAtOnce ==
    /\ At(Deleter, "close") /\ DeleteLocked(gcq) /\ Goto(Deleter, "closed")
    /\ UNCHANGED <<conf, cache, links, api, throttling, notifying, awake, linger,
                   freed, arg, woken>>

\* dds_writer_interrupt comes once m_mutex has been locked.
Interrupt ==
    /\ At(Deleter, "lock") /\ mutex = None
    /\ mode' = INTERRUPT /\ WakeAll /\ Goto(Deleter, "closewait")
    /\ UNCHANGED <<conf, cache, links, indexed, gcq, api, throttling, notifying,
                   awake, linger, freed, arg>>

CloseWait ==
    /\ At(Deleter, "closewait") /\ pinned = {Deleter}
    /\ awake' = awake \union {Deleter} /\ Goto(Deleter, "close")
    /\ UNCHANGED <<conf, cache, links, fate, api, throttling, notifying, linger,
                   freed, arg, woken>>

\* ddsi_delete_writer, called by dds_writer_close
DeleteWriter ==
    /\ At(Deleter, "close")
    /\ IF Unacked = 0 THEN DeleteLocked(gcq) /\ UNCHANGED linger
       ELSE mode' = LINGERING /\ linger' = "set" /\ UNCHANGED <<indexed, gcq>>
    /\ Goto(Deleter, "closed")
    /\ UNCHANGED <<conf, cache, links, api, throttling, notifying, awake, freed,
                   arg, woken>>

CloseSleeps ==
    /\ At(Deleter, "closed") /\ Asleep(Deleter) /\ Goto(Deleter, "waitnull")
    /\ UNCHANGED <<conf, cache, links, mode, indexed, api, throttling, notifying,
                   linger, freed, arg, woken>>

\* The rest of dds_writer_close waits for m_wr to go.
Closed ==
    /\ At(Deleter, "waitnull") /\ mutex = None /\ ~mWr
    /\ Goto(Deleter, "gone")
    /\ UNCHANGED <<conf, cache, links, fate, api, throttling, notifying, awake,
                   linger, freed, arg, woken>>

\* The linger time is over; the event looks the writer up by its GUID.
LingerOver ==
    /\ linger = "set" /\ linger' = "over"
    /\ IF indexed THEN Goto(Events, "delete") /\ awake' = awake \union {Events}
       ELSE UNCHANGED <<pc, awake>>
    /\ UNCHANGED <<conf, cache, links, fate, api, throttling, notifying, freed, arg,
                   woken>>

LingerDelete ==
    /\ At(Events, "delete") /\ DeleteLocked(gcq) /\ Goto(Events, "ending")
    /\ UNCHANGED <<conf, cache, links, api, throttling, notifying, awake, linger,
                   freed, arg, woken>>

-----------------------------------------------------------------------------
(* Readers: acknowledgements, retransmit requests and departure            *)

\* handle_AckNack first finds writer and proxy reader in the entity index.
StartAckNack(r) ==
    /\ At(Receiver, "idle") /\ indexed /\ r \notin gone
    /\ awake' = awake \union {Receiver} /\ Goto(Receiver, "handle")
    /\ arg' = [arg EXCEPT ![Receiver] = r]
    /\ UNCHANGED <<conf, cache, links, fate, api, throttling, notifying, linger,
                   freed, woken>>

\* The reader is known but none of the writer's.
NoMatch ==
    /\ At(Receiver, "handle") /\ arg[Receiver] \notin matched
    /\ Goto(Receiver, "freeing")
    /\ UNCHANGED <<conf, cache, links, fate, api, throttling, notifying, awake,
                   linger, freed, arg, woken>>

\* The ACK part: reader r has all up to b.  One that was taken for gone
\* counts again from the last sample on.
Acknowledge(r, b) ==
    IF b > rseq[r]
    THEN RemoveAcked(gcq, matched, [rseq EXCEPT ![r] = b])
    ELSE /\ rseq' = IF rseq[r] = Infinity THEN [rseq EXCEPT ![r] = seq] ELSE rseq
         /\ UNCHANGED <<acked, matched, fate, woken>>

\* The NACK part: retransmitting a sample that is not yet acknowledged by all
\* starts to hold the writer back (ddsi_writer_set_retransmitting).
Nack(b) ==
    \/ /\ rexmit' = (rexmit /\ acked' # seq) /\ UNCHANGED whcHigh
    \/ /\ Larger(b, acked') < seq /\ rexmit' = TRUE
       /\ whcHigh' = IF (rexmit /\ acked' # seq) \/ whcHigh = conf.low THEN whcHigh
                     ELSE whcHigh - 1

AckNack(r, b) ==
    /\ At(Receiver, "handle") /\ arg[Receiver] = r /\ r \in matched
    /\ Acknowledge(r, b) /\ Nack(b) /\ Goto(Receiver, "freeing")
    /\ UNCHANGED <<conf, seq, gone, api, throttling, notifying, awake, linger,
                   freed, arg>>

\* ddsi_delete_proxy_reader; the writer is looked up by its GUID.
ReaderGone(r) ==
    /\ At(Discovery, "idle") /\ r \notin gone
    /\ gone' = gone \union {r} /\ arg' = [arg EXCEPT ![Discovery] = r]
    /\ awake' = awake \union {Discovery}
    /\ Goto(Discovery, IF indexed THEN "ackall" ELSE "requeue")
    /\ UNCHANGED <<conf, cache, matched, rseq, fate, api, throttling, notifying,
                   linger, freed, woken>>

\* proxy_reader_set_delete_and_ack_all_messages
AckAll ==
    LET r == arg[Discovery] IN
    /\ At(Discovery, "ackall") /\ Goto(Discovery, "freeing")
    /\ IF r \in matched
       THEN /\ RemoveAcked(gcq, matched, [rseq EXCEPT ![r] = Infinity])
            /\ rexmit' = FALSE
       ELSE UNCHANGED <<acked, matched, rseq, rexmit, fate, woken>>
    /\ UNCHANGED <<conf, seq, whcHigh, gone, api, throttling, notifying, awake,
                   linger, freed, arg>>

\* gcreq_proxy_reader
QueueReader ==
    /\ pc[Discovery] \in {"freeing", "requeue"} /\ Goto(Discovery, "ending")
    /\ gcq' = Append(gcq, [what |-> arg[Discovery], wait |-> awake])
    /\ UNCHANGED <<conf, cache, links, mode, indexed, api, throttling, notifying,
                   awake, linger, freed, arg, woken>>

\* A handler has freed what it removed, with wr->whc and after giving up the
\* lock ("freeing"), and sleeps.
EndHandler(t) ==
    /\ t \in {Receiver, Discovery, Events}
    /\ At(t, IF t = Receiver THEN "freeing" ELSE "ending")
    /\ Asleep(t) /\ Goto(t, "idle") /\ arg' = [arg EXCEPT ![t] = None]
    /\ UNCHANGED <<conf, cache, links, mode, indexed, api, throttling, notifying,
                   linger, freed, woken>>

-----------------------------------------------------------------------------
(* The garbage collector; its queue is that of GcQueue, seen from outside:  *)
(* a request is handled when each thread awake at its making has slept.     *)

Due(what) == gcq # <<>> /\ gcq[1].what = what /\ gcq[1].wait = {}

\* gc_delete_proxy_reader, writer_drop_connection
CollectReader(r) ==
    /\ Due(r)
    /\ IF indexed /\ r \in matched
       THEN /\ RemoveAcked(Tail(gcq), matched \ {r}, rseq)
            /\ rexmit' = (rexmit /\ acked' # seq)
       ELSE /\ gcq' = Tail(gcq)
            /\ UNCHANGED <<acked, matched, rseq, rexmit, mode, indexed, woken>>
    /\ UNCHANGED <<conf, seq, whcHigh, gone, api, throttling, notifying, awake,
                   linger, freed, pc, arg>>

\* gc_delete_writer up to the callback of the writer's entity
CollectWriter ==
    /\ Due("writer") /\ ~notifying
    /\ notifying' = TRUE /\ matched' = {}
    /\ UNCHANGED <<conf, cache, rseq, gone, fate, api, throttling, awake, linger,
                   freed, pc, arg, woken>>

\* dds_writer_status_cb without data takes m_mutex; then the memory goes.
FreeWriter ==
    /\ notifying /\ mutex = None
    /\ notifying' = FALSE /\ mWr' = FALSE /\ freed' = TRUE /\ gcq' = Tail(gcq)
    /\ UNCHANGED <<conf, cache, links, mode, indexed, closing, pinned, mutex,
                   throttling, awake, linger, pc, arg, woken>>

-----------------------------------------------------------------------------
Writing(t) ==
    \/ LockWriter(t) \/ WriteSample(t) \/ Throttle(t) \/ Block(t)
    \/ Continue(t) \/ EndWrite(t)

Waiting(t) == EnterWait(t) \/ RecheckWait(t)

Deleting == Interrupt \/ CloseWait \/ DeleteWriter \/ CloseSleeps \/ Closed

Collect == CollectWriter \/ FreeWriter \/ \E r \in Readers : CollectReader(r)

Handling ==
    \/ NoMatch \/ AckAll \/ QueueReader \/ LingerDelete
    \/ \E r \in Readers, b \in 0..seq : AckNack(r, b)

Next ==
    \/ \E t \in Writers : StartWrite(t) \/ Writing(t) \/ TimeOut(t)
    \/ \E t \in Waiters : StartWait(t) \/ Waiting(t) \/ WaitTimesOut(t)
    \/ StartDelete \/ Deleting \/ LingerOver
    \/ \E r \in Readers : StartAckNack(r) \/ ReaderGone(r)
    \/ Handling
    \/ \E t \in {Receiver, Discovery, Events} : EndHandler(t)
    \/ Collect

Spec == Init /\ [][Next]_vars

\* Threads get their turns and times elapse.  A responsive reader's messages
\* come again and again, and one that acknowledges everything among them.
FairSpec ==
    /\ Spec
    /\ \A t \in Writers :
         SF_vars(LockWriter(t)) /\ WF_vars(Writing(t)) /\ WF_vars(TimeOut(t))
    /\ \A t \in Waiters : WF_vars(Waiting(t)) /\ WF_vars(WaitTimesOut(t))
    /\ SF_vars(Interrupt) /\ WF_vars(Deleting \/ LingerOver)
    /\ SF_vars(FreeWriter) /\ WF_vars(Collect)
    /\ WF_vars(NoMatch \/ AckAll \/ QueueReader \/ LingerDelete)
    /\ WF_vars(\E r \in Readers, b \in 0..seq : AckNack(r, b))
    /\ \A t \in {Receiver, Discovery, Events} : WF_vars(EndHandler(t))
    /\ \A r \in Readers :
         /\ SF_vars(conf.responsive /\ StartAckNack(r))
         /\ SF_vars(conf.responsive /\ AckNack(r, seq))

-----------------------------------------------------------------------------
(* Properties                                                              *)

\* Nobody reaches the writer once its memory is released: neither writes and
\* waits, nor acknowledgements, departures and the linger event that found it
\* before it was removed, nor what they and dds_delete do with it after giving
\* up its lock.  The last acknowledgement, the end of the linger time and a
\* reader's departure race to hand it over: the collector gets it once.
NoUseAfterFree ==
    freed =>
        /\ ~indexed /\ ~notifying
        /\ \A t \in Writers : pc[t] \in {"idle", "lock"}
        /\ \A t \in Waiters : At(t, "idle")
        /\ pc[Receiver] \notin {"handle", "freeing"}
        /\ pc[Discovery] \notin {"ackall", "freeing"}
        /\ ~At(Events, "delete") /\ pc[Deleter] \notin {"close", "closed"}
        /\ \A i \in DOMAIN gcq : gcq[i].what # "writer"

\* Whatever makes a waiting thread's condition true signals it: a throttled
\* write, or a wait for acknowledgements, that sleeps on has a reason to.
NoLostWakeup ==
    /\ \A t \in Writers : At(t, "blocked") /\ t \notin woken => ~MayContinue
    /\ \A t \in Waiters : At(t, "acking") /\ t \notin woken =>
         mode = OPERATIONAL /\ arg[t] > MaxDrop(matched, rseq, seq)

\* Closing the handle first keeps every write out of throttle_writer by the
\* time the writer is deleted: what gc_delete_writer asserts holds although
\* the request is made without waiting for throttled threads.
NotThrottledWhenDeleted ==
    mode >= LINGERING => throttling = 0 /\ pinned \subseteq {Deleter} /\ mutex = None

\* A deleted writer keeps what readers have not acknowledged until they have,
\* are gone, or the linger time is over.
LingersUntilAcked ==
    [][mode' = DELETING /\ mode # DELETING => acked' = seq' \/ linger = "over"]_vars

\* A throttled write and a wait for acknowledgements come to an end, if they
\* have a time limit or the readers answer: through room that was made, the
\* departure of the reader that was in the way, or the interrupt.
BlockedCallsReturn ==
    LET fair == conf.bounded \/ conf.responsive IN
    /\ \A t \in Writers : fair /\ At(t, "write") ~> At(t, "idle")
    /\ \A t \in Waiters : fair /\ At(t, "acking") ~> At(t, "idle")

\* dds_delete ends, with the writer's memory released: "Trigger blocked
\* threads" is what the interrupt is for, and the linger time is finite.
DeleteReturns == closing ~> At(Deleter, "gone") /\ freed
=============================================================================

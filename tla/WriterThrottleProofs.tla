------------------------ MODULE WriterThrottleProofs ------------------------
(***************************************************************************)
(* Proofs about WriterThrottle, for any number of writing and waiting      *)
(* threads, any set of readers and any configuration.                      *)
(***************************************************************************)
EXTENDS WriterThrottle, FiniteSetTheorems, WellFoundedInduction, TLAPS

Pending  == {"lock", "write", "sending", "blocked"}
Locking  == {"write", "sending", "blocked", "ending"}
Sleeping == {"sending", "blocked"}
Places   == {"idle", "lock", "write", "sending", "blocked", "ending", "entering",
             "acking", "closewait", "close", "closed", "waitnull", "gone", "handle",
             "ackall", "freeing", "requeue", "delete"}
Requests == [what : Readers \union {"writer"}, wait : SUBSET Threads]

TypeOK ==
    /\ mode \in OPERATIONAL..DELETING
    /\ throttling \in {0, 1}
    /\ conf \in Settings /\ seq \in Nat /\ acked \in Nat
    /\ whcHigh \in conf.low..conf.high
    /\ rexmit \in BOOLEAN
    /\ matched \subseteq Readers
    /\ rseq \in [Readers -> Nat]
    /\ gcq \in Seq(Requests)
    /\ awake \subseteq Threads
    /\ linger \in {"unset", "set", "over"}
    /\ pinned \subseteq Writers \union Waiters \union {Deleter}
    /\ mutex \in Writers \union {None}
    /\ pc \in [Threads -> Places]
    /\ arg \in [Threads -> Readers \union Nat \union {None}]
    /\ woken \subseteq Threads

\* Each thread is somewhere in its own calls.
PcInv ==
    /\ \A t \in Writers : pc[t] \in Pending \union {"idle", "ending"}
    /\ \A t \in Waiters : pc[t] \in {"idle", "entering", "acking"}
    /\ pc[Deleter] \in {"idle", "lock", "closewait", "close", "closed",
                        "waitnull", "gone"}
    /\ pc[Receiver] \in {"idle", "handle", "freeing"}
    /\ pc[Discovery] \in {"idle", "ackall", "freeing", "requeue", "ending"}
    /\ pc[Events] \in {"idle", "delete", "ending"}

\* Calls in progress pin the handle; a call of dds_write holds the mutex for
\* all the time it may be throttled.
HandleInv ==
    /\ \A t \in Writers \union Waiters : t \in pinned <=> pc[t] # "idle"
    /\ Deleter \in pinned <=> pc[Deleter] # "idle"
    /\ \A t \in Writers : mutex = t <=> pc[t] \in Locking
    /\ throttling = IF \E t \in Writers : pc[t] \in Sleeping THEN 1 ELSE 0

\* The writer's state follows dds_delete; once it is past the wait for the
\* others nobody has the handle pinned any more.
DeleteInv ==
    /\ closing <=> pc[Deleter] # "idle"
    /\ mode = OPERATIONAL <=> pc[Deleter] \in {"idle", "lock"}
    /\ mode = INTERRUPT <=> pc[Deleter] \in {"closewait", "close"}
    /\ pc[Deleter] \in {"close", "closed", "waitnull", "gone"} => pinned = {Deleter}

\* Threads that found the writer in the index and have not finished with it,
\* with its lock or without.
Reaching ==
    {t \in {Receiver, Discovery, Events, Deleter} :
        pc[t] \in {"handle", "ackall", "delete", "freeing", "close", "closed"}}

\* Requests q without one for the writer; with at most one, which waits for R.
NoWriter(q) == \A i \in 1..Len(q) : q[i].what # "writer"
OneWriter(q, R) ==
    /\ \A i \in 1..Len(q) : q[i].what = "writer" => R \subseteq q[i].wait
    /\ \A i, j \in 1..Len(q) : q[i].what = "writer" /\ q[j].what = "writer" => i = j

\* The writer is out of the index when it is deleted, which makes one request;
\* the collector handles that when it has waited for all that reach the writer.
FateInv ==
    /\ indexed <=> mode # DELETING
    /\ mode # DELETING \/ freed => NoWriter(gcq)
    /\ OneWriter(gcq, Reaching)
    /\ notifying => gcq # <<>> /\ gcq[1].what = "writer" /\ gcq[1].wait = {}
    /\ freed => mode = DELETING /\ Reaching = {}
    /\ Reaching \subseteq awake
    /\ At(Events, "delete") => linger = "over"
    /\ mode \in {OPERATIONAL, INTERRUPT} => linger = "unset"
    /\ pc[Discovery] \in {"ackall", "freeing", "requeue"} => arg[Discovery] \in Readers

\* Sequence numbers stay in order and below Infinity.
InProgress == {t \in Writers : pc[t] \in Pending}
SeqInv ==
    /\ seq + Cardinality(InProgress) <= MaxSeq + Cardinality(Writers)
    /\ acked <= seq
    /\ \A r \in Readers : rseq[r] <= seq \/ rseq[r] = Infinity

\* Retransmitting holds writes back only while a reader is behind.
RexmitInv ==
    mode = OPERATIONAL /\ rexmit =>
        acked # seq /\ \E r \in matched : rseq[r] # Infinity

\* A wait for acknowledgements is for a sample that has been written.
WaitInv == \A t \in Waiters : At(t, "acking") => arg[t] \in 0..seq

IInv ==
    /\ TypeOK /\ PcInv /\ HandleInv /\ DeleteInv /\ FateInv
    /\ SeqInv /\ RexmitInv /\ WaitInv /\ NoLostWakeup

-----------------------------------------------------------------------------
(* The roles of threads, numbers and queues.                               *)

\* The threads of different roles are different.
LEMMA Roles ==
    /\ Writers \subseteq Threads /\ Waiters \subseteq Threads
    /\ {Deleter, Receiver, Discovery, Events} \subseteq Threads
    /\ \A t \in Writers : t \notin Waiters /\ t # Deleter /\ t # Receiver
                          /\ t # Discovery /\ t # Events /\ t # None
    /\ \A t \in Waiters : t \notin Writers /\ t # Deleter /\ t # Receiver
                          /\ t # Discovery /\ t # Events /\ t # None
    /\ Deleter # Receiver /\ Deleter # Discovery /\ Deleter # Events
    /\ Receiver # Discovery /\ Receiver # Events /\ Discovery # Events
    /\ Deleter # None
  BY ThrottleAssumption DEF Threads

\* There are finitely many threads that write.
LEMMA WriterCount == Cardinality(Writers) \in Nat /\ Infinity \in Nat
  BY ThrottleAssumption, FS_CardinalityType DEF Infinity

\* Calls in progress are no more than threads that write.
LEMMA ProgressCount ==
    ASSUME NEW S \in SUBSET Writers
    PROVE  IsFiniteSet(S) /\ Cardinality(S) \in Nat
           /\ Cardinality(S) <= Cardinality(Writers)
  BY ThrottleAssumption, FS_Subset, FS_CardinalityType

\* A set of natural numbers has a least one.
LEMMA LeastExists ==
    ASSUME NEW T \in SUBSET Nat, T # {}
    PROVE  \E x \in T : \A y \in T : x <= y
  <1>1. PICK R : IsWellFoundedOn(R, Nat) /\ R = {ss \in Nat \X Nat : ss[1] < ss[2]}
    BY NatLessThanWellFounded DEF OpToRel
  <1>2. PICK x \in T : \A y \in T : <<y, x>> \notin R
    BY <1>1, WFMin
  <1>3. \A y \in T : <<y, x>> \notin R => x <= y
    BY <1>1
  <1> QED
    BY <1>2, <1>3

\* ddsi_writer_max_drop_seq: the least acknowledgement of the readers that are
\* there; the last sample when there are none or all are taken for gone.
LEMMA MaxDropIs ==
    ASSUME NEW m \in SUBSET Readers, NEW r \in [Readers -> Nat], NEW s \in Nat,
           s < Infinity, \A i \in m : r[i] <= s \/ r[i] = Infinity
    PROVE  /\ MaxDrop(m, r, s) \in Nat /\ MaxDrop(m, r, s) <= s
           /\ (\A i \in m : r[i] = Infinity) => MaxDrop(m, r, s) = s
           /\ (\E i \in m : r[i] # Infinity) =>
                /\ \A i \in m : MaxDrop(m, r, s) <= r[i]
                /\ \E i \in m : MaxDrop(m, r, s) = r[i]
  <1>1. CASE m = {}
    BY <1>1 DEF MaxDrop
  <1>2. CASE m # {}
    <2> DEFINE V == {r[i] : i \in m}
               low == CHOOSE x \in V : \A i \in m : x <= r[i]
    <2>1. \E x \in V : \A i \in m : x <= r[i]
      <3>1. V \in SUBSET Nat /\ V # {}
        BY <1>2
      <3>2. PICK x \in V : \A y \in V : x <= y
        BY <3>1, LeastExists
      <3> QED
        BY <3>2
    <2>2. low \in V /\ \A i \in m : low <= r[i]
      BY <2>1
    <2>3. MaxDrop(m, r, s) = IF low = Infinity THEN s ELSE low
      BY <1>2 DEF MaxDrop
    <2> HIDE DEF low
    <2>4. PICK j \in m : low = r[j]
      BY <2>2
    <2>5. low \in Nat
      BY <2>4
    <2> QED
      BY <2>2, <2>3, <2>4, <2>5, WriterCount
  <1> QED
    BY <1>1, <1>2

-----------------------------------------------------------------------------
(* The collector's requests.                                               *)

\* A request for a reader is put behind the others.
LEMMA AppendReader ==
    ASSUME NEW q \in Seq(Requests), NEW r \in Readers, NEW w \in SUBSET Threads,
           NEW R
    PROVE  LET p == Append(q, [what |-> r, wait |-> w]) IN
           /\ p \in Seq(Requests)
           /\ NoWriter(q) => NoWriter(p)
           /\ OneWriter(q, R) => OneWriter(p, R)
           /\ q # <<>> => p # <<>> /\ p[1] = q[1]
  <1> DEFINE p == Append(q, [what |-> r, wait |-> w])
  <1>1. r # "writer"
    BY ThrottleAssumption
  <1>2. p \in Seq(Requests) /\ Len(p) = Len(q) + 1 /\ Len(q) \in Nat
    BY DEF Requests
  <1>3. \A i \in 1..Len(q) : p[i] = q[i]
    OBVIOUS
  <1>4. p[Len(q) + 1].what = r
    OBVIOUS
  <1> HIDE DEF p
  <1>5. NoWriter(q) => NoWriter(p)
    BY <1>1, <1>2, <1>3, <1>4 DEF NoWriter
  <1>6. OneWriter(q, R) => OneWriter(p, R)
    BY <1>1, <1>2, <1>3, <1>4 DEF OneWriter
  <1>7. q # <<>> => p # <<>> /\ p[1] = q[1]
    BY <1>2, <1>3
  <1> QED
    BY <1>2, <1>5, <1>6, <1>7 DEF p

\* The request for the writer, when there was none, waits for those awake.
LEMMA AppendWriter ==
    ASSUME NEW q \in Seq(Requests), NEW w \in SUBSET Threads, NoWriter(q),
           NEW R \in SUBSET w
    PROVE  LET p == Append(q, [what |-> "writer", wait |-> w]) IN
           p \in Seq(Requests) /\ OneWriter(p, R)
  <1> DEFINE p == Append(q, [what |-> "writer", wait |-> w])
  <1>1. p \in Seq(Requests) /\ Len(p) = Len(q) + 1 /\ Len(q) \in Nat
    BY DEF Requests
  <1>2. \A i \in 1..Len(q) : p[i] = q[i]
    OBVIOUS
  <1>3. p[Len(q) + 1].wait = w
    OBVIOUS
  <1> HIDE DEF p
  <1>4. OneWriter(p, R)
    BY <1>1, <1>2, <1>3 DEF OneWriter, NoWriter
  <1> QED
    BY <1>1, <1>4 DEF p

\* The first request is taken away.
LEMMA TailOf ==
    ASSUME NEW q \in Seq(Requests), q # <<>>, NEW R
    PROVE  /\ Tail(q) \in Seq(Requests)
           /\ NoWriter(q) => NoWriter(Tail(q))
           /\ OneWriter(q, R) => OneWriter(Tail(q), R)
           /\ OneWriter(q, R) /\ q[1].what = "writer" => NoWriter(Tail(q))
  <1>1. /\ Tail(q) \in Seq(Requests) /\ Len(q) \in Nat \ {0}
        /\ Len(Tail(q)) = Len(q) - 1
        /\ \A i \in 1..Len(q) - 1 : /\ Tail(q)[i] = q[i + 1]
                                    /\ i + 1 \in 1..Len(q) /\ i + 1 # 1
        /\ 1 \in 1..Len(q)
    OBVIOUS
  <1>2. NoWriter(q) => NoWriter(Tail(q))
    BY <1>1 DEF NoWriter
  <1>3. OneWriter(q, R) => OneWriter(Tail(q), R)
    <2> SUFFICES ASSUME OneWriter(q, R)
                 PROVE  OneWriter(Tail(q), R)
      OBVIOUS
    <2>1. \A i \in 1..Len(q) - 1 :
             Tail(q)[i].what = "writer" => R \subseteq Tail(q)[i].wait
      BY <1>1 DEF OneWriter
    <2>2. ASSUME NEW i \in 1..Len(q) - 1, NEW j \in 1..Len(q) - 1,
                 Tail(q)[i].what = "writer", Tail(q)[j].what = "writer"
          PROVE  i = j
      <3>1. i + 1 = j + 1
        BY <1>1, <2>2 DEF OneWriter
      <3> QED
        BY <3>1
    <2> QED
      BY <1>1, <2>1, <2>2 DEF OneWriter
  <1>4. OneWriter(q, R) /\ q[1].what = "writer" => NoWriter(Tail(q))
    BY <1>1 DEF OneWriter, NoWriter
  <1> QED
    BY <1>1, <1>2, <1>3, <1>4

\* A thread goes to sleep; no request waits for it any more.
LEMMA WithoutOf ==
    ASSUME NEW q \in Seq(Requests), NEW t, NEW R, NEW S \in SUBSET R, t \notin S
    PROVE  /\ Without(q, t) \in Seq(Requests)
           /\ NoWriter(q) => NoWriter(Without(q, t))
           /\ OneWriter(q, R) => OneWriter(Without(q, t), S)
           /\ q # <<>> => /\ Without(q, t) # <<>>
                          /\ Without(q, t)[1].what = q[1].what
                          /\ q[1].wait = {} => Without(q, t)[1].wait = {}
  <1> DEFINE p == Without(q, t)
  <1>1. /\ Len(q) \in Nat /\ DOMAIN q = 1..Len(q)
        /\ \A i \in 1..Len(q) : q[i] \in Requests
    OBVIOUS
  <1>2. \A i \in 1..Len(q) : /\ p[i] = [q[i] EXCEPT !.wait = @ \ {t}]
                             /\ p[i] \in Requests
    BY <1>1 DEF Without, Requests
  <1>3. p \in Seq(Requests) /\ Len(p) = Len(q)
    <2>1. p = [i \in 1..Len(q) |-> p[i]]
      BY <1>1 DEF Without
    <2> HIDE DEF p
    <2> QED
      BY <1>1, <1>2, <2>1
  <1>4. \A i \in 1..Len(q) : p[i].what = q[i].what /\ p[i].wait = q[i].wait \ {t}
    BY <1>1, <1>2 DEF Requests
  <1> HIDE DEF p
  <1>5. NoWriter(q) => NoWriter(p)
    BY <1>3, <1>4 DEF NoWriter
  <1>6. OneWriter(q, R) => OneWriter(p, S)
    BY <1>3, <1>4 DEF OneWriter
  <1>7. q # <<>> => p # <<>> /\ 1 \in 1..Len(q)
    BY <1>1, <1>3
  <1> QED
    BY <1>3, <1>4, <1>5, <1>6, <1>7 DEF p

-----------------------------------------------------------------------------
(* Steps of the application's threads: the handle, the mutex and throttling. *)

Api == PcInv /\ HandleInv /\ DeleteInv

\* Steps of the others leave all that alone, but for the end of the lingering.
LEMMA ApiKept ==
    ASSUME TypeOK, Api, UNCHANGED <<closing, pinned, mutex, throttling>>,
           \A t \in Writers \union Waiters \union {Deleter} : pc'[t] = pc[t],
           mode' = mode \/ {mode, mode'} \subseteq {LINGERING, DELETING},
           pc'[Receiver] \in {"idle", "handle", "freeing"},
           pc'[Discovery] \in {"idle", "ackall", "freeing", "requeue", "ending"},
           pc'[Events] \in {"idle", "delete", "ending"}
    PROVE  Api'
  <1>1. PcInv'
    BY DEF Api, PcInv
  <1>2. HandleInv'
    BY DEF Api, HandleInv
  <1>3. DeleteInv'
    BY DEF Api, DeleteInv, OPERATIONAL, INTERRUPT, LINGERING, DELETING
  <1> QED
    BY <1>1, <1>2, <1>3 DEF Api

\* A step of a writing thread: it has the handle pinned from its first step to
\* its last, and the mutex wherever it may be throttled.
LEMMA ApiWriter ==
    ASSUME TypeOK, Api, NEW t \in Writers, NEW p \in Pending \union {"idle", "ending"},
           Goto(t, p), UNCHANGED <<mode, closing>>,
           pc[t] # "idle" \/ ~closing,
           pinned' = IF p = "idle" THEN pinned \ {t} ELSE pinned \union {t},
           IF p \in Locking THEN mutex \in {t, None} /\ mutex' = t
           ELSE mutex' = IF pc[t] \in Locking THEN None ELSE mutex,
           throttling' = throttling + (IF p \in Sleeping THEN 1 ELSE 0)
                                    - (IF pc[t] \in Sleeping THEN 1 ELSE 0)
    PROVE  Api'
  <1>1. /\ pc'[t] = p /\ \A u \in Threads \ {t} : pc'[u] = pc[u]
        /\ t \in Threads
    BY Roles DEF TypeOK, Goto
  <1>2. PcInv'
    BY <1>1, Roles DEF Api, PcInv
  <1>3. \A u \in Writers \union Waiters : u \in pinned' <=> pc'[u] # "idle"
    BY <1>1, Roles DEF Api, HandleInv, Pending
  <1>4. Deleter \in pinned' <=> pc'[Deleter] # "idle"
    BY <1>1, Roles DEF Api, HandleInv
  <1>5. \A u \in Writers : mutex' = u <=> pc'[u] \in Locking
    BY <1>1, Roles DEF Api, HandleInv
  <1>6. \A u \in Writers \ {t} : mutex \in {t, None} => pc[u] \notin Sleeping
    BY Roles DEF Api, HandleInv, Sleeping, Locking
  <1>7. throttling' = IF \E u \in Writers : pc'[u] \in Sleeping THEN 1 ELSE 0
    <2>1. CASE p \in Locking \/ pc[t] \in Locking
      <3>1. mutex \in {t, None}
        BY <2>1 DEF Api, HandleInv
      <3>2. throttling = IF pc[t] \in Sleeping THEN 1 ELSE 0
        BY <1>6, <3>1 DEF Api, HandleInv
      <3>3. (\E u \in Writers : pc'[u] \in Sleeping) <=> p \in Sleeping
        BY <1>1, <1>6, <3>1, Roles
      <3> QED
        BY <3>2, <3>3
    <2>2. CASE p \notin Locking /\ pc[t] \notin Locking
      <3>1. p \notin Sleeping /\ pc[t] \notin Sleeping
        BY <2>2 DEF Sleeping, Locking
      <3>2. (\E u \in Writers : pc'[u] \in Sleeping)
              <=> \E u \in Writers : pc[u] \in Sleeping
        BY <1>1, <3>1, Roles
      <3> QED
        BY <3>1, <3>2 DEF Api, HandleInv, TypeOK
    <2> QED
      BY <2>1, <2>2
  <1>8. HandleInv'
    BY <1>3, <1>4, <1>5, <1>7 DEF HandleInv
  <1>9. pc[Deleter] \in {"close", "closed", "waitnull", "gone"} => FALSE
    BY Roles DEF Api, HandleInv, DeleteInv
  <1>10. DeleteInv'
    BY <1>1, <1>9, Roles DEF Api, DeleteInv
  <1> QED
    BY <1>2, <1>8, <1>10 DEF Api

\* A step of a thread that waits for acknowledgements.
LEMMA ApiWaiter ==
    ASSUME TypeOK, Api, NEW t \in Waiters, NEW p \in {"idle", "entering", "acking"},
           Goto(t, p), UNCHANGED <<mode, closing, mutex, throttling>>,
           pc[t] # "idle" \/ ~closing,
           pinned' = IF p = "idle" THEN pinned \ {t} ELSE pinned \union {t}
    PROVE  Api'
  <1>1. /\ pc'[t] = p /\ \A u \in Threads \ {t} : pc'[u] = pc[u]
        /\ t \in Threads
    BY Roles DEF TypeOK, Goto
  <1>2. PcInv'
    BY <1>1, Roles DEF Api, PcInv
  <1>3. HandleInv'
    <2>1. \A u \in Writers \union Waiters : u \in pinned' <=> pc'[u] # "idle"
      BY <1>1, Roles DEF Api, HandleInv
    <2>2. Deleter \in pinned' <=> pc'[Deleter] # "idle"
      BY <1>1, Roles DEF Api, HandleInv
    <2>3. \A u \in Writers : pc'[u] = pc[u]
      BY <1>1, Roles
    <2> QED
      BY <2>1, <2>2, <2>3 DEF Api, HandleInv
  <1>4. pc[Deleter] \in {"close", "closed", "waitnull", "gone"} => FALSE
    BY Roles DEF Api, HandleInv, DeleteInv
  <1>5. DeleteInv'
    BY <1>1, <1>4, Roles DEF Api, DeleteInv
  <1> QED
    BY <1>2, <1>3, <1>5 DEF Api

\* A step of dds_delete.
LEMMA ApiDeleter ==
    ASSUME TypeOK, Api, StartDelete \/ Deleting
    PROVE  Api'
  <1> DEFINE Others == Writers \union Waiters \union {Receiver, Discovery, Events}
  <1>1. UNCHANGED <<mutex, throttling>> /\ \A t \in Others : pc'[t] = pc[t]
    BY Roles DEF StartDelete, Deleting, Interrupt, CloseWait, DeleteWriter,
       CloseSleeps, Closed, Goto, TypeOK, api
  <1>2. Deleter \in Threads
    BY Roles
  <1>3. CASE StartDelete
    <2>1. /\ pc[Deleter] = "idle" /\ pc'[Deleter] = "lock" /\ closing' = TRUE
          /\ pinned' = pinned \union {Deleter} /\ mode' = mode
      BY <1>2, <1>3 DEF StartDelete, At, Goto, TypeOK, fate
    <2>2. PcInv'
      BY <1>1, <2>1 DEF Api, PcInv
    <2>3. HandleInv'
      BY <1>1, <2>1, Roles DEF Api, HandleInv
    <2>4. DeleteInv'
      BY <2>1 DEF Api, DeleteInv
    <2> QED
      BY <2>2, <2>3, <2>4 DEF Api
  <1>4. CASE Deleting
    <2>1. UNCHANGED <<closing, pinned>> /\ pc[Deleter] # "idle"
      BY <1>4 DEF Deleting, Interrupt, CloseWait, DeleteWriter, CloseSleeps, Closed,
         api, At
    <2>2. \/ /\ pc[Deleter] = "lock" /\ pc'[Deleter] = "closewait"
             /\ mode' = INTERRUPT
          \/ /\ pc[Deleter] = "closewait" /\ pc'[Deleter] = "close"
             /\ mode' = mode /\ pinned = {Deleter}
          \/ /\ pc[Deleter] = "close" /\ pc'[Deleter] = "closed"
             /\ mode' \in {LINGERING, DELETING}
          \/ /\ pc[Deleter] = "closed" /\ pc'[Deleter] = "waitnull" /\ mode' = mode
          \/ /\ pc[Deleter] = "waitnull" /\ pc'[Deleter] = "gone" /\ mode' = mode
      <3>1. Interrupt => pc[Deleter] = "lock" /\ pc'[Deleter] = "closewait"
                         /\ mode' = INTERRUPT
        BY <1>2 DEF Interrupt, At, Goto, TypeOK
      <3>2. CloseWait => pc[Deleter] = "closewait" /\ pc'[Deleter] = "close"
                         /\ mode' = mode /\ pinned = {Deleter}
        BY <1>2 DEF CloseWait, At, Goto, TypeOK, fate
      <3>3. DeleteWriter => pc[Deleter] = "close" /\ pc'[Deleter] = "closed"
                            /\ mode' \in {LINGERING, DELETING}
        BY <1>2 DEF DeleteWriter, DeleteLocked, At, Goto, TypeOK
      <3>4. CloseSleeps => pc[Deleter] = "closed" /\ pc'[Deleter] = "waitnull"
                           /\ mode' = mode
        BY <1>2 DEF CloseSleeps, At, Goto, TypeOK
      <3>5. Closed => pc[Deleter] = "waitnull" /\ pc'[Deleter] = "gone" /\ mode' = mode
        BY <1>2 DEF Closed, At, Goto, TypeOK, fate
      <3> QED
        BY <1>4, <3>1, <3>2, <3>3, <3>4, <3>5 DEF Deleting
    <2>3. PcInv'
      BY <1>1, <2>2 DEF Api, PcInv
    <2>4. HandleInv'
      BY <1>1, <2>1, <2>2 DEF Api, HandleInv
    <2>5. DeleteInv'
      BY <2>1, <2>2 DEF Api, DeleteInv, OPERATIONAL, INTERRUPT, LINGERING, DELETING
    <2> QED
      BY <2>3, <2>4, <2>5 DEF Api
  <1> QED
    BY <1>3, <1>4

-----------------------------------------------------------------------------
(* Deleting the writer, and the effects of acknowledgements.               *)

\* The number a sample may get is below Infinity.
LEMMA SeqBound ==
    ASSUME TypeOK, SeqInv
    PROVE  /\ seq < Infinity
           /\ \A t \in Writers : pc[t] \in Pending => seq + 1 < Infinity
  <1>1. InProgress \in SUBSET Writers
    BY DEF InProgress
  <1>2. seq < Infinity
    BY <1>1, ProgressCount, WriterCount, ThrottleAssumption
       DEF SeqInv, Infinity, TypeOK
  <1>3. ASSUME NEW t \in Writers, pc[t] \in Pending
        PROVE  seq + 1 < Infinity
    <2>1. InProgress # {}
      BY <1>3 DEF InProgress
    <2>2. Cardinality(InProgress) # 0
      BY <1>1, <2>1, ProgressCount, FS_EmptySet
    <2> QED
      BY <1>1, <2>2, ProgressCount, WriterCount, ThrottleAssumption
         DEF SeqInv, Infinity, TypeOK
  <1> QED
    BY <1>2, <1>3

\* What readers have acknowledged, as it is now.
LEMMA MaxDropNow ==
    ASSUME TypeOK, SeqInv, NEW m \in SUBSET Readers, NEW r \in [Readers -> Nat],
           \A i \in Readers : r[i] <= seq \/ r[i] = Infinity
    PROVE  /\ MaxDrop(m, r, seq) \in Nat /\ MaxDrop(m, r, seq) <= seq
           /\ (\A i \in m : r[i] = Infinity) => MaxDrop(m, r, seq) = seq
           /\ (\E i \in m : r[i] # Infinity) =>
                /\ \A i \in m : MaxDrop(m, r, seq) <= r[i]
                /\ \E i \in m : MaxDrop(m, r, seq) = r[i]
  <1>1. seq \in Nat /\ seq < Infinity
    BY SeqBound DEF TypeOK
  <1>2. \A i \in m : r[i] <= seq \/ r[i] = Infinity
    OBVIOUS
  <1> QED
    BY <1>1, <1>2, MaxDropIs

\* Removing acknowledged samples: everybody is woken, samples are dropped up to
\* the last when no reader is behind, and the end of lingering deletes.
LEMMA RemoveAckedIs ==
    ASSUME TypeOK, SeqInv, NEW q, NEW m \in SUBSET Readers,
           NEW r \in [Readers -> Nat],
           \A i \in Readers : r[i] <= seq \/ r[i] = Infinity,
           RemoveAcked(q, m, r)
    PROVE  /\ acked' \in Nat /\ acked' <= seq
           /\ (\A i \in m : r[i] = Infinity) => acked' = seq
           /\ matched' = m /\ rseq' = r
           /\ woken' \in SUBSET Threads
           /\ {t \in Threads : pc[t] \in {"blocked", "acking"}} \subseteq woken'
           /\ \/ mode = LINGERING /\ acked' = seq /\ DeleteLocked(q)
              \/ gcq' = q /\ UNCHANGED <<mode, indexed>>
  <1> DEFINE d == MaxDrop(m, r, seq)
             a == Larger(acked, d)
  <1>1. a \in Nat /\ a <= seq /\ ((\A i \in m : r[i] = Infinity) => a = seq)
    <2>1. d \in Nat /\ d <= seq /\ ((\A i \in m : r[i] = Infinity) => d = seq)
      BY MaxDropNow
    <2> HIDE DEF d
    <2>2. acked \in Nat /\ seq \in Nat /\ acked <= seq
      BY DEF TypeOK, SeqInv
    <2> QED
      BY <2>1, <2>2 DEF Larger
  <1>2. /\ acked' = a /\ matched' = m /\ rseq' = r
        /\ woken' = woken \union {t \in Threads : pc[t] \in {"blocked", "acking"}}
        /\ IF mode = LINGERING /\ a = seq THEN DeleteLocked(q)
           ELSE gcq' = q /\ UNCHANGED <<mode, indexed>>
    BY DEF RemoveAcked, WakeAll
  <1> HIDE DEF a
  <1> QED
    BY <1>1, <1>2 DEF TypeOK

-----------------------------------------------------------------------------
(* The way of the writer to the collector.                                 *)

\* A step that may delete the writer, over requests q that are like those there.
LEMMA FateStep ==
    ASSUME TypeOK, FateInv, NEW q \in Seq(Requests),
           NoWriter(gcq) => NoWriter(q), OneWriter(q, Reaching'),
           notifying => q # <<>> /\ q[1].what = "writer" /\ q[1].wait = {},
           DeleteLocked(q) \/ (gcq' = q /\ UNCHANGED <<mode, indexed>>),
           UNCHANGED <<notifying, freed>>, linger' = linger \/ linger = "set",
           Reaching' \subseteq Reaching, Reaching' \subseteq awake',
           At(Events, "delete")' => linger' = "over",
           pc'[Discovery] \in {"ackall", "freeing", "requeue"} => arg'[Discovery] \in Readers
    PROVE  FateInv' /\ gcq' \in Seq(Requests)
  <1>1. CASE gcq' = q /\ UNCHANGED <<mode, indexed>>
    BY <1>1 DEF FateInv
  <1>2. CASE mode = DELETING /\ DeleteLocked(q)
    BY <1>1, <1>2 DEF DeleteLocked
  <1>3. CASE mode # DELETING /\ DeleteLocked(q)
    <2>1. /\ mode' = DELETING /\ indexed' = FALSE
          /\ gcq' = Append(q, [what |-> "writer", wait |-> awake])
      BY <1>3 DEF DeleteLocked
    <2>2. NoWriter(gcq) /\ ~freed
      BY <1>3 DEF FateInv
    <2>3. ~notifying
      <3>1. gcq # <<>> => 1 \in 1..Len(gcq)
        BY DEF TypeOK
      <3> QED
        BY <2>2, <3>1 DEF FateInv, NoWriter
    <2>4. Reaching' \in SUBSET awake
      BY DEF FateInv
    <2>5. gcq' \in Seq(Requests) /\ OneWriter(gcq', Reaching')
      BY <2>1, <2>2, <2>4, AppendWriter DEF TypeOK
    <2> QED
      BY <2>1, <2>2, <2>3, <2>5 DEF FateInv, OPERATIONAL, INTERRUPT, DELETING
  <1> QED
    BY <1>1, <1>2, <1>3

\* No request is made or handled.
LEMMA FateKept ==
    ASSUME TypeOK, FateInv, UNCHANGED <<indexed, gcq, notifying, freed, linger>>,
           mode' = DELETING <=> mode = DELETING,
           mode' \in {OPERATIONAL, INTERRUPT} => mode \in {OPERATIONAL, INTERRUPT},
           awake \subseteq awake',
           pc'[Receiver] = pc[Receiver] \/ (At(Receiver, "handle") /\ pc'[Receiver] = "freeing"),
           pc'[Deleter] = pc[Deleter] \/ pc'[Deleter] \in {"idle", "lock", "closewait", "gone"},
           pc'[Discovery] = pc[Discovery], arg'[Discovery] = arg[Discovery],
           pc'[Events] = pc[Events]
    PROVE  FateInv'
  <1>1. Reaching' \subseteq Reaching
    BY Roles DEF Reaching, At
  <1>2. OneWriter(gcq, Reaching')
    BY <1>1 DEF FateInv, OneWriter
  <1> QED
    BY <1>1, <1>2 DEF FateInv, At

\* A thread goes to sleep: it reaches the writer no more.
LEMMA FateSleeps ==
    ASSUME TypeOK, FateInv, NEW t \in Threads, NEW p, Asleep(t), Goto(t, p),
           UNCHANGED <<mode, indexed, notifying, freed, linger>>,
           p \in {"idle", "blocked", "waitnull"},
           \A u \in Threads \ {t} : arg'[u] = arg[u]
    PROVE  FateInv' /\ gcq' \in Seq(Requests)
  <1>1. /\ pc'[t] = p /\ \A u \in Threads \ {t} : pc'[u] = pc[u]
        /\ awake' = awake \ {t} /\ gcq' = Without(gcq, t)
    BY DEF Goto, Asleep, TypeOK
  <1>2. Reaching' \subseteq Reaching /\ t \notin Reaching'
    BY <1>1, Roles DEF Reaching
  <1>3. /\ gcq' \in Seq(Requests) /\ OneWriter(gcq', Reaching')
        /\ NoWriter(gcq) => NoWriter(gcq')
        /\ notifying => gcq' # <<>> /\ gcq'[1].what = "writer" /\ gcq'[1].wait = {}
    BY <1>1, <1>2, WithoutOf DEF FateInv, TypeOK
  <1>4. At(Events, "delete")' => At(Events, "delete")
    BY <1>1, Roles DEF At
  <1>5. pc'[Discovery] \in {"ackall", "freeing", "requeue"} =>
           pc[Discovery] = pc'[Discovery] /\ arg'[Discovery] = arg[Discovery]
    BY <1>1, Roles
  <1> QED
    BY <1>1, <1>2, <1>3, <1>4, <1>5, FateStep DEF FateInv

\* A thread finds the writer in the index: there is no request for it yet.
LEMMA FateEnters ==
    ASSUME TypeOK, FateInv, NEW t \in Threads, indexed,
           UNCHANGED <<mode, indexed, gcq, notifying, freed>>,
           awake' = awake \union {t},
           \A u \in Threads \ {t} : pc'[u] = pc[u] /\ arg'[u] = arg[u],
           IF t = Events THEN linger = "set" /\ linger' = "over" ELSE linger' = linger,
           t = Discovery => arg'[t] \in Readers
    PROVE  FateInv'
  <1>1. mode # DELETING /\ NoWriter(gcq) /\ ~freed
    BY DEF FateInv
  <1>2. ~notifying
    <2>1. gcq # <<>> => 1 \in 1..Len(gcq)
      BY DEF TypeOK
    <2> QED
      BY <1>1, <2>1 DEF FateInv, NoWriter
  <1>3. OneWriter(gcq, Reaching')
    BY <1>1 DEF OneWriter, NoWriter
  <1>4. Reaching' \subseteq Reaching \union {t}
    BY Roles DEF Reaching
  <1>5. At(Events, "delete")' => linger' = "over"
    BY Roles DEF FateInv, At
  <1>6. pc'[Discovery] \in {"ackall", "freeing", "requeue"} => arg'[Discovery] \in Readers
    BY Roles DEF FateInv
  <1> QED
    BY <1>1, <1>2, <1>3, <1>4, <1>5, <1>6 DEF FateInv

\* The ACK part of an acknowledgement: either samples are removed and all are
\* woken, or at most a reader that was taken for gone counts again.
LEMMA AcknowledgeIs ==
    ASSUME TypeOK, SeqInv, NEW r \in matched, NEW b \in 0..seq, Acknowledge(r, b)
    PROVE  /\ acked' \in Nat /\ acked' <= seq /\ matched' = matched
           /\ rseq' \in [Readers -> Nat] /\ rseq'[r] # Infinity
           /\ \A i \in Readers : rseq'[i] <= seq \/ rseq'[i] = Infinity
           /\ woken' \in SUBSET Threads
           /\ \/ {t \in Threads : pc[t] \in {"blocked", "acking"}} \subseteq woken'
              \/ /\ UNCHANGED <<acked, woken>>
                 /\ \/ rseq' = rseq
                    \/ rseq[r] = Infinity /\ rseq' = [rseq EXCEPT ![r] = seq]
           /\ \/ mode = LINGERING /\ acked' = seq /\ DeleteLocked(gcq)
              \/ UNCHANGED <<gcq, mode, indexed>>
  <1>0. /\ r \in Readers /\ matched \in SUBSET Readers
        /\ rseq \in [Readers -> Nat] /\ seq \in Nat /\ b \in Nat /\ b <= seq
        /\ seq < Infinity
        /\ \A i \in Readers : rseq[i] <= seq \/ rseq[i] = Infinity
    BY SeqBound DEF TypeOK, SeqInv
  <1>1. CASE b > rseq[r]
    <2> DEFINE f == [rseq EXCEPT ![r] = b]
    <2>1. /\ f \in [Readers -> Nat] /\ f[r] = b
          /\ \A i \in Readers : f[i] <= seq \/ f[i] = Infinity
      BY <1>0
    <2>2. RemoveAcked(gcq, matched, f)
      BY <1>1 DEF Acknowledge
    <2> HIDE DEF f
    <2>3. b # Infinity
      BY <1>0, WriterCount
    <2> QED
      BY <1>0, <2>1, <2>2, <2>3, RemoveAckedIs
  <1>2. CASE ~(b > rseq[r])
    <2>1. /\ rseq' = IF rseq[r] = Infinity THEN [rseq EXCEPT ![r] = seq] ELSE rseq
          /\ UNCHANGED <<acked, matched, gcq, mode, indexed, woken>>
      BY <1>2 DEF Acknowledge, fate
    <2>2. acked \in Nat /\ acked <= seq /\ woken \in SUBSET Threads
      BY DEF TypeOK, SeqInv
    <2>3. rseq' \in [Readers -> Nat] /\ rseq'[r] # Infinity
      BY <1>0, <2>1, WriterCount
    <2>4. \A i \in Readers : rseq'[i] <= seq \/ rseq'[i] = Infinity
      BY <1>0, <2>1
    <2> QED
      BY <2>1, <2>2, <2>3, <2>4
  <1> QED
    BY <1>1, <1>2

\* A reader is taken for gone: all it has not acknowledged is.
LEMMA AckAllIs ==
    ASSUME TypeOK, SeqInv, NEW r \in matched,
           RemoveAcked(gcq, matched, [rseq EXCEPT ![r] = Infinity])
    PROVE  /\ acked' \in Nat /\ acked' <= seq /\ matched' = matched
           /\ rseq' \in [Readers -> Nat]
           /\ \A i \in Readers : rseq'[i] <= seq \/ rseq'[i] = Infinity
           /\ woken' \in SUBSET Threads
           /\ {t \in Threads : pc[t] \in {"blocked", "acking"}} \subseteq woken'
           /\ \/ mode = LINGERING /\ acked' = seq /\ DeleteLocked(gcq)
              \/ UNCHANGED <<gcq, mode, indexed>>
  <1> DEFINE f == [rseq EXCEPT ![r] = Infinity]
  <1>1. matched \in SUBSET Readers /\ r \in Readers
    BY DEF TypeOK
  <1>2. /\ f \in [Readers -> Nat]
        /\ \A i \in Readers : f[i] <= seq \/ f[i] = Infinity
    BY <1>1, WriterCount DEF TypeOK, SeqInv
  <1> HIDE DEF f
  <1>3. RemoveAcked(gcq, matched, f)
    BY DEF f
  <1> QED
    BY <1>1, <1>2, <1>3, RemoveAckedIs

\* A reader is removed when the collector comes to it.
LEMMA CollectIs ==
    ASSUME TypeOK, SeqInv, NEW r \in Readers,
           RemoveAcked(Tail(gcq), matched \ {r}, rseq)
    PROVE  /\ acked' \in Nat /\ acked' <= seq
           /\ (\A i \in matched \ {r} : rseq[i] = Infinity) => acked' = seq
           /\ matched' = matched \ {r} /\ rseq' = rseq
           /\ woken' \in SUBSET Threads
           /\ {t \in Threads : pc[t] \in {"blocked", "acking"}} \subseteq woken'
           /\ \/ mode = LINGERING /\ acked' = seq /\ DeleteLocked(Tail(gcq))
              \/ gcq' = Tail(gcq) /\ UNCHANGED <<mode, indexed>>
  <1>1. /\ matched \ {r} \in SUBSET Readers /\ rseq \in [Readers -> Nat]
        /\ \A i \in Readers : rseq[i] <= seq \/ rseq[i] = Infinity
    BY DEF TypeOK, SeqInv
  <1> QED
    BY <1>1, RemoveAckedIs

\* Steps of the application's threads and of dds_delete.
LEMMA FateApplication ==
    ASSUME TypeOK, Api, FateInv,
           \/ \E t \in Writers : StartWrite(t) \/ Writing(t) \/ TimeOut(t)
           \/ \E t \in Waiters : StartWait(t) \/ Waiting(t) \/ WaitTimesOut(t)
           \/ StartDelete \/ Deleting
    PROVE  FateInv' /\ gcq' \in Seq(Requests)
  <1>0. gcq \in Seq(Requests)
    BY DEF TypeOK
  <1>1. ASSUME NEW t \in Writers,
               \/ StartWrite(t) \/ LockWriter(t) \/ WriteSample(t) \/ Throttle(t)
               \/ Continue(t) \/ TimeOut(t)
        PROVE  FateInv' /\ gcq' = gcq
    <2>1. /\ UNCHANGED <<mode, indexed, gcq, notifying, freed, linger, arg>>
          /\ awake \subseteq awake' /\ \E p : Goto(t, p)
      BY <1>1 DEF StartWrite, LockWriter, WriteSample, Throttle, Continue, TimeOut,
         LeaveThrottle, fate
    <2>2. \A u \in {Receiver, Discovery, Events, Deleter} : pc'[u] = pc[u]
      BY <2>1, Roles DEF Goto, TypeOK
    <2> QED
      BY <2>1, <2>2, FateKept
  <1>2. ASSUME NEW t \in Writers, Block(t) \/ EndWrite(t)
        PROVE  FateInv' /\ gcq' \in Seq(Requests)
    <2>1. /\ Asleep(t) /\ (Goto(t, "blocked") \/ Goto(t, "idle"))
          /\ UNCHANGED <<mode, indexed, notifying, freed, linger, arg>>
          /\ pc[t] \in {"sending", "blocked", "ending"}
      BY <1>2 DEF Block, EndWrite, InThrottle, At
    <2> QED
      BY <2>1, FateSleeps, Roles
  <1>3. ASSUME NEW t \in Waiters, StartWait(t) \/ Waiting(t) \/ WaitTimesOut(t)
        PROVE  FateInv' /\ gcq' = gcq
    <2>1. /\ UNCHANGED <<mode, indexed, gcq, notifying, freed, linger, awake>>
          /\ \E p : Goto(t, p)
          /\ arg' = arg \/ arg' = [arg EXCEPT ![t] = seq]
      BY <1>3 DEF StartWait, Waiting, EnterWait, RecheckWait, WaitCheck, WaitTimesOut,
         fate
    <2>2. \A u \in {Receiver, Discovery, Events, Deleter} : pc'[u] = pc[u] /\ arg'[u] = arg[u]
      BY <2>1, Roles DEF Goto, TypeOK
    <2> QED
      BY <2>1, <2>2, FateKept
  <1>4. CASE StartDelete \/ Interrupt \/ Closed
    <2>1. /\ UNCHANGED <<indexed, gcq, notifying, freed, arg, linger>>
          /\ awake \subseteq awake'
          /\ \E p \in {"lock", "closewait", "gone"} : Goto(Deleter, p)
          /\ mode' = mode \/ (mode' = INTERRUPT /\ pc[Deleter] = "lock")
      BY <1>4 DEF StartDelete, Interrupt, Closed, fate, At
    <2>2. /\ \A u \in {Receiver, Discovery, Events} : pc'[u] = pc[u]
          /\ pc'[Deleter] \in {"lock", "closewait", "gone"}
      BY <2>1, Roles DEF Goto, TypeOK
    <2>3. pc[Deleter] = "lock" => mode = OPERATIONAL
      BY DEF Api, DeleteInv
    <2> QED
      BY <1>0, <2>1, <2>2, <2>3, FateKept DEF OPERATIONAL, INTERRUPT, DELETING
  <1>5. CASE DeleteWriter
    <2>1. /\ UNCHANGED <<notifying, freed, arg, awake>> /\ Goto(Deleter, "closed")
          /\ pc[Deleter] = "close"
          /\ \/ DeleteLocked(gcq) /\ linger' = linger
             \/ mode' = LINGERING /\ linger' = "set" /\ UNCHANGED <<indexed, gcq>>
      BY <1>5 DEF DeleteWriter, At
    <2>2. /\ \A u \in {Receiver, Discovery, Events} : pc'[u] = pc[u]
          /\ pc'[Deleter] = "closed"
      BY <2>1, Roles DEF Goto, TypeOK
    <2>3. Reaching' = Reaching
      BY <2>1, <2>2 DEF Reaching
    <2>4. CASE DeleteLocked(gcq) /\ linger' = linger
      BY <1>0, <2>1, <2>2, <2>3, <2>4, FateStep DEF FateInv, At
    <2>5. CASE mode' = LINGERING /\ linger' = "set" /\ UNCHANGED <<indexed, gcq>>
      <3>1. mode = INTERRUPT
        BY <2>1 DEF Api, DeleteInv
      <3>2. pc'[Events] # "delete"
        BY <2>2, <3>1 DEF FateInv, At
      <3>3. FateInv'
        BY <2>1, <2>2, <2>3, <2>5, <3>1, <3>2
           DEF FateInv, At, OPERATIONAL, INTERRUPT, LINGERING, DELETING
      <3> QED
        BY <1>0, <2>5, <3>3
    <2> QED
      BY <2>1, <2>4, <2>5
  <1>6. CASE CloseSleeps
    <2>1. /\ Asleep(Deleter) /\ Goto(Deleter, "waitnull") /\ pc[Deleter] = "closed"
          /\ UNCHANGED <<mode, indexed, notifying, freed, linger, arg>>
      BY <1>6 DEF CloseSleeps, At
    <2> QED
      BY <2>1, FateSleeps, Roles
  <1>7. CASE CloseWait
    <2>1. /\ UNCHANGED <<mode, indexed, gcq, notifying, freed, arg, linger>>
          /\ awake' = awake \union {Deleter} /\ pc[Deleter] = "closewait"
          /\ \A u \in Threads \ {Deleter} : pc'[u] = pc[u]
      BY <1>7 DEF CloseWait, Goto, TypeOK, fate, At
    <2>2. indexed
      BY <2>1 DEF Api, DeleteInv, FateInv, INTERRUPT, DELETING
    <2> QED
      BY <1>0, <2>1, <2>2, FateEnters, Roles
  <1> QED
    BY <1>0, <1>1, <1>2, <1>3, <1>4, <1>5, <1>6, <1>7 DEF Writing, Deleting

\* Steps of the threads that handle messages, departures and the linger event.
LEMMA FateHandlers ==
    ASSUME TypeOK, Api, FateInv, SeqInv,
           \/ LingerOver \/ Handling
           \/ \E r \in Readers : StartAckNack(r) \/ ReaderGone(r)
           \/ \E t \in {Receiver, Discovery, Events} : EndHandler(t)
    PROVE  FateInv' /\ gcq' \in Seq(Requests)
  <1>0. /\ gcq \in Seq(Requests) /\ OneWriter(gcq, Reaching) /\ Reaching \subseteq awake
        /\ notifying => gcq # <<>> /\ gcq[1].what = "writer" /\ gcq[1].wait = {}
        /\ At(Events, "delete") => linger = "over"
        /\ pc[Discovery] \in {"ackall", "freeing", "requeue"} => arg[Discovery] \in Readers
    BY DEF TypeOK, FateInv
  <1>1. CASE LingerOver /\ indexed
    <2>1. /\ linger = "set" /\ linger' = "over" /\ awake' = awake \union {Events}
          /\ UNCHANGED <<mode, indexed, gcq, notifying, freed, arg>>
          /\ \A u \in Threads \ {Events} : pc'[u] = pc[u]
      BY <1>1 DEF LingerOver, Goto, TypeOK, fate
    <2> QED
      BY <1>0, <1>1, <2>1, FateEnters, Roles
  <1>2. CASE LingerOver /\ ~indexed
    <2>1. /\ linger = "set" /\ linger' = "over"
          /\ UNCHANGED <<mode, indexed, gcq, notifying, freed, arg, pc, awake>>
      BY <1>2 DEF LingerOver, fate
    <2>2. Reaching' = Reaching
      BY <2>1 DEF Reaching
    <2> QED
      BY <1>0, <2>1, <2>2, FateStep
  <1>3. CASE LingerDelete
    <2>1. /\ DeleteLocked(gcq) /\ Goto(Events, "ending")
          /\ UNCHANGED <<notifying, freed, linger, arg, awake>>
      BY <1>3 DEF LingerDelete
    <2>2. /\ pc'[Events] = "ending"
          /\ \A u \in {Receiver, Discovery, Deleter} : pc'[u] = pc[u]
      BY <2>1, Roles DEF Goto, TypeOK
    <2>3. Reaching' \subseteq Reaching
      BY <2>2 DEF Reaching
    <2>4. OneWriter(gcq, Reaching') /\ Reaching' \subseteq awake'
      BY <1>0, <2>1, <2>3 DEF OneWriter
    <2> QED
      BY <1>0, <2>1, <2>2, <2>3, <2>4, FateStep DEF At
  <1>4. ASSUME NEW r \in Readers, StartAckNack(r)
        PROVE  FateInv' /\ gcq' \in Seq(Requests)
    <2>1. /\ indexed /\ awake' = awake \union {Receiver}
          /\ UNCHANGED <<mode, indexed, gcq, notifying, freed, linger>>
          /\ \A u \in Threads \ {Receiver} : pc'[u] = pc[u] /\ arg'[u] = arg[u]
      BY <1>4 DEF StartAckNack, Goto, TypeOK, fate
    <2> QED
      BY <1>0, <2>1, FateEnters, Roles
  <1>5. CASE NoMatch
    <2>1. /\ UNCHANGED <<mode, indexed, gcq, notifying, freed, linger, arg, awake>>
          /\ Goto(Receiver, "freeing") /\ At(Receiver, "handle")
      BY <1>5 DEF NoMatch, fate
    <2>2. /\ pc'[Receiver] = "freeing"
          /\ \A u \in {Events, Discovery, Deleter} : pc'[u] = pc[u]
      BY <2>1, Roles DEF Goto, TypeOK
    <2> QED
      BY <1>0, <2>1, <2>2, FateKept
  <1>6. ASSUME NEW r \in Readers, NEW b \in 0..seq, AckNack(r, b)
        PROVE  FateInv' /\ gcq' \in Seq(Requests)
    <2>1. /\ r \in matched /\ Acknowledge(r, b) /\ Goto(Receiver, "freeing")
          /\ pc[Receiver] = "handle"
          /\ UNCHANGED <<notifying, freed, linger, arg, awake>>
      BY <1>6 DEF AckNack, At
    <2>2. /\ pc'[Receiver] = "freeing"
          /\ \A u \in {Events, Discovery, Deleter} : pc'[u] = pc[u]
      BY <2>1, Roles DEF Goto, TypeOK
    <2>3. Reaching' \subseteq Reaching
      BY <2>1, <2>2 DEF Reaching
    <2>4. OneWriter(gcq, Reaching') /\ Reaching' \subseteq awake'
      BY <1>0, <2>1, <2>3 DEF OneWriter
    <2>5. DeleteLocked(gcq) \/ (gcq' = gcq /\ UNCHANGED <<mode, indexed>>)
      BY <2>1, AcknowledgeIs
    <2> QED
      BY <1>0, <2>1, <2>2, <2>3, <2>4, <2>5, FateStep DEF At
  <1>7. ASSUME NEW r \in Readers, ReaderGone(r)
        PROVE  FateInv' /\ gcq' \in Seq(Requests)
    <2>1. /\ UNCHANGED <<mode, indexed, gcq, notifying, freed, linger>>
          /\ awake' = awake \union {Discovery} /\ arg'[Discovery] = r
          /\ \A u \in Threads \ {Discovery} : pc'[u] = pc[u] /\ arg'[u] = arg[u]
          /\ ~indexed => pc'[Discovery] = "requeue"
      BY <1>7, Roles DEF ReaderGone, Goto, TypeOK, fate
    <2>2. CASE indexed
      BY <1>0, <2>1, <2>2, FateEnters, Roles
    <2>3. CASE ~indexed
      <3>1. Reaching' \subseteq Reaching
        BY <2>1, <2>3, Roles DEF Reaching
      <3>2. OneWriter(gcq, Reaching') /\ Reaching' \subseteq awake'
        BY <1>0, <2>1, <3>1 DEF OneWriter
      <3> QED
        BY <1>0, <2>1, <3>1, <3>2, FateStep, Roles DEF At
    <2> QED
      BY <2>2, <2>3
  <1>8. CASE AckAll
    <2>1. /\ Goto(Discovery, "freeing") /\ pc[Discovery] = "ackall"
          /\ UNCHANGED <<notifying, freed, linger, arg, awake>>
          /\ \/ /\ arg[Discovery] \in matched
                /\ RemoveAcked(gcq, matched, [rseq EXCEPT ![arg[Discovery]] = Infinity])
             \/ UNCHANGED <<gcq, mode, indexed>>
      BY <1>8 DEF AckAll, At, fate
    <2>2. /\ pc'[Discovery] = "freeing"
          /\ \A u \in {Events, Receiver, Deleter} : pc'[u] = pc[u]
      BY <2>1, Roles DEF Goto, TypeOK
    <2>3. Reaching' \subseteq Reaching
      BY <2>1, <2>2 DEF Reaching
    <2>4. OneWriter(gcq, Reaching') /\ Reaching' \subseteq awake'
      BY <1>0, <2>1, <2>3 DEF OneWriter
    <2>5. DeleteLocked(gcq) \/ (gcq' = gcq /\ UNCHANGED <<mode, indexed>>)
      BY <2>1, AckAllIs
    <2>6. arg'[Discovery] \in Readers
      BY <1>0, <2>1
    <2> QED
      BY <1>0, <2>1, <2>2, <2>3, <2>4, <2>5, <2>6, FateStep DEF At
  <1>9. CASE QueueReader
    <2> DEFINE q == Append(gcq, [what |-> arg[Discovery], wait |-> awake])
    <2>1. /\ Goto(Discovery, "ending") /\ gcq' = q
          /\ pc[Discovery] \in {"freeing", "requeue"}
          /\ UNCHANGED <<mode, indexed, notifying, freed, linger, arg, awake>>
      BY <1>9 DEF QueueReader, At
    <2>2. /\ pc'[Discovery] = "ending"
          /\ \A u \in {Events, Receiver, Deleter} : pc'[u] = pc[u]
      BY <2>1, Roles DEF Goto, TypeOK
    <2>3. Reaching' \subseteq Reaching
      BY <2>2, Roles DEF Reaching
    <2>4. arg[Discovery] \in Readers /\ awake \in SUBSET Threads
      BY <1>0, <2>1 DEF TypeOK
    <2>5. /\ q \in Seq(Requests) /\ (NoWriter(gcq) => NoWriter(q))
          /\ OneWriter(q, Reaching) /\ (gcq # <<>> => q # <<>> /\ q[1] = gcq[1])
      BY <1>0, <2>4, AppendReader
    <2> HIDE DEF q
    <2>6. OneWriter(q, Reaching') /\ Reaching' \subseteq awake'
      BY <1>0, <2>1, <2>3, <2>5 DEF OneWriter
    <2> QED
      BY <1>0, <2>1, <2>2, <2>3, <2>5, <2>6, FateStep DEF At
  <1>10. ASSUME NEW t \in {Receiver, Discovery, Events}, EndHandler(t)
         PROVE  FateInv' /\ gcq' \in Seq(Requests)
    <2>1. /\ Asleep(t) /\ Goto(t, "idle") /\ t \in Threads
          /\ UNCHANGED <<mode, indexed, notifying, freed, linger>>
          /\ \A u \in Threads \ {t} : arg'[u] = arg[u]
      BY <1>10, Roles DEF EndHandler, At, TypeOK
    <2> QED
      BY <2>1, FateSleeps
  <1> QED
    BY <1>1, <1>2, <1>3, <1>4, <1>5, <1>6, <1>7, <1>8, <1>9, <1>10 DEF Handling

\* Steps of the collector: it frees the writer once, when all have slept.
LEMMA FateCollector ==
    ASSUME TypeOK, Api, FateInv, SeqInv, Collect
    PROVE  FateInv' /\ gcq' \in Seq(Requests)
  <1>0. /\ gcq \in Seq(Requests) /\ OneWriter(gcq, Reaching) /\ Reaching \subseteq awake
        /\ gcq # <<>> => 1 \in 1..Len(gcq)
    BY DEF TypeOK, FateInv
  <1>1. UNCHANGED <<pc, arg, awake, linger>>
    BY DEF Collect, CollectReader, CollectWriter, FreeWriter
  <1>2. Reaching' = Reaching
    BY <1>1 DEF Reaching
  <1>3. ASSUME NEW r \in Readers, CollectReader(r)
        PROVE  FateInv' /\ gcq' \in Seq(Requests)
    <2>1. /\ gcq # <<>> /\ gcq[1].what = r /\ UNCHANGED <<notifying, freed>>
          /\ \/ RemoveAcked(Tail(gcq), matched \ {r}, rseq)
             \/ gcq' = Tail(gcq) /\ UNCHANGED <<mode, indexed>>
      BY <1>3 DEF CollectReader, Due
    <2>2. ~notifying
      BY <2>1, ThrottleAssumption DEF FateInv
    <2>3. DeleteLocked(Tail(gcq)) \/ (gcq' = Tail(gcq) /\ UNCHANGED <<mode, indexed>>)
      BY <2>1, CollectIs
    <2>4. /\ Tail(gcq) \in Seq(Requests) /\ OneWriter(Tail(gcq), Reaching)
          /\ NoWriter(gcq) => NoWriter(Tail(gcq))
      BY <1>0, <2>1, TailOf
    <2> QED
      BY <1>1, <1>2, <2>1, <2>2, <2>3, <2>4, FateStep DEF FateInv, At
  <1>4. CASE CollectWriter
    <2>1. /\ gcq # <<>> /\ gcq[1].what = "writer" /\ gcq[1].wait = {}
          /\ UNCHANGED <<mode, indexed, gcq, freed>>
      BY <1>4 DEF CollectWriter, Due, fate
    <2> QED
      BY <1>0, <1>1, <1>2, <2>1 DEF FateInv, At
  <1>5. CASE FreeWriter
    <2>1. /\ notifying /\ ~notifying' /\ freed' = TRUE /\ gcq' = Tail(gcq)
          /\ UNCHANGED <<mode, indexed>>
      BY <1>5 DEF FreeWriter
    <2>2. gcq # <<>> /\ gcq[1].what = "writer" /\ gcq[1].wait = {}
      BY <2>1 DEF FateInv
    <2>3. mode = DELETING
      BY <1>0, <2>2 DEF FateInv, NoWriter
    <2>4. Reaching = {}
      BY <1>0, <2>2 DEF OneWriter
    <2>5. NoWriter(gcq') /\ gcq' \in Seq(Requests) /\ OneWriter(gcq', Reaching)
      BY <1>0, <2>1, <2>2, TailOf
    <2> QED
      BY <1>1, <1>2, <2>1, <2>3, <2>4, <2>5 DEF FateInv, At
  <1> QED
    BY <1>3, <1>4, <1>5 DEF Collect

-----------------------------------------------------------------------------
(* Sequence numbers, retransmitting and what waits are for.                *)

Cache == SeqInv /\ RexmitInv /\ WaitInv

\* Numbers stay what they are, and no further call is in progress.
LEMMA CacheKept ==
    ASSUME TypeOK, Cache, UNCHANGED <<seq, acked, rexmit, matched, rseq>>,
           mode' = OPERATIONAL => mode = OPERATIONAL,
           \A t \in Writers : pc'[t] \in Pending => pc[t] \in Pending,
           \A t \in Waiters : pc'[t] = "acking" => arg'[t] \in 0..seq
    PROVE  Cache'
  <1>1. InProgress \in SUBSET Writers /\ InProgress' \subseteq InProgress
    BY DEF InProgress
  <1>2. Cardinality(InProgress') <= Cardinality(InProgress)
    BY <1>1, ProgressCount, FS_Subset
  <1>3. Cardinality(InProgress) \in Nat /\ Cardinality(InProgress') \in Nat
    BY <1>1, ProgressCount
  <1>4. SeqInv'
    BY <1>2, <1>3, WriterCount, ThrottleAssumption DEF Cache, SeqInv, TypeOK
  <1>5. RexmitInv' /\ WaitInv'
    BY DEF Cache, RexmitInv, WaitInv, At
  <1> QED
    BY <1>4, <1>5 DEF Cache

\* A sample is accepted: it is not taken for acknowledged as long as a reader
\* is behind, nor is any other that somebody waits for.
LEMMA AcceptIs ==
    ASSUME TypeOK, SeqInv, RexmitInv, NEW t \in Writers, pc[t] \in Pending, Accept
    PROVE  /\ seq' \in Nat /\ acked' \in Nat /\ acked' <= seq'
           /\ seq' \in {seq, seq + 1} /\ seq' < Infinity
           /\ mode = OPERATIONAL /\ rexmit => acked' # seq'
           /\ \A n \in 0..seq : n > MaxDrop(matched, rseq, seq) =>
                                n > MaxDrop(matched, rseq, seq')
  <1>1. /\ seq \in Nat /\ acked \in Nat /\ acked <= seq
        /\ matched \in SUBSET Readers /\ rseq \in [Readers -> Nat]
        /\ \A i \in matched : rseq[i] <= seq \/ rseq[i] = Infinity
        /\ \A i \in matched : rseq[i] \in Nat
        /\ seq < Infinity /\ seq + 1 < Infinity
    BY SeqBound DEF TypeOK, SeqInv
  <1>2. CASE mode # OPERATIONAL
    <2>1. UNCHANGED <<seq, acked>>
      BY <1>2 DEF Accept
    <2> QED
      BY <1>1, <1>2, <2>1
  <1>3. CASE mode = OPERATIONAL
    <2> DEFINE d == MaxDrop(matched, rseq, seq + 1)
               c == MaxDrop(matched, rseq, seq)
    <2>1. seq' = seq + 1 /\ acked' = IF d = seq + 1 THEN d ELSE acked
      BY <1>3 DEF Accept
    <2>2. /\ d \in Nat /\ d <= seq + 1
          /\ (\E i \in matched : rseq[i] # Infinity) =>
                /\ \A i \in matched : d <= rseq[i]
                /\ \E i \in matched : d = rseq[i]
      <3>1. \A i \in matched : rseq[i] <= seq + 1 \/ rseq[i] = Infinity
        BY <1>1
      <3> QED
        BY <1>1, <3>1, MaxDropIs
    <2>3. /\ c \in Nat
          /\ (\A i \in matched : rseq[i] = Infinity) => c = seq
          /\ (\E i \in matched : rseq[i] # Infinity) =>
                /\ \A i \in matched : c <= rseq[i]
                /\ \E i \in matched : c = rseq[i]
      BY <1>1, MaxDropIs
    <2> HIDE DEF c, d
    <2>4. (\E i \in matched : rseq[i] # Infinity) => d # seq + 1 /\ d = c
      BY <1>1, <2>2, <2>3
    <2>5. rexmit => acked' # seq'
      BY <1>1, <1>3, <2>1, <2>4 DEF RexmitInv
    <2>6. \A n \in 0..seq : n > c => n > d
      BY <1>1, <2>3, <2>4
    <2> QED
      BY <1>1, <2>1, <2>2, <2>5, <2>6 DEF c, d
  <1> QED
    BY <1>2, <1>3

\* A thread is through with its sample.
LEMMA CacheAccept ==
    ASSUME TypeOK, Cache, NEW t \in Writers, pc[t] \in Pending, Accept,
           Goto(t, "ending"), UNCHANGED <<mode, rexmit, matched, rseq, arg>>
    PROVE  Cache'
  <1>1. /\ pc'[t] = "ending" /\ \A u \in Threads \ {t} : pc'[u] = pc[u]
    BY Roles DEF Goto, TypeOK
  <1>2. /\ seq' \in Nat /\ acked' \in Nat /\ acked' <= seq' /\ seq \in Nat
        /\ seq' \in {seq, seq + 1}
        /\ mode = OPERATIONAL /\ rexmit => acked' # seq'
    BY AcceptIs DEF Cache, TypeOK
  <1>3. InProgress' = InProgress \ {t} /\ t \in InProgress
    BY <1>1, Roles DEF InProgress, Pending
  <1>4. IsFiniteSet(InProgress) /\ Cardinality(InProgress) \in Nat
    <2>1. InProgress \in SUBSET Writers
      BY DEF InProgress
    <2> QED
      BY <2>1, ProgressCount
  <1>5. Cardinality(InProgress') = Cardinality(InProgress) - 1
    BY <1>3, <1>4, FS_RemoveElement
  <1>6. SeqInv'
    <2>1. \A r \in Readers : rseq'[r] <= seq' \/ rseq'[r] = Infinity
      BY <1>2 DEF Cache, SeqInv, TypeOK
    <2> QED
      BY <1>2, <1>4, <1>5, <2>1, WriterCount, ThrottleAssumption DEF Cache, SeqInv
  <1>7. RexmitInv'
    BY <1>2 DEF Cache, RexmitInv
  <1>8. WaitInv'
    BY <1>1, <1>2, Roles DEF Cache, WaitInv, At
  <1> QED
    BY <1>6, <1>7, <1>8 DEF Cache

\* Readers acknowledge, or leave.
LEMMA CacheAcked ==
    ASSUME TypeOK, Cache, seq' = seq, acked' <= seq,
           \A i \in Readers : rseq'[i] <= seq \/ rseq'[i] = Infinity,
           mode' = OPERATIONAL /\ rexmit' =>
               acked' # seq /\ \E i \in matched' : rseq'[i] # Infinity,
           \A t \in Writers \union Waiters : pc'[t] = pc[t] /\ arg'[t] = arg[t]
    PROVE  Cache'
  <1>1. InProgress' = InProgress
    BY DEF InProgress
  <1>2. SeqInv'
    BY <1>1 DEF Cache, SeqInv
  <1>3. RexmitInv' /\ WaitInv'
    BY DEF Cache, RexmitInv, WaitInv, At
  <1> QED
    BY <1>2, <1>3 DEF Cache

\* Steps of the application's threads and of dds_delete.
LEMMA CacheApplication ==
    ASSUME TypeOK, Api, Cache,
           \/ \E t \in Writers : StartWrite(t) \/ Writing(t) \/ TimeOut(t)
           \/ \E t \in Waiters : StartWait(t) \/ Waiting(t) \/ WaitTimesOut(t)
           \/ StartDelete \/ Deleting
    PROVE  Cache'
  <1>1. ASSUME NEW t \in Writers, StartWrite(t)
        PROVE  Cache'
    <2>1. /\ seq < MaxSeq /\ Goto(t, "lock") /\ seq \in Nat
          /\ UNCHANGED <<seq, acked, rexmit, matched, rseq, arg, mode>>
      BY <1>1 DEF StartWrite, cache, links, fate, TypeOK
    <2>2. \A u \in Waiters : pc'[u] = pc[u]
      BY <2>1, Roles DEF Goto, TypeOK
    <2>3. InProgress' \in SUBSET Writers
      BY DEF InProgress
    <2>4. SeqInv'
      BY <2>1, <2>3, ProgressCount, WriterCount, ThrottleAssumption DEF Cache, SeqInv
    <2> QED
      BY <2>1, <2>2, <2>4 DEF Cache, RexmitInv, WaitInv, At
  <1>2. ASSUME NEW t \in Writers, WriteSample(t) \/ Continue(t)
        PROVE  Cache'
    <2>1. /\ pc[t] \in Pending /\ Accept /\ Goto(t, "ending")
          /\ UNCHANGED <<mode, rexmit, matched, rseq, arg>>
      BY <1>2 DEF WriteSample, Continue, LeaveThrottle, InThrottle, At, Pending,
         links, fate
    <2> QED
      BY <2>1, CacheAccept
  <1>3. ASSUME NEW t \in Writers,
               LockWriter(t) \/ Throttle(t) \/ Block(t) \/ TimeOut(t) \/ EndWrite(t)
        PROVE  Cache'
    <2>1. /\ UNCHANGED <<seq, acked, rexmit, matched, rseq, arg, mode>>
          /\ \E p : Goto(t, p) /\ (p \in Pending => pc[t] \in Pending)
      <3>1. LockWriter(t) => pc[t] = "lock"
        BY DEF LockWriter, At
      <3>2. Throttle(t) \/ Block(t) => pc[t] \in Pending
        BY DEF Throttle, Block, InThrottle, At, Pending
      <3>3. TimeOut(t) => Goto(t, "ending")
        BY DEF TimeOut, LeaveThrottle
      <3>4. EndWrite(t) => Goto(t, "idle")
        BY DEF EndWrite
      <3> QED
        BY <1>3, <3>1, <3>2, <3>3, <3>4 DEF LockWriter, Throttle, Block, TimeOut,
           EndWrite, cache, links, fate, Pending
    <2>2. \A u \in Threads \ {t} : pc'[u] = pc[u]
      BY <2>1 DEF Goto, TypeOK
    <2>3. \A u \in Writers : pc'[u] \in Pending => pc[u] \in Pending
      BY <2>1, <2>2, Roles DEF Goto, TypeOK
    <2>4. \A u \in Waiters : pc'[u] = "acking" => arg'[u] \in 0..seq
      BY <2>1, <2>2, Roles DEF Cache, WaitInv, At
    <2> QED
      BY <2>1, <2>3, <2>4, CacheKept
  <1>4. ASSUME NEW t \in Waiters, StartWait(t) \/ Waiting(t) \/ WaitTimesOut(t)
        PROVE  Cache'
    <2>1. /\ UNCHANGED <<seq, acked, rexmit, matched, rseq, mode>>
          /\ \E p : Goto(t, p)
          /\ \/ pc' = [pc EXCEPT ![t] = "entering"] \/ pc' = [pc EXCEPT ![t] = "idle"]
             \/ arg' = arg /\ pc[t] = "acking"
             \/ arg' = [arg EXCEPT ![t] = seq]
          /\ arg' = arg \/ arg' = [arg EXCEPT ![t] = seq]
      BY <1>4 DEF StartWait, Waiting, EnterWait, RecheckWait, WaitTimesOut, WaitCheck,
         Goto, At, cache, links, fate
    <2>2. /\ \A u \in Threads \ {t} : pc'[u] = pc[u] /\ arg'[u] = arg[u]
          /\ pc'[t] = "acking" => (arg' = arg /\ pc[t] = "acking") \/ arg'[t] = seq
      BY <2>1, Roles DEF Goto, TypeOK
    <2>3. \A u \in Writers : pc'[u] = pc[u]
      BY <2>2, Roles
    <2>4. \A u \in Waiters : pc'[u] = "acking" => arg'[u] \in 0..seq
      BY <2>2, Roles DEF Cache, WaitInv, At, TypeOK
    <2> QED
      BY <2>1, <2>3, <2>4, CacheKept
  <1>5. CASE StartDelete \/ Deleting
    <2>1. /\ UNCHANGED <<seq, acked, rexmit, matched, rseq, arg>>
          /\ \E p : Goto(Deleter, p)
          /\ mode' = OPERATIONAL => mode = OPERATIONAL
      BY <1>5 DEF StartDelete, Deleting, Interrupt, CloseWait, DeleteWriter,
         CloseSleeps, Closed, DeleteLocked, cache, links, fate,
         OPERATIONAL, INTERRUPT, LINGERING, DELETING
    <2>2. \A u \in Writers \union Waiters : pc'[u] = pc[u]
      BY <2>1, Roles DEF Goto, TypeOK
    <2> QED
      BY <2>1, <2>2, CacheKept DEF Cache, WaitInv, At
  <1> QED
    BY <1>1, <1>2, <1>3, <1>4, <1>5 DEF Writing, Deleting

\* Steps of the other threads and the collector.
LEMMA CacheOthers ==
    ASSUME TypeOK, Api, FateInv, Cache,
           \/ LingerOver \/ Handling \/ Collect
           \/ \E r \in Readers : StartAckNack(r) \/ ReaderGone(r)
           \/ \E t \in {Receiver, Discovery, Events} : EndHandler(t)
    PROVE  Cache'
  <1>0. SeqInv
    BY DEF Cache
  <1>1. CASE \/ LingerOver \/ NoMatch \/ LingerDelete \/ QueueReader \/ FreeWriter
             \/ \E r \in Readers : StartAckNack(r) \/ ReaderGone(r)
             \/ \E t \in {Receiver, Discovery, Events} : EndHandler(t)
    <2>1. /\ UNCHANGED <<seq, acked, rexmit, matched, rseq>>
          /\ mode' = OPERATIONAL => mode = OPERATIONAL
          /\ pc' = pc \/ \E t \in {Receiver, Discovery, Events} : \E p : Goto(t, p)
          /\ arg' = arg \/ \E t \in {Receiver, Discovery, Events} :
                              \E a : arg' = [arg EXCEPT ![t] = a]
      BY <1>1 DEF LingerOver, NoMatch, LingerDelete, QueueReader, FreeWriter,
         StartAckNack, ReaderGone, EndHandler, DeleteLocked, cache, links, fate,
         OPERATIONAL, DELETING
    <2>2. \A u \in Writers \union Waiters : pc'[u] = pc[u] /\ arg'[u] = arg[u]
      BY <2>1, Roles DEF Goto, TypeOK
    <2> QED
      BY <2>1, <2>2, CacheKept DEF Cache, WaitInv, At
  <1>2. ASSUME NEW r \in Readers, NEW b \in 0..seq, AckNack(r, b)
        PROVE  Cache'
    <2>1. /\ r \in matched /\ Acknowledge(r, b) /\ Nack(b) /\ Goto(Receiver, "freeing")
          /\ UNCHANGED <<seq, arg>>
      BY <1>2 DEF AckNack
    <2>2. \A u \in Writers \union Waiters : pc'[u] = pc[u] /\ arg'[u] = arg[u]
      BY <2>1, Roles DEF Goto, TypeOK
    <2>3. /\ acked' \in Nat /\ acked' <= seq /\ matched' = matched /\ rseq'[r] # Infinity
          /\ \A i \in Readers : rseq'[i] <= seq \/ rseq'[i] = Infinity
      BY <1>0, <2>1, AcknowledgeIs
    <2>4. rexmit' => acked' # seq
      <3>1. CASE rexmit' = (rexmit /\ acked' # seq)
        BY <3>1
      <3>2. CASE Larger(b, acked') < seq
        <4>1. b \in Nat /\ acked' \in Nat /\ seq \in Nat
          BY <2>3 DEF TypeOK
        <4> QED
          BY <3>2, <4>1 DEF Larger
      <3> QED
        BY <2>1, <3>1, <3>2 DEF Nack
    <2> QED
      BY <2>1, <2>2, <2>3, <2>4, CacheAcked
  <1>3. CASE AckAll
    <2>1. /\ UNCHANGED <<seq, arg>> /\ Goto(Discovery, "freeing")
          /\ \/ /\ arg[Discovery] \in matched /\ rexmit' = FALSE
                /\ RemoveAcked(gcq, matched, [rseq EXCEPT ![arg[Discovery]] = Infinity])
             \/ UNCHANGED <<acked, matched, rseq, rexmit, mode>>
      BY <1>3 DEF AckAll, fate
    <2>2. \A u \in Writers \union Waiters : pc'[u] = pc[u] /\ arg'[u] = arg[u]
      BY <2>1, Roles DEF Goto, TypeOK
    <2>3. CASE UNCHANGED <<acked, matched, rseq, rexmit, mode>>
      BY <2>1, <2>2, <2>3, CacheKept DEF Cache, WaitInv, At
    <2>4. CASE ~UNCHANGED <<acked, matched, rseq, rexmit, mode>>
      BY <1>0, <2>1, <2>2, <2>4, AckAllIs, CacheAcked
    <2> QED
      BY <2>3, <2>4
  <1>4. ASSUME NEW r \in Readers, CollectReader(r)
        PROVE  Cache'
    <2>1. /\ UNCHANGED <<seq, arg, pc>>
          /\ \/ /\ rexmit' = (rexmit /\ acked' # seq)
                /\ RemoveAcked(Tail(gcq), matched \ {r}, rseq)
             \/ UNCHANGED <<acked, matched, rseq, rexmit, mode>>
      BY <1>4 DEF CollectReader
    <2>2. CASE UNCHANGED <<acked, matched, rseq, rexmit, mode>>
      BY <2>1, <2>2, CacheKept DEF Cache, WaitInv, At
    <2>3. CASE rexmit' = (rexmit /\ acked' # seq)
               /\ RemoveAcked(Tail(gcq), matched \ {r}, rseq)
      <3>1. /\ acked' <= seq /\ matched' = matched \ {r} /\ rseq' = rseq
            /\ (\A i \in matched \ {r} : rseq[i] = Infinity) => acked' = seq
        BY <1>0, <2>3, CollectIs
      <3> QED
        BY <1>0, <2>1, <2>3, <3>1, CacheAcked DEF SeqInv
    <2> QED
      BY <2>1, <2>2, <2>3
  <1>5. CASE CollectWriter
    <2>1. /\ gcq # <<>> /\ gcq[1].what = "writer" /\ mode' = mode
          /\ UNCHANGED <<seq, acked, rseq, pc, arg>>
      BY <1>5 DEF CollectWriter, Due, cache, fate
    <2>2. mode = DELETING
      <3>1. 1 \in 1..Len(gcq)
        BY <2>1 DEF TypeOK
      <3> QED
        BY <2>1, <3>1 DEF FateInv, NoWriter
    <2> QED
      BY <1>0, <2>1, <2>2, CacheAcked DEF SeqInv, OPERATIONAL, DELETING
  <1> QED
    BY <1>1, <1>2, <1>3, <1>4, <1>5 DEF Handling, Collect

-----------------------------------------------------------------------------
(* Nobody sleeps without a reason.                                         *)

\* Nothing changes that anybody waits for; who starts to wait has a reason.
LEMMA WakeKept ==
    ASSUME NoLostWakeup, UNCHANGED <<conf, mode, seq, acked, rexmit, matched, rseq>>,
           \A t \in Writers : pc'[t] = "blocked" /\ t \notin woken' =>
               (pc[t] = "blocked" /\ t \notin woken) \/ ~MayContinue,
           \A t \in Waiters : pc'[t] = "acking" /\ t \notin woken' =>
               \/ pc[t] = "acking" /\ t \notin woken /\ arg'[t] = arg[t]
               \/ mode = OPERATIONAL /\ arg'[t] > MaxDrop(matched, rseq, seq)
    PROVE  NoLostWakeup'
  <1>1. MayContinue' <=> MayContinue
    BY DEF MayContinue, Unacked
  <1>2. MaxDrop(matched', rseq', seq') = MaxDrop(matched, rseq, seq)
    OBVIOUS
  <1> QED
    BY <1>1, <1>2 DEF NoLostWakeup, At

\* That a reader counts again lets nobody go on.
LEMMA CountsAgain ==
    ASSUME TypeOK, SeqInv, NEW r \in matched,
           \/ rseq' = rseq
           \/ rseq[r] = Infinity /\ rseq' = [rseq EXCEPT ![r] = seq]
    PROVE  \A n \in 0..seq : n > MaxDrop(matched, rseq, seq) =>
                             n > MaxDrop(matched, rseq', seq)
  <1>1. CASE rseq' = rseq
    BY <1>1
  <1>2. CASE rseq[r] = Infinity /\ rseq' = [rseq EXCEPT ![r] = seq]
    <2> DEFINE f == [rseq EXCEPT ![r] = seq]
               c == MaxDrop(matched, rseq, seq)
               d == MaxDrop(matched, f, seq)
    <2>1. /\ seq \in Nat /\ seq < Infinity /\ Infinity \in Nat
          /\ matched \in SUBSET Readers /\ rseq \in [Readers -> Nat]
          /\ \A i \in Readers : rseq[i] <= seq \/ rseq[i] = Infinity
      BY SeqBound, WriterCount DEF TypeOK, SeqInv
    <2>2. /\ f \in [Readers -> Nat] /\ f[r] = seq
          /\ \A i \in matched : i # r => f[i] = rseq[i]
          /\ \A i \in Readers : f[i] <= seq \/ f[i] = Infinity
      BY <2>1
    <2> HIDE DEF f
    <2>3. /\ c \in Nat /\ c <= seq
          /\ (\A i \in matched : rseq[i] = Infinity) => c = seq
          /\ (\E i \in matched : rseq[i] # Infinity) =>
                \E i \in matched : c = rseq[i]
      BY <2>1, MaxDropNow
    <2>4. d \in Nat /\ \A i \in matched : d <= f[i]
      <3>1. f[r] # Infinity
        BY <2>1, <2>2
      <3> QED
        BY <2>1, <2>2, <3>1, MaxDropNow
    <2> HIDE DEF c, d
    <2>5. d <= c
      <3>1. CASE \A i \in matched : rseq[i] = Infinity
        BY <2>2, <2>3, <2>4, <3>1
      <3>2. CASE \E i \in matched : rseq[i] # Infinity
        <4>1. PICK j \in matched : c = rseq[j]
          BY <2>3, <3>2
        <4>2. j # r
          BY <1>2, <2>1, <2>3, <4>1
        <4> QED
          BY <2>2, <2>4, <4>1, <4>2
      <3> QED
        BY <3>1, <3>2
    <2>6. \A n \in 0..seq : n > c => n > d
      BY <2>1, <2>3, <2>4, <2>5
    <2> QED
      BY <1>2, <2>6 DEF c, d, f
  <1> QED
    BY <1>1, <1>2

\* Everybody who waits is woken.
LEMMA AllWoken ==
    ASSUME {t \in Threads : pc[t] \in {"blocked", "acking"}} \subseteq woken',
           \A t \in Writers \union Waiters : pc'[t] = pc[t]
    PROVE  NoLostWakeup'
  BY Roles DEF NoLostWakeup, At

\* From the time the writer is deleted nobody waits.
LEMMA NobodyWaits ==
    ASSUME Api, mode \in {LINGERING, DELETING}
    PROVE  \A t \in Writers \union Waiters : pc[t] = "idle"
  <1>1. pc[Deleter] \in {"closed", "waitnull", "gone"}
    BY DEF Api, PcInv, DeleteInv, OPERATIONAL, INTERRUPT, LINGERING, DELETING
  <1>2. pinned = {Deleter}
    BY <1>1 DEF Api, DeleteInv
  <1> QED
    BY <1>2, Roles DEF Api, HandleInv

\* Who makes no call does not wait.
LEMMA WakeIdle ==
    ASSUME \A t \in Writers \union Waiters : pc'[t] = "idle"
    PROVE  NoLostWakeup'
  BY DEF NoLostWakeup, At

\* A sample is accepted by the thread that has the mutex.
LEMMA WakeAccept ==
    ASSUME TypeOK, Api, Cache, NoLostWakeup,
           NEW t \in Writers, pc[t] \in {"write", "sending", "blocked"}, Accept,
           Goto(t, "ending"), UNCHANGED <<mode, matched, rseq, arg>>,
           woken \ {t} \subseteq woken'
    PROVE  NoLostWakeup'
  <1>1. pc'[t] = "ending" /\ \A u \in Threads \ {t} : pc'[u] = pc[u]
    BY Roles DEF Goto, TypeOK
  <1>2. \A u \in Writers : pc'[u] # "blocked"
    <2>1. mutex = t
      BY DEF Api, HandleInv, Locking
    <2>2. \A u \in Writers : pc[u] = "blocked" => u = t
      BY <2>1 DEF Api, HandleInv, Locking
    <2> QED
      BY <1>1, <2>2, Roles
  <1>3. ASSUME NEW u \in Waiters, pc'[u] = "acking", u \notin woken'
        PROVE  mode = OPERATIONAL /\ arg[u] > MaxDrop(matched, rseq, seq')
    <2>1. pc[u] = "acking" /\ u \notin woken
      BY <1>1, <1>3, Roles
    <2>2. mode = OPERATIONAL /\ arg[u] > MaxDrop(matched, rseq, seq)
      BY <2>1 DEF NoLostWakeup, At
    <2>3. arg[u] \in 0..seq
      BY <2>1 DEF Cache, WaitInv, At
    <2> QED
      BY <2>2, <2>3, AcceptIs DEF Cache, Pending
  <1> QED
    BY <1>2, <1>3 DEF NoLostWakeup, At

\* Steps of the application's threads and of dds_delete.
LEMMA WakeApplication ==
    ASSUME TypeOK, Api, Cache, NoLostWakeup,
           \/ \E t \in Writers : StartWrite(t) \/ Writing(t) \/ TimeOut(t)
           \/ \E t \in Waiters : StartWait(t) \/ Waiting(t) \/ WaitTimesOut(t)
           \/ StartDelete \/ Deleting
    PROVE  NoLostWakeup' /\ woken' \in SUBSET Threads
  <1>0. woken \in SUBSET Threads
    BY DEF TypeOK
  <1>1. ASSUME NEW t \in Writers, StartWrite(t) \/ LockWriter(t) \/ Throttle(t)
                                  \/ EndWrite(t)
        PROVE  NoLostWakeup' /\ woken' \in SUBSET Threads
    <2>1. /\ UNCHANGED <<conf, mode, seq, acked, rexmit, matched, rseq, arg, woken>>
          /\ \E p : Goto(t, p) /\ p # "blocked"
      BY <1>1 DEF StartWrite, LockWriter, Throttle, EndWrite, cache, links, fate
    <2>2. /\ \A u \in Threads \ {t} : pc'[u] = pc[u]
          /\ pc'[t] # "blocked"
      BY <2>1, Roles DEF Goto, TypeOK
    <2> QED
      BY <1>0, <2>1, <2>2, WakeKept, Roles
  <1>2. ASSUME NEW t \in Writers, WriteSample(t)
        PROVE  NoLostWakeup' /\ woken' \in SUBSET Threads
    BY <1>0, <1>2, WakeAccept DEF WriteSample, At, links, fate
  <1>3. ASSUME NEW t \in Writers, Block(t)
        PROVE  NoLostWakeup' /\ woken' \in SUBSET Threads
    <2>1. /\ UNCHANGED <<conf, mode, seq, acked, rexmit, matched, rseq, arg>>
          /\ woken' = woken \ {t} /\ Goto(t, "blocked") /\ ~MayContinue
      BY <1>3 DEF Block, cache, links
    <2>2. \A u \in Threads \ {t} : pc'[u] = pc[u]
      BY <2>1 DEF Goto, TypeOK
    <2> QED
      BY <1>0, <2>1, <2>2, WakeKept, Roles
  <1>4. ASSUME NEW t \in Writers, Continue(t) \/ TimeOut(t)
        PROVE  NoLostWakeup' /\ woken' \in SUBSET Threads
    <2>1. /\ UNCHANGED <<conf, mode, rexmit, matched, rseq, arg>>
          /\ Goto(t, "ending") /\ pc[t] \in {"write", "sending", "blocked"}
          /\ Continue(t) => Accept
          /\ TimeOut(t) => UNCHANGED <<seq, acked>>
          /\ IF mode # OPERATIONAL
             THEN woken' = {u \in Threads : u # t /\ pc[u] \in {"blocked", "acking"}}
             ELSE woken' = woken \ {t}
      BY <1>4 DEF Continue, TimeOut, LeaveThrottle, InThrottle, At, cache, links, fate
    <2>2. pc'[t] = "ending" /\ \A u \in Threads \ {t} : pc'[u] = pc[u]
      BY <2>1, Roles DEF Goto, TypeOK
    <2>3. CASE mode # OPERATIONAL
      BY <1>0, <2>1, <2>2, <2>3, Roles DEF NoLostWakeup, At
    <2>4. CASE mode = OPERATIONAL /\ Continue(t)
      BY <1>0, <2>1, <2>4, WakeAccept
    <2>5. CASE mode = OPERATIONAL /\ TimeOut(t)
      BY <1>0, <2>1, <2>2, <2>5, WakeKept, Roles
    <2> QED
      BY <1>4, <2>3, <2>4, <2>5
  <1>5. ASSUME NEW t \in Waiters, StartWait(t) \/ WaitTimesOut(t)
        PROVE  NoLostWakeup' /\ woken' \in SUBSET Threads
    <2>1. /\ UNCHANGED <<conf, mode, seq, acked, rexmit, matched, rseq, arg>>
          /\ woken' = woken \/ woken' = woken \ {t}
          /\ Goto(t, "entering") \/ Goto(t, "idle")
      BY <1>5 DEF StartWait, WaitTimesOut, cache, links, fate
    <2>2. /\ \A u \in Threads \ {t} : pc'[u] = pc[u]
          /\ pc'[t] # "acking"
      BY <2>1, Roles DEF Goto, TypeOK
    <2> QED
      BY <1>0, <2>1, <2>2, WakeKept, Roles
  <1>6. ASSUME NEW t \in Waiters, Waiting(t)
        PROVE  NoLostWakeup' /\ woken' \in SUBSET Threads
    <2>1. PICK ref : WaitCheck(t, ref) /\ \/ ref = seq /\ arg' = [arg EXCEPT ![t] = seq]
                                          \/ ref = arg[t] /\ arg' = arg
      BY <1>6 DEF Waiting, EnterWait, RecheckWait
    <2>2. /\ UNCHANGED <<conf, mode, seq, acked, rexmit, matched, rseq>>
          /\ woken' = woken \ {t}
          /\ \/ Goto(t, "idle")
             \/ /\ Goto(t, "acking") /\ mode = OPERATIONAL
                /\ ref > MaxDrop(matched, rseq, seq)
      BY <2>1 DEF WaitCheck, cache, links, fate
    <2>3. \A u \in Threads \ {t} : pc'[u] = pc[u] /\ arg'[u] = arg[u]
      BY <2>1, <2>2 DEF Goto, TypeOK
    <2>4. arg'[t] = ref
      BY <2>1, Roles DEF TypeOK
    <2>5. pc'[t] = "acking" => mode = OPERATIONAL /\ ref > MaxDrop(matched, rseq, seq)
      BY <2>2, Roles DEF Goto, TypeOK
    <2> QED
      BY <1>0, <2>2, <2>3, <2>4, <2>5, WakeKept, Roles
  <1>7. CASE StartDelete \/ CloseWait \/ CloseSleeps \/ Closed
    <2>1. /\ UNCHANGED <<conf, mode, seq, acked, rexmit, matched, rseq, arg, woken>>
          /\ \E p : Goto(Deleter, p)
      BY <1>7 DEF StartDelete, CloseWait, CloseSleeps, Closed, cache, links, fate
    <2>2. \A u \in Writers \union Waiters : pc'[u] = pc[u]
      BY <2>1, Roles DEF Goto, TypeOK
    <2> QED
      BY <1>0, <2>1, <2>2, WakeKept
  <1>8. CASE Interrupt
    <2>1. /\ woken' = woken \union {t \in Threads : pc[t] \in {"blocked", "acking"}}
          /\ Goto(Deleter, "closewait")
      BY <1>8 DEF Interrupt, WakeAll
    <2>2. \A u \in Writers \union Waiters : pc'[u] = pc[u]
      BY <2>1, Roles DEF Goto, TypeOK
    <2> QED
      BY <1>0, <2>1, <2>2, AllWoken
  <1>9. CASE DeleteWriter
    <2>1. /\ woken' = woken /\ pc[Deleter] = "close" /\ Goto(Deleter, "closed")
      BY <1>9 DEF DeleteWriter, At
    <2>2. \A u \in Writers \union Waiters : pc'[u] = pc[u]
      BY <2>1, Roles DEF Goto, TypeOK
    <2>3. \A u \in Writers \union Waiters : pc[u] = "idle"
      BY <2>1, Roles DEF Api, DeleteInv, HandleInv
    <2> QED
      BY <1>0, <2>1, <2>2, <2>3, WakeIdle
  <1> QED
    BY <1>1, <1>2, <1>3, <1>4, <1>5, <1>6, <1>7, <1>8, <1>9 DEF Writing, Deleting

\* Acknowledgements, departures and the collector wake those they let go on.
LEMMA WakeOthers ==
    ASSUME TypeOK, Api, FateInv, Cache, NoLostWakeup,
           \/ LingerOver \/ Handling \/ Collect
           \/ \E r \in Readers : StartAckNack(r) \/ ReaderGone(r)
           \/ \E t \in {Receiver, Discovery, Events} : EndHandler(t)
    PROVE  NoLostWakeup' /\ woken' \in SUBSET Threads
  <1>0. woken \in SUBSET Threads /\ SeqInv
    BY DEF TypeOK, Cache
  <1>1. \A u \in Writers \union Waiters : pc'[u] = pc[u] /\ arg'[u] = arg[u]
    <2>1. /\ pc' = pc \/ \E t \in {Receiver, Discovery, Events} : \E p : Goto(t, p)
          /\ arg' = arg \/ \E t \in {Receiver, Discovery, Events} :
                              \E a : arg' = [arg EXCEPT ![t] = a]
      BY DEF LingerOver, Handling, NoMatch, AckNack, AckAll, LingerDelete, QueueReader,
         Collect, CollectReader, CollectWriter, FreeWriter, StartAckNack, ReaderGone,
         EndHandler
    <2> QED
      BY <2>1, Roles DEF Goto, TypeOK
  <1>2. CASE mode \in {LINGERING, DELETING}
    <2>1. NoLostWakeup'
      BY <1>1, <1>2, NobodyWaits, WakeIdle
    <2>2. woken' \in SUBSET Threads
      <3>1. ASSUME NEW r \in Readers, NEW b \in 0..seq, AckNack(r, b)
            PROVE  woken' \in SUBSET Threads
        BY <1>0, <3>1, AcknowledgeIs DEF AckNack
      <3>2. CASE AckAll
        BY <1>0, <3>2, AckAllIs DEF AckAll
      <3>3. ASSUME NEW r \in Readers, CollectReader(r)
            PROVE  woken' \in SUBSET Threads
        BY <1>0, <3>3, CollectIs DEF CollectReader
      <3> QED
        BY <1>0, <3>1, <3>2, <3>3 DEF LingerOver, Handling, NoMatch, LingerDelete,
           QueueReader, Collect, CollectWriter, FreeWriter, StartAckNack, ReaderGone,
           EndHandler
    <2> QED
      BY <2>1, <2>2
  <1>3. CASE mode \in {OPERATIONAL, INTERRUPT}
    <2>1. ~At(Events, "delete") /\ mode # DELETING
      BY <1>3 DEF FateInv, OPERATIONAL, INTERRUPT, DELETING
    <2>2. mode # LINGERING
      BY <1>3 DEF OPERATIONAL, INTERRUPT, LINGERING
    <2>3. ~CollectWriter
      <3>1. gcq # <<>> => 1 \in 1..Len(gcq)
        BY DEF TypeOK
      <3> QED
        BY <2>1, <3>1 DEF CollectWriter, Due, FateInv, NoWriter
    <2>4. CASE \/ LingerOver \/ NoMatch \/ QueueReader \/ FreeWriter
               \/ \E r \in Readers : StartAckNack(r) \/ ReaderGone(r)
               \/ \E t \in {Receiver, Discovery, Events} : EndHandler(t)
      <3>1. UNCHANGED <<conf, mode, seq, acked, rexmit, matched, rseq, woken>>
        BY <2>4 DEF LingerOver, NoMatch, QueueReader, FreeWriter, StartAckNack,
           ReaderGone, EndHandler, cache, links, fate
      <3> QED
        BY <1>0, <1>1, <3>1, WakeKept
    <2>5. ASSUME NEW r \in Readers, NEW b \in 0..seq, AckNack(r, b)
          PROVE  NoLostWakeup' /\ woken' \in SUBSET Threads
      <3>1. /\ r \in matched /\ Acknowledge(r, b) /\ Nack(b)
            /\ UNCHANGED <<conf, seq>>
        BY <2>5 DEF AckNack
      <3>2. /\ woken' \in SUBSET Threads /\ matched' = matched /\ mode' = mode
            /\ \/ {t \in Threads : pc[t] \in {"blocked", "acking"}} \subseteq woken'
               \/ /\ UNCHANGED <<acked, woken>>
                  /\ \/ rseq' = rseq
                     \/ rseq[r] = Infinity /\ rseq' = [rseq EXCEPT ![r] = seq]
        BY <1>0, <2>2, <3>1, AcknowledgeIs
      <3>3. CASE {t \in Threads : pc[t] \in {"blocked", "acking"}} \subseteq woken'
        BY <1>1, <3>2, <3>3, AllWoken
      <3>4. CASE UNCHANGED <<acked, woken>>
                 /\ \/ rseq' = rseq
                    \/ rseq[r] = Infinity /\ rseq' = [rseq EXCEPT ![r] = seq]
        <4>1. MayContinue' => MayContinue
          <5>1. mode = OPERATIONAL /\ rexmit => acked # seq
            BY DEF Cache, RexmitInv
          <5>2. mode = OPERATIONAL /\ rexmit => rexmit'
            BY <3>1, <3>4, <5>1 DEF Nack, TypeOK
          <5> QED
            BY <3>1, <3>2, <3>4, <5>2 DEF MayContinue, Unacked
        <4>2. \A n \in 0..seq : n > MaxDrop(matched, rseq, seq) =>
                                n > MaxDrop(matched, rseq', seq)
          BY <1>0, <3>1, <3>4, CountsAgain
        <4> QED
          BY <1>1, <3>1, <3>2, <3>4, <4>1, <4>2 DEF NoLostWakeup, At, Cache, WaitInv
      <3> QED
        BY <3>2, <3>3, <3>4
    <2>6. CASE AckAll
      <3>1. CASE UNCHANGED <<conf, mode, seq, acked, rexmit, matched, rseq, woken>>
        BY <1>0, <1>1, <3>1, WakeKept
      <3>2. CASE /\ arg[Discovery] \in matched
                 /\ RemoveAcked(gcq, matched, [rseq EXCEPT ![arg[Discovery]] = Infinity])
        BY <1>0, <1>1, <3>2, AckAllIs, AllWoken
      <3> QED
        BY <2>6, <3>1, <3>2 DEF AckAll, fate
    <2>7. ASSUME NEW r \in Readers, CollectReader(r)
          PROVE  NoLostWakeup' /\ woken' \in SUBSET Threads
      <3>1. CASE UNCHANGED <<conf, mode, seq, acked, rexmit, matched, rseq, woken>>
        BY <1>0, <1>1, <3>1, WakeKept
      <3>2. CASE RemoveAcked(Tail(gcq), matched \ {r}, rseq)
        BY <1>0, <1>1, <3>2, CollectIs, AllWoken
      <3> QED
        BY <2>7, <3>1, <3>2 DEF CollectReader
    <2> QED
      BY <2>1, <2>3, <2>4, <2>5, <2>6, <2>7 DEF Handling, Collect, LingerDelete
  <1> QED
    BY <1>2, <1>3 DEF TypeOK, OPERATIONAL, INTERRUPT, LINGERING, DELETING

-----------------------------------------------------------------------------
(* Types.                                                                  *)

\* The types the lemmas above do not give.
TypeRest ==
    /\ mode \in OPERATIONAL..DELETING
    /\ conf \in Settings /\ seq \in Nat /\ acked \in Nat
    /\ whcHigh \in conf.low..conf.high
    /\ rexmit \in BOOLEAN
    /\ matched \subseteq Readers
    /\ rseq \in [Readers -> Nat]
    /\ awake \subseteq Threads
    /\ linger \in {"unset", "set", "over"}
    /\ pinned \subseteq Writers \union Waiters \union {Deleter}
    /\ mutex \in Writers \union {None}
    /\ pc \in [Threads -> Places]
    /\ arg \in [Threads -> Readers \union Nat \union {None}]

\* A cache grows within its limits.
LEMMA GrownType ==
    ASSUME TypeOK, NEW w \in Grown
    PROVE  w \in conf.low..conf.high
  BY ThrottleAssumption DEF TypeOK, Grown

\* A writing thread's step keeps the types.
LEMMA TypeWriter ==
    ASSUME TypeOK, SeqInv, RexmitInv, NEW t \in Writers,
           StartWrite(t) \/ Writing(t) \/ TimeOut(t)
    PROVE  TypeRest'
  <1>1. CASE StartWrite(t) \/ LockWriter(t) \/ Throttle(t) \/ Block(t) \/ TimeOut(t)
             \/ EndWrite(t)
    <2>1. /\ UNCHANGED <<conf, mode, seq, acked, rexmit, matched, rseq, linger, arg>>
          /\ whcHigh' = whcHigh \/ whcHigh' \in Grown
          /\ awake' \subseteq awake \union {t} /\ pinned' \subseteq pinned \union {t}
          /\ mutex' = mutex \/ mutex' = t \/ mutex' = None
      BY <1>1 DEF StartWrite, LockWriter, Throttle, Block, TimeOut, EndWrite,
         LeaveThrottle, Asleep, cache, links, fate, api
    <2>2. pc' \in [Threads -> Places]
      BY <1>1 DEF StartWrite, LockWriter, Throttle, Block, TimeOut, EndWrite,
         LeaveThrottle, Goto, TypeOK, Places
    <2> QED
      BY <2>1, <2>2, GrownType, Roles DEF TypeOK, TypeRest
  <1>2. CASE WriteSample(t) \/ Continue(t)
    <2>1. /\ UNCHANGED <<conf, mode, rexmit, matched, rseq, linger, arg, pinned, mutex>>
          /\ whcHigh' = whcHigh \/ whcHigh' \in Grown
          /\ awake' \subseteq awake \union {t}
          /\ Goto(t, "ending") /\ pc[t] \in Pending /\ Accept
      BY <1>2 DEF WriteSample, Continue, LeaveThrottle, InThrottle, At, Pending,
         cache, links, fate, api
    <2>2. seq' \in Nat /\ acked' \in Nat
      BY <2>1, AcceptIs
    <2>3. pc' \in [Threads -> Places]
      BY <2>1 DEF TypeOK, Goto, Places
    <2> QED
      BY <2>1, <2>2, <2>3, GrownType, Roles DEF TypeOK, TypeRest
  <1> QED
    BY <1>1, <1>2 DEF Writing

\* So does a waiting thread's.
LEMMA TypeWaiter ==
    ASSUME TypeOK, NEW t \in Waiters, StartWait(t) \/ Waiting(t) \/ WaitTimesOut(t)
    PROVE  TypeRest'
  <1>1. /\ UNCHANGED <<conf, mode, seq, acked, whcHigh, rexmit, matched, rseq, linger,
                       awake, mutex>>
        /\ pinned' \subseteq pinned \union {t}
        /\ arg' = arg \/ arg' = [arg EXCEPT ![t] = seq]
    BY DEF StartWait, Waiting, EnterWait, RecheckWait, WaitTimesOut, WaitCheck,
       cache, links, fate
  <1>2. /\ pc' \in [Threads -> Places]
        /\ arg' \in [Threads -> Readers \union Nat \union {None}]
    BY <1>1 DEF StartWait, Waiting, EnterWait, RecheckWait, WaitTimesOut, WaitCheck, Goto,
       TypeOK, Places
  <1> QED
    BY <1>1, <1>2, Roles DEF TypeOK, TypeRest

\* So does dds_delete's.
LEMMA TypeDeleter ==
    ASSUME TypeOK, StartDelete \/ Deleting
    PROVE  TypeRest'
  <1>1. /\ UNCHANGED <<conf, seq, acked, whcHigh, rexmit, matched, rseq, mutex, arg>>
        /\ pinned' \subseteq pinned \union {Deleter}
        /\ awake' \subseteq awake \union {Deleter}
        /\ linger' = linger \/ linger' = "set"
        /\ mode' \in {mode, INTERRUPT, LINGERING, DELETING}
    BY DEF StartDelete, Deleting, Interrupt, CloseWait, DeleteWriter, CloseSleeps, Closed,
       DeleteLocked, Asleep, cache, links, fate, api
  <1>2. pc' \in [Threads -> Places]
    BY DEF StartDelete, Deleting, Interrupt, CloseWait, DeleteWriter, CloseSleeps, Closed,
       Goto, TypeOK, Places
  <1>3. mode' \in OPERATIONAL..DELETING
    BY <1>1 DEF TypeOK, OPERATIONAL, INTERRUPT, LINGERING, DELETING
  <1> QED
    BY <1>1, <1>2, <1>3, Roles DEF TypeOK, TypeRest

\* So do the steps of handlers and collector.
LEMMA TypeOthers ==
    ASSUME TypeOK, SeqInv, FateInv,
           \/ LingerOver \/ Handling \/ Collect
           \/ \E r \in Readers : StartAckNack(r) \/ ReaderGone(r)
           \/ \E t \in {Receiver, Discovery, Events} : EndHandler(t)
    PROVE  TypeRest'
  <1>1. /\ UNCHANGED <<conf, seq, mutex, pinned>>
        /\ awake' \subseteq awake \union {Receiver, Discovery, Events}
        /\ linger' = linger \/ linger' = "over"
    BY DEF LingerOver, Handling, NoMatch, AckNack, AckAll, LingerDelete, QueueReader,
       Collect, CollectReader, CollectWriter, FreeWriter, StartAckNack, ReaderGone,
       EndHandler, Asleep, cache, links, fate, api
  <1>2. /\ pc' \in [Threads -> Places]
        /\ arg' \in [Threads -> Readers \union Nat \union {None}]
    <2>0. /\ pc \in [Threads -> Places]
          /\ arg \in [Threads -> Readers \union Nat \union {None}]
      BY DEF TypeOK, Places
    <2>1. \/ pc' = pc
          \/ \E t \in {Receiver, Discovery, Events} :
                \E p \in Places : pc' = [pc EXCEPT ![t] = p]
      BY DEF LingerOver, Handling, NoMatch, AckNack, AckAll, LingerDelete,
         QueueReader, Collect, CollectReader, CollectWriter, FreeWriter,
         StartAckNack, ReaderGone, EndHandler, Goto, Places
    <2>2. \/ arg' = arg
          \/ \E t \in {Receiver, Discovery, Events} :
                \E a \in Readers \union {None} : arg' = [arg EXCEPT ![t] = a]
      BY DEF LingerOver, Handling, NoMatch, AckNack, AckAll, LingerDelete,
         QueueReader, Collect, CollectReader, CollectWriter, FreeWriter,
         StartAckNack, ReaderGone, EndHandler
    <2> QED
      BY <2>0, <2>1, <2>2
  <1>3. whcHigh' \in conf.low..conf.high /\ rexmit' \in BOOLEAN
    <2>1. whcHigh' \in {whcHigh} \/ (whcHigh' = whcHigh - 1 /\ whcHigh # conf.low)
      BY DEF LingerOver, Handling, NoMatch, AckNack, Nack, AckAll, LingerDelete,
         QueueReader, Collect, CollectReader, CollectWriter, FreeWriter, StartAckNack,
         ReaderGone, EndHandler, cache
    <2>2. rexmit' \in BOOLEAN
      BY DEF TypeOK, links, LingerOver, Handling, NoMatch, AckNack, Nack, AckAll, LingerDelete,
         QueueReader, Collect, CollectReader, CollectWriter, FreeWriter, StartAckNack,
         ReaderGone, EndHandler, cache
    <2>3. conf.low \in Nat /\ conf.high \in Nat
      BY ThrottleAssumption DEF TypeOK
    <2>4. whcHigh \in conf.low..conf.high
      BY DEF TypeOK
    <2> QED
      BY <2>1, <2>2, <2>3, <2>4
  <1>4. /\ mode' \in {mode, DELETING} /\ acked' \in Nat /\ matched' \subseteq Readers
        /\ rseq' \in [Readers -> Nat]
    <2>1. \/ \E r \in matched, b \in 0..seq : Acknowledge(r, b)
          \/ \E r \in matched : RemoveAcked(gcq, matched, [rseq EXCEPT ![r] = Infinity])
          \/ \E r \in Readers : RemoveAcked(Tail(gcq), matched \ {r}, rseq)
          \/ /\ UNCHANGED <<acked, rseq>> /\ matched' \subseteq matched
             /\ mode' = mode \/ DeleteLocked(gcq)
      BY DEF LingerOver, Handling, NoMatch, AckNack, AckAll, LingerDelete, QueueReader,
         Collect, CollectReader, CollectWriter, FreeWriter, StartAckNack, ReaderGone,
         EndHandler, cache, links, fate
    <2>2. CASE \E r \in matched, b \in 0..seq : Acknowledge(r, b)
      BY <2>2, AcknowledgeIs DEF DeleteLocked, TypeOK
    <2>3. CASE \E r \in matched :
                  RemoveAcked(gcq, matched, [rseq EXCEPT ![r] = Infinity])
      BY <2>3, AckAllIs DEF DeleteLocked, TypeOK
    <2>4. CASE \E r \in Readers : RemoveAcked(Tail(gcq), matched \ {r}, rseq)
      BY <2>4, CollectIs DEF DeleteLocked, TypeOK
    <2>5. CASE UNCHANGED <<acked, rseq>> /\ matched' \subseteq matched
               /\ (mode' = mode \/ DeleteLocked(gcq))
      BY <2>5 DEF DeleteLocked, TypeOK
    <2> QED
      BY <2>1, <2>2, <2>3, <2>4, <2>5
  <1>5. mode' \in OPERATIONAL..DELETING
    BY <1>4 DEF TypeOK, OPERATIONAL, DELETING
  <1>6. linger' \in {"unset", "set", "over"} /\ awake' \subseteq Threads
    BY <1>1, Roles DEF TypeOK
  <1> QED
    BY <1>1, <1>2, <1>3, <1>4, <1>5, <1>6 DEF TypeOK, TypeRest

-----------------------------------------------------------------------------
(* The handle while others make their steps, and the invariant.            *)

\* Steps of the handlers and the collector neither pin nor lock.
LEMMA ApiOthers ==
    ASSUME TypeOK, Api, FateInv, SeqInv,
           \/ LingerOver \/ Handling \/ Collect
           \/ \E r \in Readers : StartAckNack(r) \/ ReaderGone(r)
           \/ \E t \in {Receiver, Discovery, Events} : EndHandler(t)
    PROVE  Api'
  <1>1. /\ UNCHANGED <<closing, pinned, mutex, throttling>>
        /\ \/ pc' = pc
           \/ Goto(Receiver, "handle") \/ Goto(Receiver, "freeing")
           \/ Goto(Receiver, "idle") \/ Goto(Discovery, "idle") \/ Goto(Events, "idle")
           \/ Goto(Discovery, "ackall") \/ Goto(Discovery, "requeue")
           \/ Goto(Discovery, "freeing")
           \/ Goto(Discovery, "ending") \/ Goto(Events, "delete")
           \/ Goto(Events, "ending")
    BY DEF LingerOver, Handling, NoMatch, AckNack, AckAll, LingerDelete, QueueReader,
       Collect, CollectReader, CollectWriter, FreeWriter, StartAckNack, ReaderGone,
       EndHandler, api
  <1>2. /\ \A t \in Writers \union Waiters \union {Deleter} : pc'[t] = pc[t]
        /\ pc'[Receiver] \in {"idle", "handle", "freeing"}
        /\ pc'[Discovery] \in {"idle", "ackall", "freeing", "requeue", "ending"}
        /\ pc'[Events] \in {"idle", "delete", "ending"}
    BY <1>1, Roles DEF Goto, TypeOK, Api, PcInv
  <1>3. mode' = mode \/ {mode, mode'} \subseteq {LINGERING, DELETING}
    <2>1. CASE LingerDelete
      <3>1. mode \notin {OPERATIONAL, INTERRUPT}
        BY <2>1 DEF LingerDelete, FateInv
      <3> QED
        BY <2>1, <3>1 DEF LingerDelete, DeleteLocked, TypeOK,
           OPERATIONAL, INTERRUPT, LINGERING, DELETING
    <2>2. ASSUME NEW r \in Readers, NEW b \in 0..seq, AckNack(r, b)
          PROVE  mode' = mode \/ {mode, mode'} \subseteq {LINGERING, DELETING}
      BY <2>2, AcknowledgeIs DEF AckNack, DeleteLocked
    <2>3. CASE AckAll
      BY <2>3, AckAllIs DEF AckAll, DeleteLocked, fate
    <2>4. ASSUME NEW r \in Readers, CollectReader(r)
          PROVE  mode' = mode \/ {mode, mode'} \subseteq {LINGERING, DELETING}
      BY <2>4, CollectIs DEF CollectReader, DeleteLocked
    <2> QED
      BY <2>1, <2>2, <2>3, <2>4 DEF LingerOver, Handling, NoMatch, QueueReader, Collect,
         CollectWriter, FreeWriter, StartAckNack, ReaderGone, EndHandler, fate
  <1> QED
    BY <1>1, <1>2, <1>3, ApiKept

\* Steps of the application's threads.
LEMMA ApiApplication ==
    ASSUME TypeOK, Api,
           \/ \E t \in Writers : StartWrite(t) \/ Writing(t) \/ TimeOut(t)
           \/ \E t \in Waiters : StartWait(t) \/ Waiting(t) \/ WaitTimesOut(t)
           \/ StartDelete \/ Deleting
    PROVE  Api'
  <1>1. ASSUME NEW t \in Writers, StartWrite(t)
        PROVE  Api'
    <2>1. /\ Goto(t, "lock") /\ pc[t] = "idle" /\ ~closing
          /\ pinned' = pinned \union {t} /\ UNCHANGED <<mode, closing, mutex, throttling>>
      BY <1>1 DEF StartWrite, At, fate
    <2> QED
      BY <2>1, ApiWriter DEF Pending, Locking, Sleeping, TypeOK
  <1>2. ASSUME NEW t \in Writers, LockWriter(t)
        PROVE  Api'
    <2>1. /\ Goto(t, "write") /\ pc[t] = "lock" /\ mutex = None /\ mutex' = t
          /\ UNCHANGED <<mode, closing, pinned, throttling>>
      BY <1>2 DEF LockWriter, At, fate
    <2>2. pinned' = pinned \union {t}
      BY <2>1 DEF Api, HandleInv
    <2> QED
      BY <2>1, <2>2, ApiWriter DEF Pending, Locking, Sleeping, TypeOK
  <1>3. ASSUME NEW t \in Writers, WriteSample(t) \/ Throttle(t) \/ Block(t)
                                  \/ Continue(t) \/ TimeOut(t)
        PROVE  Api'
    <2>1. /\ pc[t] \in {"write", "sending", "blocked"}
          /\ UNCHANGED <<mode, closing, pinned, mutex>>
          /\ \/ Goto(t, "ending") /\ pc[t] = "write" /\ throttling' = throttling
             \/ Goto(t, "sending") /\ pc[t] = "write" /\ throttling' = throttling + 1
             \/ Goto(t, "blocked") /\ pc[t] # "write" /\ throttling' = throttling
             \/ Goto(t, "ending") /\ pc[t] # "write" /\ throttling' = throttling - 1
      BY <1>3 DEF WriteSample, Throttle, Block, Continue, TimeOut, LeaveThrottle,
         InThrottle, At, fate, api
    <2>2. mutex = t /\ pinned' = pinned \union {t}
      BY <2>1, Roles DEF Api, HandleInv, Locking
    <2> QED
      BY <2>1, <2>2, ApiWriter DEF Pending, Locking, Sleeping, TypeOK
  <1>4. ASSUME NEW t \in Writers, EndWrite(t)
        PROVE  Api'
    <2>1. /\ Goto(t, "idle") /\ pc[t] = "ending" /\ mutex' = None
          /\ pinned' = pinned \ {t} /\ UNCHANGED <<mode, closing, throttling>>
      BY <1>4 DEF EndWrite, At
    <2> QED
      BY <2>1, ApiWriter DEF Pending, Locking, Sleeping, TypeOK
  <1>5. ASSUME NEW t \in Waiters, StartWait(t) \/ Waiting(t) \/ WaitTimesOut(t)
        PROVE  Api'
    <2>1. /\ UNCHANGED <<mode, closing, mutex, throttling>>
          /\ pc[t] # "idle" \/ ~closing
          /\ \/ Goto(t, "entering") /\ pinned' = pinned \union {t}
             \/ Goto(t, "acking") /\ pinned' = pinned /\ pc[t] # "idle"
             \/ Goto(t, "idle") /\ pinned' = pinned \ {t}
      BY <1>5 DEF StartWait, Waiting, EnterWait, RecheckWait, WaitCheck, WaitTimesOut,
         At, fate
    <2>2. pc[t] # "idle" => pinned = pinned \union {t}
      BY DEF Api, HandleInv
    <2> QED
      BY <2>1, <2>2, ApiWaiter
  <1> QED
    BY <1>1, <1>2, <1>3, <1>4, <1>5, ApiDeleter DEF Writing

\* The invariant holds at first.
LEMMA InitInv == Init => IInv
  <1> SUFFICES ASSUME Init PROVE IInv
    OBVIOUS
  <1>1. \A t \in Threads : pc[t] = "idle"
    BY DEF Init
  <1>2. TypeOK
    <2>1. conf \in Settings /\ whcHigh \in conf.low..conf.high /\ matched \subseteq Readers
      BY ThrottleAssumption DEF Init
    <2>2. pc \in [Threads -> Places] /\ arg \in [Threads -> Readers \union Nat \union {None}]
      BY DEF Init, Places
    <2>3. rseq \in [Readers -> Nat] /\ gcq \in Seq(Requests) /\ mode \in OPERATIONAL..DELETING
      BY DEF Init, OPERATIONAL, DELETING
    <2> QED
      BY <2>1, <2>2, <2>3 DEF Init, TypeOK
  <1>3. PcInv
    BY <1>1, Roles DEF PcInv
  <1>4. HandleInv
    BY <1>1, Roles DEF Init, HandleInv, Locking, Sleeping
  <1>5. DeleteInv
    BY <1>1, Roles DEF Init, DeleteInv, OPERATIONAL, INTERRUPT
  <1>6. FateInv
    BY <1>1, Roles DEF Init, FateInv, Reaching, NoWriter, OneWriter, At, OPERATIONAL,
       DELETING
  <1>7. SeqInv
    <2>1. InProgress = {}
      BY <1>1, Roles DEF InProgress, Pending
    <2> QED
      BY <2>1, FS_EmptySet, WriterCount, ThrottleAssumption DEF Init, SeqInv
  <1>8. RexmitInv /\ WaitInv /\ NoLostWakeup
    BY <1>1, Roles DEF Init, RexmitInv, WaitInv, NoLostWakeup, At
  <1> QED
    BY <1>2, <1>3, <1>4, <1>5, <1>6, <1>7, <1>8 DEF IInv

-----------------------------------------------------------------------------
(* Theorems.                                                               *)

\* Every step keeps the invariant.
LEMMA NextInv == IInv /\ [Next]_vars => IInv'
  <1> SUFFICES ASSUME IInv, [Next]_vars
               PROVE  IInv'
    OBVIOUS
  <1>0. TypeOK /\ Api /\ FateInv /\ Cache /\ SeqInv /\ NoLostWakeup
    BY DEF IInv, Api, Cache
  <1>1. CASE UNCHANGED vars
    <2>1. /\ UNCHANGED <<conf, mode, throttling, seq, acked, whcHigh, rexmit, matched,
                         rseq, indexed, gcq, notifying, awake, linger, freed, closing,
                         pinned, mutex, pc, arg, woken>>
      BY <1>1 DEF vars, cache, links, fate, api
    <2>2. TypeOK'
      BY <1>0, <2>1 DEF TypeOK
    <2>3. Api'
      BY <1>0, <2>1 DEF Api, PcInv, HandleInv, DeleteInv
    <2>4. FateInv'
      BY <1>0, <2>1 DEF FateInv, Reaching, At
    <2>5. Cache'
      BY <1>0, <2>1, CacheKept DEF Cache, WaitInv, At
    <2>6. NoLostWakeup'
      BY <1>0, <2>1, WakeKept
    <2> QED
      BY <2>2, <2>3, <2>4, <2>5, <2>6 DEF IInv, Api, Cache
  <1>2. CASE Next
    <2> DEFINE Application ==
                 \/ \E t \in Writers : StartWrite(t) \/ Writing(t) \/ TimeOut(t)
                 \/ \E t \in Waiters : StartWait(t) \/ Waiting(t) \/ WaitTimesOut(t)
                 \/ StartDelete \/ Deleting
               Others ==
                 \/ LingerOver \/ Handling \/ Collect
                 \/ \E r \in Readers : StartAckNack(r) \/ ReaderGone(r)
                 \/ \E t \in {Receiver, Discovery, Events} : EndHandler(t)
    <2>1. Application \/ Others
      BY <1>2 DEF Next
    <2>2. Api'
      BY <1>0, <2>1, ApiApplication, ApiOthers
    <2>3. FateInv' /\ gcq' \in Seq(Requests)
      BY <1>0, <2>1, FateApplication, FateHandlers, FateCollector
    <2>4. Cache'
      BY <1>0, <2>1, CacheApplication, CacheOthers
    <2>5. NoLostWakeup' /\ woken' \in SUBSET Threads
      BY <1>0, <2>1, WakeApplication, WakeOthers
    <2>6. TypeRest'
      BY <1>0, <2>1, TypeWriter, TypeWaiter, TypeDeleter, TypeOthers DEF Cache
    <2>7. throttling' \in {0, 1}
      BY <2>2 DEF Api, HandleInv
    <2>8. TypeOK'
      BY <2>3, <2>5, <2>6, <2>7 DEF TypeOK, TypeRest
    <2> QED
      BY <2>2, <2>3, <2>4, <2>5, <2>8 DEF IInv, Api, Cache
  <1> QED
    BY <1>1, <1>2

\* The invariant holds always: it keeps the handle's pins, the way of the
\* writer to the collector, and the numbers samples and waits refer to.
THEOREM Invariance == Spec => []IInv
  BY InitInv, NextInv, PTL DEF Spec

\* Nobody reaches the writer once its memory is released: every thread that
\* found it in the index is waited for until it sleeps, after its last use of
\* the writer, and the calls in progress pin it.
THEOREM NeverUsedAfterFree == Spec => []NoUseAfterFree
  <1>1. IInv => NoUseAfterFree
    <2> SUFFICES ASSUME IInv, freed
                 PROVE  NoUseAfterFree
      BY DEF NoUseAfterFree
    <2>1. /\ mode = DELETING /\ ~indexed /\ Reaching = {} /\ NoWriter(gcq)
          /\ gcq \in Seq(Requests)
      BY DEF IInv, FateInv, TypeOK
    <2>2. ~notifying
      <3>1. gcq # <<>> => 1 \in 1..Len(gcq)
        BY <2>1
      <3> QED
        BY <2>1, <3>1 DEF IInv, FateInv, NoWriter
    <2>3. \A t \in Writers \union Waiters : pc[t] = "idle"
      BY <2>1, NobodyWaits DEF IInv, Api
    <2>4. /\ pc[Receiver] \notin {"handle", "freeing"}
          /\ pc[Discovery] \notin {"ackall", "freeing"}
          /\ ~At(Events, "delete") /\ pc[Deleter] \notin {"close", "closed"}
      BY <2>1 DEF Reaching, At
    <2>5. \A i \in DOMAIN gcq : gcq[i].what # "writer"
      BY <2>1 DEF NoWriter
    <2> QED
      BY <2>1, <2>2, <2>3, <2>4, <2>5 DEF NoUseAfterFree, At
  <1> QED
    BY <1>1, Invariance, PTL

\* No write and no wait sleeps on when what it waits for has come, for any
\* number of them and of readers.
THEOREM NobodyOversleeps == Spec => []NoLostWakeup
  <1>1. IInv => NoLostWakeup
    BY DEF IInv
  <1> QED
    BY <1>1, Invariance, PTL

\* When the writer is deleted no write is in throttle_writer, as
\* gc_delete_writer asserts, nor has any other thread the handle pinned.
THEOREM NothingThrottled == Spec => []NotThrottledWhenDeleted
  <1>1. IInv => NotThrottledWhenDeleted
    <2> SUFFICES ASSUME IInv, mode >= LINGERING
                 PROVE  throttling = 0 /\ pinned \subseteq {Deleter} /\ mutex = None
      BY DEF NotThrottledWhenDeleted
    <2>1. mode \in {LINGERING, DELETING}
      BY DEF IInv, TypeOK, OPERATIONAL, LINGERING, DELETING
    <2>2. \A t \in Writers \union Waiters : pc[t] = "idle"
      BY <2>1, NobodyWaits DEF IInv, Api
    <2>3. pinned \subseteq {Deleter}
      BY <2>2 DEF IInv, TypeOK, HandleInv
    <2>4. throttling = 0 /\ mutex = None
      BY <2>2 DEF IInv, TypeOK, HandleInv, Sleeping, Locking
    <2> QED
      BY <2>3, <2>4
  <1> QED
    BY <1>1, Invariance, PTL

\* The writer is deleted when all is acknowledged or the linger time is over.
THEOREM DeletedWhenAcked == Spec => LingersUntilAcked
  <1>1. IInv /\ [Next]_vars =>
          [mode' = DELETING /\ mode # DELETING => acked' = seq' \/ linger = "over"]_vars
    <2> SUFFICES ASSUME IInv, Next, mode' = DELETING, mode # DELETING
                 PROVE  acked' = seq' \/ linger = "over"
      OBVIOUS
    <2>0. TypeOK /\ SeqInv /\ FateInv
      BY DEF IInv
    <2>1. \/ DeleteWriter \/ LingerDelete \/ AckAll
          \/ \E r \in Readers, b \in 0..seq : AckNack(r, b)
          \/ \E r \in Readers : CollectReader(r)
      BY DEF Next, StartWrite, Writing, LockWriter, WriteSample, Throttle, Block, Continue,
         EndWrite, TimeOut, StartWait, Waiting, EnterWait, RecheckWait, WaitCheck,
         WaitTimesOut, StartDelete, Deleting, Interrupt, CloseWait, CloseSleeps, Closed,
         LingerOver, StartAckNack, ReaderGone, Handling, NoMatch, QueueReader, EndHandler,
         Collect, CollectWriter, FreeWriter, fate, INTERRUPT, DELETING
    <2>2. CASE DeleteWriter
      <3>1. Unacked = 0 /\ UNCHANGED <<seq, acked>>
        BY <2>2 DEF DeleteWriter, cache, LINGERING, DELETING
      <3> QED
        BY <2>0, <3>1 DEF Unacked, TypeOK
    <2>3. CASE LingerDelete
      BY <2>0, <2>3 DEF LingerDelete, FateInv
    <2>4. CASE AckAll
      BY <2>0, <2>4, AckAllIs DEF AckAll, fate
    <2>5. ASSUME NEW r \in Readers, NEW b \in 0..seq, AckNack(r, b)
          PROVE  acked' = seq'
      BY <2>0, <2>5, AcknowledgeIs DEF AckNack
    <2>6. ASSUME NEW r \in Readers, CollectReader(r)
          PROVE  acked' = seq'
      BY <2>0, <2>6, CollectIs DEF CollectReader
    <2> QED
      BY <2>1, <2>2, <2>3, <2>4, <2>5, <2>6
  <1> QED
    BY <1>1, Invariance, PTL DEF Spec, LingersUntilAcked
=============================================================================

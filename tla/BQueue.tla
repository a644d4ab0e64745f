------------------------------- MODULE BQueue -------------------------------
(***************************************************************************)
(* The bounded queue of unitree_sdk2py/utils/bqueue.py as operators on its *)
(* two fields: the deque and the length the class counts beside it.  Each  *)
(* operator is the body of one method, which runs under the queue's own    *)
(* Condition and is therefore one atomic step of the thread that calls it. *)
(* Who waits and who is notified belongs to the threads, so it is kept in  *)
(* the modules that use the queue.                                         *)
(***************************************************************************)
EXTENDS Integers, Sequences

-----------------------------------------------------------------------------
(* Faulty variants of the operators below, for showing that the properties   *)
(* of the modules that use the queue can fail.                               *)

\* appendleft for append.
PushFront(q, x) == [items |-> <<x>> \o q.items, curLen |-> q.curLen + 1]

\* Put forgets to notify.
PutSilently(q, maxLen, replace) == FALSE

\* pop for popleft.
LastOf(q) == q.items[Len(q.items)]

-----------------------------------------------------------------------------
\* BQueue.__init__: nothing queued, nothing counted.
EmptyQueue == [items |-> <<>>, curLen |-> 0]

\* The test Put makes: it looks at the count, not at the deque.
Full(q, maxLen) == q.curLen >= maxLen

DropOldest(q) == [items |-> Tail(q.items), curLen |-> q.curLen - 1]
AppendTo(q, x) == [items |-> Append(q.items, x), curLen |-> q.curLen + 1]

\* Put(x, replace): a full queue refuses x, or gives up its oldest entry.
Put(q, x, maxLen, replace) ==
    IF ~Full(q, maxLen) THEN AppendTo(q, x)
    ELSE IF replace THEN AppendTo(DropOldest(q), x) ELSE q

\* Put notifies one waiter exactly when it stored x.
PutNotifies(q, maxLen, replace) == replace \/ ~Full(q, maxLen)

\* Get on a queue that is not empty returns FirstOf(q) and leaves AfterGet(q).
FirstOf(q)  == Head(q.items)
AfterGet(q) == DropOldest(q)

\* Clear leaves an empty queue alone, count included.
Cleared(q) == IF q.items # <<>> THEN EmptyQueue ELSE q

QueueType(S) == [items : Seq(S), curLen : Int]
=============================================================================

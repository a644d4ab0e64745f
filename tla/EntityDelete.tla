---------------------------- MODULE EntityDelete ----------------------------
(***************************************************************************)
(* Deleting DDS entities (dds_entity.c, dds_handles.c): reference counts   *)
(* and pins of handles, the recursive deletion of children, the deletion   *)
(* of an implicit parent with its last child, and of a topic with its last *)
(* writer.                                                                 *)
(*                                                                         *)
(* A thread's stack holds its activations of the deletion functions, the   *)
(* innermost one first.                                                    *)
(***************************************************************************)
EXTENDS Integers, FiniteSets, Sequences

CONSTANTS Threads,
          Entities,   \* participant, publishers, writers, topics
          Iid,        \* their instance ids: children are visited in this order
          Parent,     \* each one's parent, None for the participant
          TopicOf,    \* a writer's topic, None for the others
          Topics,     \* references count writers for these, children otherwise
          Scenes,     \* situations to begin with: see Init
          None

ASSUME EntityAssumption ==
    /\ Iid \in [Entities -> Nat \ {0}]
    /\ \A d, e \in Entities : Iid[d] = Iid[e] => d = e
    /\ Parent \in [Entities -> Entities \union {None}]
    /\ TopicOf \in [Entities -> Topics \union {None}]
    /\ \A e \in Entities : Parent[e] \notin Topics \union {e}
    /\ Topics \subseteq Entities /\ None \notin Entities \union Threads
    /\ \A s \in Scenes :
         /\ s.present \subseteq Entities /\ IsFiniteSet(s.present)
         /\ s.implicit \subseteq s.present \ Topics
         /\ s.unborn \subseteq Entities \ (s.present \union Topics)
         /\ \A e \in s.present : {Parent[e], TopicOf[e]} \subseteq s.present \union {None}
         /\ \A e \in s.implicit : \E c \in s.present : Parent[c] = e
         /\ s.deletes \in [Entities -> Nat] /\ s.uses \in [Entities -> Nat]

\* dds_create_writer insists on a topic of the publisher's participant.
ASSUME ParticipantAssumption ==
    \A w \in Entities : TopicOf[w] # None =>
        Parent[w] # None /\ Parent[Parent[w]] = Parent[TopicOf[w]]

VARIABLES
    implicit,  \* entities created without being asked for
    link,      \* cnt_flags of each entity's handle
    known,     \* handles in the hash table
    children,  \* m_children
    mutex,     \* m_mutex: who holds it beyond one step
    freed,     \* entities whose memory has been released
    stack,     \* each thread's activations
    ret,       \* the outcome of each thread's last call of dds_delete_impl
    unborn,    \* writers that are still to be created
    deletes,   \* calls of dds_delete to come
    uses       \* calls of other operations to come

app  == <<unborn, deletes, uses>>
vars == <<link, known, children, mutex, freed, stack, ret, app>>

\* A scene: the entities there are (others were deleted before, or are writers
\* still to be created), the implicit ones among them, and, as bounds, how often
\* the application deletes each one and calls another operation on it.
Init == \E s \in Scenes :
    LET Kids(e)  == {c \in s.present : e \in {Parent[c], TopicOf[c]}} IN
    /\ implicit = s.implicit
    /\ link = [e \in Entities |->
                 [closing |-> e \notin s.present \union s.unborn,
                  deferred |-> FALSE, pin |-> 0,
                  refc |-> Cardinality(Kids(e)) + IF e \in s.implicit THEN 0 ELSE 1]]
    /\ known = s.present
    /\ children = [e \in Entities |-> {c \in s.present : Parent[c] = e}]
    /\ mutex = [e \in Entities |-> None]
    /\ freed = Entities \ (s.present \union s.unborn)
    /\ stack = [t \in Threads |-> <<>>] /\ ret = [t \in Threads |-> "ok"]
    /\ unborn = s.unborn /\ deletes = s.deletes /\ uses = s.uses

-----------------------------------------------------------------------------
Frame(e, why, at) ==
    [of |-> e, why |-> why, at |-> at, pass |-> 1, cursor |-> None, up |-> None]

At(t, s)   == stack[t] # <<>> /\ Head(stack[t]).at = s
Cur(t)     == Head(stack[t])
Goto(t, f) == [stack EXCEPT ![t] = <<f>> \o Tail(@)]
Step(t, s) == Goto(t, [Cur(t) EXCEPT !.at = s])
Push(t, f) == [stack EXCEPT ![t] = <<f>> \o @]
Pop(t)     == [stack EXCEPT ![t] = Tail(@)]

Open(e) == e \in known /\ ~link[e].closing
Free(e) == mutex[e] = None

-----------------------------------------------------------------------------
(* Faulty variants of the operations below.  No specification uses them.   *)

\* The deleting thread does not wait for the others.
CloseWithoutWait(t) ==
    /\ At(t, "closing")
    /\ stack' = Step(t, "enter")
    /\ UNCHANGED <<link, known, children, mutex, freed, ret, app>>

\* Topics are deleted in their turn among the other children.
RemainingAll(f) ==
    {c \in children[f.of] : f.cursor # None => Iid[c] > Iid[f.cursor]}

\* A child that somebody else is deleting is not waited for.
GoesOnAnyway(t) == At(t, "enter") \/ At(t, "awake") \/ At(t, "child")

\* The last child takes its parent along even if that is being deleted.
TakesParentAlways(f, p) == p \in implicit /\ link[p].refc = 1

\* A second deletion is refused although the references are gone.
DeleteRefusedWhenDeferred(t) ==
    LET e == Cur(t).of IN
    /\ At(t, "pin")
    /\ \/ /\ ~Open(e)
          /\ ret' = [ret EXCEPT ![t] = "bad_parameter"]
       \/ /\ Open(e) /\ link[e].deferred
          /\ ret' = [ret EXCEPT ![t] = "already_deleted"]
    /\ stack' = Pop(t)
    /\ UNCHANGED <<link, known, children, mutex, freed, app>>

\* The last writer forgets the topic.
DeriveKeepsTopic(t) ==
    LET x == TopicOf[Cur(t).of] IN
    /\ At(t, "derive")
    /\ link' = IF x = None THEN link ELSE [link EXCEPT ![x].refc = @ - 1]
    /\ stack' = Step(t, "derived")
    /\ UNCHANGED <<known, children, mutex, freed, ret, app>>

-----------------------------------------------------------------------------
(* Pins and wake-ups                                                       *)

Pinned(e)  == [link EXCEPT ![e].pin = @ + 1]
\* Everybody who is parked looks again (the cond of the handle server).
Unparked(s) == [u \in Threads |->
    IF s[u] # <<>> /\ Head(s[u]).at = "parked"
    THEN <<[Head(s[u]) EXCEPT !.at = "closing"]>> \o Tail(s[u]) ELSE s[u]]
\* Whoever sleeps on a parent's m_cond wakes up.
Woken(s, p) == [u \in Threads |->
    IF s[u] # <<>> /\ Head(s[u]).at = "asleep" /\ Head(s[u]).of = p
    THEN <<[Head(s[u]) EXCEPT !.at = "awake"]>> \o Tail(s[u]) ELSE s[u]]

\* dds_handle_unpin announces that only the deleting thread is left.
Unpin(e, s) ==
    LET n == link[e].pin - 1 IN
    /\ link' = [link EXCEPT ![e].pin = n]
    /\ stack' = IF link[e].closing /\ n = 1 THEN Unparked(s) ELSE s

-----------------------------------------------------------------------------
(* The application: deletions and operations that pin an entity            *)

StartDelete(t, e) ==
    /\ stack[t] = <<>> /\ deletes[e] > 0
    /\ deletes' = [deletes EXCEPT ![e] = @ - 1]
    /\ stack' = Push(t, Frame(e, "user", "pin"))
    /\ UNCHANGED <<link, known, children, mutex, freed, ret, unborn, uses>>

\* dds_entity_lock, first half
StartUse(t, e) ==
    /\ stack[t] = <<>> /\ uses[e] > 0 /\ Open(e)
    /\ uses' = [uses EXCEPT ![e] = @ - 1]
    /\ link' = Pinned(e)
    /\ stack' = Push(t, Frame(e, "other", "use"))
    /\ UNCHANGED <<known, children, mutex, freed, ret, unborn, deletes>>

\* m_mutex is taken and released, and the entity unpinned.
EndUse(t) ==
    /\ At(t, "use") /\ Free(Cur(t).of)
    /\ Unpin(Cur(t).of, Pop(t))
    /\ UNCHANGED <<known, children, mutex, freed, ret, app>>

\* dds_create_writer pins the publisher...
StartCreate(t, w) ==
    /\ stack[t] = <<>> /\ w \in unborn /\ Open(Parent[w])
    /\ unborn' = unborn \ {w}
    /\ link' = Pinned(Parent[w])
    /\ stack' = Push(t, Frame(w, "other", "creating"))
    /\ UNCHANGED <<known, children, mutex, freed, ret, deletes, uses>>

\* ...and locks it,
CreateLocks(t) ==
    LET p == Parent[Cur(t).of] IN
    /\ At(t, "creating") /\ Free(p)
    /\ mutex' = [mutex EXCEPT ![p] = t]
    /\ stack' = Step(t, "locked")
    /\ UNCHANGED <<link, known, children, freed, ret, app>>

\* pins the topic or gives up,
CreatePinsTopic(t) ==
    LET w == Cur(t).of IN
    /\ At(t, "locked")
    /\ \/ /\ Open(TopicOf[w])
          /\ link' = Pinned(TopicOf[w])
          /\ stack' = Step(t, "pinned")
          /\ UNCHANGED mutex
       \/ /\ ~Open(TopicOf[w])
          /\ mutex' = [mutex EXCEPT ![Parent[w]] = None]
          /\ Unpin(Parent[w], Pop(t))
    /\ UNCHANGED <<known, children, freed, ret, app>>

\* makes the writer a reference to the topic,
CreateRefersTopic(t) ==
    LET w == Cur(t).of IN
    /\ At(t, "pinned")
    /\ link' = [link EXCEPT ![TopicOf[w]].refc = @ + 1]
    /\ stack' = Step(t, "referred")
    /\ UNCHANGED <<known, children, mutex, freed, ret, app>>

\* registers it with the publisher; its handle is no longer pending;
CreateRegisters(t) ==
    LET w == Cur(t).of IN
    /\ At(t, "referred")
    /\ known' = known \union {w}
    /\ children' = [children EXCEPT ![Parent[w]] = @ \union {w}]
    /\ link' = [link EXCEPT ![Parent[w]].refc = @ + 1]
    /\ stack' = Step(t, "registered")
    /\ UNCHANGED <<mutex, freed, ret, app>>

\* dds_topic_allow_set_qos wakes the topic's participant; the topic is unpinned,
CreateUnpinsTopic(t) ==
    LET x == TopicOf[Cur(t).of] IN
    /\ At(t, "registered") /\ Free(Parent[x])
    /\ Unpin(x, Woken(Step(t, "unpinned"), Parent[x]))
    /\ UNCHANGED <<known, children, mutex, freed, ret, app>>

\* and then the publisher is unlocked and unpinned.
CreateEnds(t) ==
    LET p == Parent[Cur(t).of] IN
    /\ At(t, "unpinned")
    /\ mutex' = [mutex EXCEPT ![p] = None]
    /\ Unpin(p, Pop(t))
    /\ UNCHANGED <<known, children, freed, ret, app>>

-----------------------------------------------------------------------------
(* Deletion                                                                *)

\* dds_handle_pin_for_delete
DeleteRefused(t) ==
    LET e == Cur(t).of IN
    /\ At(t, "pin")
    /\ \/ /\ ~Open(e)
          /\ ret' = [ret EXCEPT ![t] = "bad_parameter"]
       \/ /\ Open(e) /\ link[e].deferred /\ link[e].refc > 0
          /\ ret' = [ret EXCEPT ![t] = "already_deleted"]
    /\ stack' = Pop(t)
    /\ UNCHANGED <<link, known, children, mutex, freed, app>>

\* Writers still refer to the topic: it goes with the last of them.
DeleteDeferred(t) ==
    LET e == Cur(t).of IN
    /\ At(t, "pin") /\ Open(e) /\ ~link[e].deferred
    /\ e \in Topics /\ link[e].refc > 1
    /\ link' = [link EXCEPT ![e].refc = @ - 1, ![e].deferred = TRUE]
    /\ ret' = [ret EXCEPT ![t] = "ok"]
    /\ stack' = Pop(t)
    /\ UNCHANGED <<known, children, mutex, freed, app>>

\* The handle's own reference goes, an implicit or deferred one has none.
PinForDelete(t) ==
    LET e == Cur(t).of
        own == IF e \in implicit \/ link[e].deferred THEN 0 ELSE 1 IN
    /\ At(t, "pin") /\ Open(e)
    /\ e \in Topics => link[e].refc = own
    /\ link' = [link EXCEPT ![e].refc = @ - own, ![e].pin = @ + 1,
                            ![e].closing = TRUE]
    /\ stack' = Step(t, "lock")
    /\ UNCHANGED <<known, children, mutex, freed, ret, app>>

\* dds_delete_impl_pinned: blocked operations are interrupted under the lock.
LockAndInterrupt(t) ==
    /\ At(t, "lock") /\ Free(Cur(t).of)
    /\ stack' = Step(t, "closing")
    /\ UNCHANGED <<link, known, children, mutex, freed, ret, app>>

\* dds_handle_close_wait
CloseWait(t) ==
    /\ At(t, "closing")
    /\ stack' = Step(t, IF link[Cur(t).of].pin = 1 THEN "enter" ELSE "parked")
    /\ UNCHANGED <<link, known, children, mutex, freed, ret, app>>

\* get_next_child; topics are left to the second pass.
Remaining(f) ==
    {c \in children[f.of] : /\ f.cursor # None => Iid[c] > Iid[f.cursor]
                            /\ f.pass = 1 => c \notin Topics}

\* delete_children: a child that is still there after its deletion is waited
\* for, once...
WaitForChild(t) ==
    LET f == Cur(t) IN
    /\ At(t, "child") /\ Free(f.of)
    /\ f.cursor \in children[f.of]
    /\ stack' = Step(t, "asleep")
    /\ UNCHANGED <<link, known, children, mutex, freed, ret, app>>

GoesOn(t) == \/ At(t, "enter") \/ At(t, "awake")
             \/ At(t, "child") /\ Cur(t).cursor \notin children[Cur(t).of]

\* ...then the next one is deleted,
DeleteChild(t) ==
    LET f == Cur(t) IN
    /\ GoesOn(t) /\ Free(f.of)
    /\ \E c \in Remaining(f) :
          /\ \A d \in Remaining(f) : Iid[c] <= Iid[d]
          /\ stack' = [stack EXCEPT ![t] =
                <<Frame(c, "parent", "pin"),
                  [f EXCEPT !.at = "child", !.cursor = c]>> \o Tail(@)]
    /\ UNCHANGED <<link, known, children, mutex, freed, ret, app>>

\* and after the last one the next pass begins.
ChildrenDone(t) ==
    LET f == Cur(t) IN
    /\ GoesOn(t) /\ Free(f.of)
    /\ Remaining(f) = {}
    /\ stack' = Goto(t, IF f.pass = 1
                        THEN [f EXCEPT !.at = "enter", !.pass = 2, !.cursor = None]
                        ELSE [f EXCEPT !.at = "handle"])
    /\ UNCHANGED <<link, known, children, mutex, freed, ret, app>>

\* dds_handle_delete
DeleteHandle(t) ==
    LET f == Cur(t) IN
    /\ At(t, "handle")
    /\ known' = known \ {f.of}
    /\ stack' = Step(t, IF Parent[f.of] = None THEN "derive" ELSE "unlink")
    /\ UNCHANGED <<link, children, mutex, freed, ret, app>>

\* The child leaves its parent (dds_handle_drop_childref_and_pin), which is to
\* be deleted if it is implicit and was not the one who deleted the child.
TakesParent(f, p) ==
    /\ ~link[p].closing /\ p \in implicit
    /\ link[p].refc = 1 /\ f.why # "parent"

Unlink(t) ==
    LET f == Cur(t)  p == Parent[f.of] IN
    /\ At(t, "unlink") /\ Free(p)
    /\ children' = [children EXCEPT ![p] = @ \ {f.of}]
    /\ \/ /\ TakesParent(f, p)
          /\ link' = [link EXCEPT ![p].refc = @ - 1, ![p].pin = @ + 1]
          /\ mutex' = [mutex EXCEPT ![p] = t]
          /\ stack' = Goto(t, [f EXCEPT !.at = "close", !.up = p])
       \/ /\ ~TakesParent(f, p)
          /\ link' = [link EXCEPT ![p].refc = @ - 1]
          /\ stack' = Woken(Step(t, "derive"), p)
          /\ UNCHANGED mutex
    /\ UNCHANGED <<known, freed, ret, app>>

\* dds_handle_close on that parent, still under its m_mutex
CloseParent(t) ==
    LET p == Cur(t).up IN
    /\ At(t, "close")
    /\ link' = [link EXCEPT ![p].closing = TRUE]
    /\ mutex' = [mutex EXCEPT ![p] = None]
    /\ stack' = Woken(Step(t, "derive"), p)
    /\ UNCHANGED <<known, children, freed, ret, app>>

\* dds_writer_delete drops the reference to the topic, and deletes a topic of
\* which this was the last one (dds_entity_drop_ref).
Derive(t) ==
    LET f == Cur(t)  x == TopicOf[f.of] IN
    /\ At(t, "derive")
    /\ ret' = [ret EXCEPT ![t] = "ok"]
    /\ \/ /\ x = None
          /\ stack' = Step(t, "derived")
          /\ UNCHANGED link
       \/ /\ x # None
          /\ link' = [link EXCEPT ![x].refc = @ - 1]
          /\ LET s == [stack EXCEPT ![t] =
                         (IF link[x].refc = 1 THEN <<Frame(x, "ref", "pin")>>
                          ELSE <<>>) \o <<[f EXCEPT !.at = "derived"]>> \o Tail(@)]
             IN stack' = IF link[x].closing /\ link[x].pin = 1 THEN Unparked(s)
                         ELSE s
    /\ UNCHANGED <<known, children, mutex, freed, app>>

\* The memory is released; an implicit parent is deleted next.
FreeEntity(t) ==
    LET f == Cur(t) IN
    /\ At(t, "derived")
    /\ freed' = freed \union {f.of}
    /\ stack' = IF f.up = None THEN Pop(t)
                ELSE Goto(t, Frame(f.up, "implicit", "lock"))
    /\ ret' = [ret EXCEPT ![t] = "ok"]
    /\ UNCHANGED <<link, known, children, mutex, app>>

-----------------------------------------------------------------------------
Operate(t) ==
    \/ EndUse(t) \/ CreateLocks(t) \/ CreatePinsTopic(t) \/ CreateRefersTopic(t)
    \/ CreateRegisters(t) \/ CreateUnpinsTopic(t) \/ CreateEnds(t)

Delete(t) ==
    \/ DeleteRefused(t) \/ DeleteDeferred(t) \/ PinForDelete(t)
    \/ LockAndInterrupt(t) \/ CloseWait(t) \/ WaitForChild(t) \/ DeleteChild(t)
    \/ ChildrenDone(t) \/ DeleteHandle(t) \/ Unlink(t) \/ CloseParent(t)
    \/ Derive(t) \/ FreeEntity(t)

Next ==
    \E t \in Threads :
        \/ Operate(t) \/ Delete(t)
        \/ \E e \in Entities : StartDelete(t, e) \/ StartUse(t, e)
        \/ \E w \in unborn : StartCreate(t, w)

Spec == Init /\ [][Next /\ UNCHANGED implicit]_<<implicit, vars>>

\* The mutexes are held for short stretches: every thread gets its turn.
FairSpec == Spec /\ \A t \in Threads : WF_vars(Operate(t)) /\ WF_vars(Delete(t))

-----------------------------------------------------------------------------
(* Properties                                                              *)

Deleting(t, i, e) == LET f == stack[t][i] IN
    f.of = e /\ f.why # "other" /\ f.at # "pin"

\* Only one thread deletes an entity, however the application's calls, those
\* for a parent, for the last child and for the last writer of a topic meet:
\* "only one thread may call close_wait on a given handle".
OneDeleter ==
    \A e \in Entities, t, u \in Threads :
        \A i \in DOMAIN stack[t], j \in DOMAIN stack[u] :
            Deleting(t, i, e) /\ Deleting(u, j, e) => t = u /\ i = j

\* What dds_handle_delete asserts: nobody refers to the handle any more, and
\* only the deleting thread has it pinned.
UnusedWhenDeleted ==
    \A t \in Threads : At(t, "handle") =>
        LET l == link[Cur(t).of] IN l.closing /\ l.refc = 0 /\ l.pin = 1

\* No thread reaches released memory: neither its own entity, nor the parent
\* it leaves or is to delete, nor the topic it refers to; and what can still
\* be found has its parent and topic.
Reached(f) ==
    (IF f.at = "pin" /\ f.why # "ref" THEN {} ELSE {f.of})
    \union (IF f.at \in {"unlink", "close", "creating", "locked", "unpinned"}
            THEN {Parent[f.of]} ELSE {})
    \union (IF f.at \in {"derive", "pinned", "referred", "registered"}
            THEN {TopicOf[f.of]} ELSE {})
    \union {f.up}

NoUseAfterFree ==
    /\ \A t \in Threads : \A i \in DOMAIN stack[t] :
          Reached(stack[t][i]) \intersect freed = {}
    /\ \A e \in known : {e, Parent[e], TopicOf[e]} \intersect freed = {}

\* When no call is in progress nothing is half deleted: an implicit publisher
\* is there as long as it has a writer, a topic that was deleted as long as a
\* writer refers to it.
NothingHalfDeleted ==
    (\A t \in Threads : stack[t] = <<>>) =>
        \A e \in {d \in Entities : d \in known \union freed \/ link[d].closing} :
            /\ e \in known <=> e \notin freed
            /\ e \in freed <=> link[e].closing
            /\ e \in known => link[e].pin = 0
            /\ e \in known /\ e \in implicit => children[e] # {}
            /\ e \in known /\ link[e].deferred =>
                  \E w \in known : TopicOf[w] = e

\* What delete_children and dds_entity_drop_ref assert of the deletions they
\* make: a child that is not deleted is being deleted by somebody else, and
\* dropping the last reference to a topic deletes it.
NestedDeletions ==
    \A t \in Threads : /\ At(t, "child") => ret[t] # "already_deleted"
                       /\ At(t, "derived") => ret[t] = "ok"

\* Every call returns: nobody waits for a pin, a lock or a child for ever.
CallsReturn == \A t \in Threads : (stack[t] # <<>>) ~> (stack[t] = <<>>)
=============================================================================

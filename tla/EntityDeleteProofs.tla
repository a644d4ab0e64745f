------------------------- MODULE EntityDeleteProofs -------------------------
(***************************************************************************)
(* Theorems about EntityDelete: whoever gets past close_wait has the       *)
(* entity to itself, nothing that is pinned is freed, and an entity has one *)
(* deleter if implicit ones are left to their children; references are     *)
(* counted right, and nothing stays half deleted; but for the steps that   *)
(* deletion does not expect, nobody uses what is freed, a handle that is    *)
(* deleted is unused, and nested deletions succeed.                        *)
(***************************************************************************)
EXTENDS EntityDelete, FiniteSetTheorems, TLAPS

-----------------------------------------------------------------------------
(* Activations.  They are counted from the outermost one, so that they     *)
(* keep their place when others are put on top of them.                    *)

Creating  == {"creating", "locked", "pinned", "referred", "registered", "unpinned"}
WithTopic == {"pinned", "referred", "registered"}
Waiting   == {"lock", "closing", "parked"}
Alone     == {"enter", "child", "asleep", "awake", "handle"}
Leaving   == {"unlink", "close", "derive", "derived"}
Places    == Creating \union Waiting \union Alone \union Leaving \union {"use", "pin"}
Reasons   == {"user", "parent", "ref", "implicit", "other"}

Frames == [of : Entities, why : Reasons, at : Places, pass : {1, 2},
           cursor : Entities \union {None}, up : Entities \union {None}]

LinkType == [closing : BOOLEAN, deferred : BOOLEAN, pin : Int, refc : Int]

Nth(s, d) == s[Len(s) + 1 - d]
Fr(t, d)  == Nth(stack[t], d)
Is(t, d)  == d \in 1..Len(stack[t])

\* f has e pinned.
Holds(f, e) ==
    \/ f.at \in Waiting \union Alone \union {"use"} /\ f.of = e
    \/ f.at \in Creating /\ Parent[f.of] = e
    \/ f.at \in WithTopic /\ TopicOf[f.of] = e
    \/ f.up = e

Held(t, d, e) == Is(t, d) /\ Holds(Fr(t, d), e)
Pins(e) == {h \in Threads \X Nat : Held(h[1], h[2], e)}

\* f deletes e, or is about to.
Claims(f, e) == \/ f.at \in Waiting \union Alone \union Leaving /\ f.of = e
                \/ f.up = e

\* f creates a writer that is not in the hash table yet.
Pends(f) == f.at \in {"creating", "locked", "pinned", "referred"}

-----------------------------------------------------------------------------
(* The invariant                                                           *)

TypeOK ==
    /\ implicit \subseteq Entities \ Topics
    /\ link \in [Entities -> LinkType]
    /\ known \subseteq Entities /\ freed \subseteq Entities
    /\ unborn \subseteq Entities
    /\ children \in [Entities -> SUBSET Entities]
    /\ mutex \in [Entities -> Threads \union {None}]
    /\ stack \in [Threads -> Seq(Frames)]
    /\ ret \in [Threads -> {"ok", "bad_parameter", "already_deleted"}]
    /\ deletes \in [Entities -> Nat] /\ uses \in [Entities -> Nat]

\* Only an activation that deletes a child or a topic has another one on top.
StackInv ==
    \A t \in Threads, d \in Nat : Is(t, d) =>
        /\ d < Len(stack[t]) => Fr(t, d).at \in {"child", "derived"}
        /\ Fr(t, d).why = "other" => Len(stack[t]) = 1

Proper(f) ==
    /\ f.why = "other" <=> f.at \in Creating \union {"use"}
    /\ f.why = "implicit" => f.of \in implicit /\ f.at # "pin"
    /\ f.up # None => /\ f.up = Parent[f.of] /\ f.up \in implicit
                      /\ f.at \in {"close", "derive", "derived"}
    /\ f.at = "close" => f.up # None
    /\ f.at \in Creating => Parent[f.of] \in Entities

FrameInv == \A t \in Threads, d \in Nat : Is(t, d) => Proper(Fr(t, d))

ChildInv == \A e \in Entities : \A c \in children[e] : Parent[c] = e

\* A writer in the making is nobody else's.
PendingInv ==
    /\ unborn \intersect (known \union implicit \union freed) = {}
    /\ \A t \in Threads, d \in Nat : Is(t, d) /\ Pends(Fr(t, d)) =>
          /\ Fr(t, d).of \notin known \union unborn \union implicit \union freed
          /\ \A u \in Threads, c \in Nat :
                Is(u, c) /\ Pends(Fr(u, c)) /\ Fr(u, c).of = Fr(t, d).of => u = t /\ c = d

Pending(e) == \/ e \in unborn
              \/ \E t \in Threads, d \in Nat :
                    Is(t, d) /\ Pends(Fr(t, d)) /\ Fr(t, d).of = e

\* The pin count is the number of activations that have the entity pinned, as
\* long as it can be found; and only what can be found is pinned.
PinInv ==
    \A e \in Entities :
        /\ IsFiniteSet(Pins(e))
        /\ Pins(e) # {} => e \in known
        /\ e \in known \/ Pending(e) => link[e].pin = Cardinality(Pins(e))

\* After its handle is deleted an entity belongs to one activation.
GoneInv ==
    /\ known \intersect freed = {}
    /\ \A t \in Threads, d \in Nat : Is(t, d) /\ Fr(t, d).at \in Leaving =>
          /\ Fr(t, d).of \notin known \union unborn \union freed
          /\ \A u \in Threads, c \in Nat :
                Is(u, c) /\ Fr(u, c).of = Fr(t, d).of =>
                    /\ ~Pends(Fr(u, c))
                    /\ Fr(u, c).at \in Leaving => u = t /\ c = d

OpenInv == \A e \in implicit : ~link[e].closing => e \in known

ClosingInv ==
    \A t \in Threads, d \in Nat : \A e \in Entities :
        Is(t, d) /\ Claims(Fr(t, d), e) =>
            \/ link[e].closing
            \/ Fr(t, d).at = "close" /\ Fr(t, d).up = e

\* dds_handle_close_wait has seen all other pins go, and no new ones come.
AloneInv ==
    \A t \in Threads, d \in Nat :
        Is(t, d) /\ Fr(t, d).at \in Alone => link[Fr(t, d).of].pin = 1

MutexInv ==
    \A t \in Threads, d \in Nat : Is(t, d) =>
        /\ Fr(t, d).at = "close" => mutex[Fr(t, d).up] = t
        /\ Fr(t, d).at \in Creating \ {"creating"} => mutex[Parent[Fr(t, d).of]] = t

\* The application leaves implicit entities and their parents alone.
Undisturbed ==
    \A s \in Scenes : \A e \in s.implicit :
        /\ Parent[e] \in Entities \ s.implicit /\ Parent[Parent[e]] = None
        /\ s.deletes[e] = 0 /\ s.deletes[Parent[e]] = 0

\* Then they are deleted for their last child only.
Untouched(e) == \A p \in implicit : e \notin {p, Parent[p]}

QuietInv ==
    Undisturbed =>
        /\ \A e \in implicit :
              /\ Parent[e] \in Entities \ implicit /\ Parent[Parent[e]] = None
              /\ deletes[e] = 0 /\ deletes[Parent[e]] = 0
        /\ \A t \in Threads, d \in Nat :
              Is(t, d) /\ Fr(t, d).why \in {"user", "parent", "ref"} =>
                  Untouched(Fr(t, d).of)

OneInv ==
    \A e \in Entities : (e \in implicit => Undisturbed) =>
        \A t, u \in Threads, c, d \in Nat :
            /\ Is(t, c) /\ Claims(Fr(t, c), e)
            /\ Is(u, d) /\ Claims(Fr(u, d), e)
            => t = u /\ c = d

Inv1 == TypeOK /\ StackInv /\ FrameInv /\ ChildInv
Inv2 == PendingInv /\ PinInv /\ GoneInv /\ OpenInv
Inv3 == ClosingInv /\ AloneInv /\ MutexInv /\ QuietInv /\ OneInv
IInv == Inv1 /\ Inv2 /\ Inv3

-----------------------------------------------------------------------------
(* The results, as properties of the states.                               *)

\* What dds_handle_delete asserts of closing and pins: nobody else has the
\* entity pinned.
AloneWhenDeleted ==
    \A t \in Threads : At(t, "handle") =>
        link[Cur(t).of].closing /\ link[Cur(t).of].pin = 1

\* However many threads begin to delete an entity, one gets past close_wait.
OnePassesTheWait ==
    \A t, u \in Threads, c, d \in Nat :
        /\ Is(t, c) /\ Fr(t, c).at \in Alone \union Leaving
        /\ Is(u, d) /\ Fr(u, d).at \in Alone \union Leaving
        /\ Fr(t, c).of = Fr(u, d).of
        => t = u /\ c = d

\* No entity is freed that somebody has pinned or is still deleting.
PinnedStays ==
    \A t \in Threads, d \in Nat : \A e \in Entities :
        Is(t, d) /\ (Holds(Fr(t, d), e) \/ Claims(Fr(t, d), e)) => e \notin freed

-----------------------------------------------------------------------------
(* Stacks                                                                  *)

\* The same activation, apart from having been woken up.
Alike(f, g) ==
    \/ g = f
    \/ f.at = "parked" /\ g = [f EXCEPT !.at = "closing"]
    \/ f.at = "asleep" /\ g = [f EXCEPT !.at = "awake"]

\* Places among which an activation moves without pinning, claiming or
\* creating anything.
Kinds == {{"creating"}, {"locked"}, {"pinned", "referred"}, {"registered"},
          {"unpinned"}, Waiting, Alone, {"unlink"}, {"close"},
          {"derive", "derived"}, {"use"}, {"pin"}}

Same(f, g) == /\ g.of = f.of /\ g.why = f.why /\ g.up = f.up
              /\ \E K \in Kinds : f.at \in K /\ g.at \in K

\* Everybody's activations are alike, for some of them have been woken up.
Stirred(s, r) ==
    /\ r \in [Threads -> Seq(Frames)]
    /\ \A u \in Threads : Len(r[u]) = Len(s[u])
    /\ \A u \in Threads : \A d \in 1..Len(s[u]) : Alike(Nth(s[u], d), Nth(r[u], d))

\* Only the k-th activation of t may have become a different one.
Elsewhere(t, k) ==
    \A u \in Threads, d \in Nat : <<u, d>> # <<t, k>> =>
        /\ Is(u, d)' <=> Is(u, d)
        /\ Is(u, d) => Same(Fr(u, d), Fr(u, d)')

\* What a stack has on top, below, and after a change.
LEMMA Stacked ==
    ASSUME NEW s \in Seq(Frames), s # <<>>, NEW g \in Frames
    PROVE  /\ Head(s) \in Frames /\ Len(s) \in Nat \ {0}
           /\ Nth(s, Len(s)) = Head(s)
           /\ <<g>> \o Tail(s) \in Seq(Frames)
           /\ Len(<<g>> \o Tail(s)) = Len(s)
           /\ Nth(<<g>> \o Tail(s), Len(s)) = g
           /\ \A d \in 1..(Len(s) - 1) : Nth(<<g>> \o Tail(s), d) = Nth(s, d)
  BY DEF Nth

\* An activation is put on top: the others keep their place from below.
LEMMA Pushed ==
    ASSUME NEW s \in Seq(Frames), NEW g \in Frames
    PROVE  /\ <<g>> \o s \in Seq(Frames)
           /\ Len(<<g>> \o s) = Len(s) + 1
           /\ Nth(<<g>> \o s, Len(s) + 1) = g
           /\ \A d \in 1..Len(s) : Nth(<<g>> \o s, d) = Nth(s, d)
  BY DEF Nth

\* The innermost activation goes: the others keep their place from below.
LEMMA Popped ==
    ASSUME NEW s \in Seq(Frames), s # <<>>
    PROVE  /\ Tail(s) \in Seq(Frames)
           /\ Len(Tail(s)) = Len(s) - 1
           /\ \A d \in 1..(Len(s) - 1) : Nth(Tail(s), d) = Nth(s, d)
  BY DEF Nth

\* The members of a stack are activations.
LEMMA NthType ==
    ASSUME NEW s \in Seq(Frames), NEW d \in 1..Len(s)
    PROVE  Nth(s, d) \in Frames
  BY DEF Nth

\* Waking a thread up changes its innermost activation, to one that is alike.
LEMMA TopWoken ==
    ASSUME NEW s \in Seq(Frames), s # <<>>, NEW p \in Places,
           Alike(Head(s), [Head(s) EXCEPT !.at = p])
    PROVE  LET r == <<[Head(s) EXCEPT !.at = p]>> \o Tail(s) IN
           /\ r \in Seq(Frames) /\ Len(r) = Len(s)
           /\ \A d \in 1..Len(s) : Alike(Nth(s, d), Nth(r, d))
  <1> DEFINE g == [Head(s) EXCEPT !.at = p]
  <1>0. Head(s) \in Frames OBVIOUS
  <1>1. g \in Frames /\ Head(s) \in Frames BY <1>0 DEF Frames
  <1>2. \A d \in 1..(Len(s) - 1) : Nth(<<g>> \o Tail(s), d) = Nth(s, d) BY <1>1, Stacked
  <1>3. Nth(<<g>> \o Tail(s), Len(s)) = g /\ Nth(s, Len(s)) = Head(s) BY <1>1, Stacked
  <1>4. <<g>> \o Tail(s) \in Seq(Frames) /\ Len(<<g>> \o Tail(s)) = Len(s)
    BY <1>1, Stacked
  <1>5. \A d \in 1..Len(s) : d = Len(s) \/ d \in 1..(Len(s) - 1) OBVIOUS
  <1>6. \A d \in 1..Len(s) : Alike(Nth(s, d), Nth(<<g>> \o Tail(s), d))
    <2> TAKE d \in 1..Len(s)
    <2>1. CASE d = Len(s) BY <2>1, <1>3
    <2>2. CASE d \in 1..(Len(s) - 1) BY <2>2, <1>2 DEF Alike
    <2> QED BY <2>1, <2>2, <1>5
  <1> QED BY <1>4, <1>6

\* Nobody is woken up.
LEMMA Unstirred ==
    ASSUME NEW s \in [Threads -> Seq(Frames)]
    PROVE  Stirred(s, s)
  BY DEF Stirred, Alike

\* dds_handle_unpin wakes up those who are parked.
LEMMA UnparkedStirs ==
    ASSUME NEW s \in [Threads -> Seq(Frames)]
    PROVE  Stirred(s, Unparked(s))
  <1> SUFFICES ASSUME NEW u \in Threads
               PROVE  /\ Unparked(s)[u] \in Seq(Frames)
                      /\ Len(Unparked(s)[u]) = Len(s[u])
                      /\ \A d \in 1..Len(s[u]) : Alike(Nth(s[u], d), Nth(Unparked(s)[u], d))
    BY DEF Stirred, Unparked
  <1>1. CASE s[u] # <<>> /\ Head(s[u]).at = "parked"
    <2>1. Unparked(s)[u] = <<[Head(s[u]) EXCEPT !.at = "closing"]>> \o Tail(s[u])
      BY <1>1 DEF Unparked
    <2>2. Alike(Head(s[u]), [Head(s[u]) EXCEPT !.at = "closing"]) BY <1>1 DEF Alike
    <2>3. "closing" \in Places BY DEF Places, Waiting
    <2> QED BY <1>1, <2>1, <2>2, <2>3, TopWoken
  <1>2. CASE ~(s[u] # <<>> /\ Head(s[u]).at = "parked") BY <1>2 DEF Unparked, Alike
  <1> QED BY <1>1, <1>2

\* A broadcast on a parent's condition wakes up those who sleep on it.
LEMMA WokenStirs ==
    ASSUME NEW s \in [Threads -> Seq(Frames)], NEW p
    PROVE  Stirred(s, Woken(s, p))
  <1> SUFFICES ASSUME NEW u \in Threads
               PROVE  /\ Woken(s, p)[u] \in Seq(Frames)
                      /\ Len(Woken(s, p)[u]) = Len(s[u])
                      /\ \A d \in 1..Len(s[u]) : Alike(Nth(s[u], d), Nth(Woken(s, p)[u], d))
    BY DEF Stirred, Woken
  <1>1. CASE s[u] # <<>> /\ Head(s[u]).at = "asleep" /\ Head(s[u]).of = p
    <2>1. Woken(s, p)[u] = <<[Head(s[u]) EXCEPT !.at = "awake"]>> \o Tail(s[u])
      BY <1>1 DEF Woken
    <2>2. Alike(Head(s[u]), [Head(s[u]) EXCEPT !.at = "awake"]) BY <1>1 DEF Alike
    <2>3. "awake" \in Places BY DEF Places, Alone
    <2> QED BY <1>1, <2>1, <2>2, <2>3, TopWoken
  <1>2. CASE ~(s[u] # <<>> /\ Head(s[u]).at = "asleep" /\ Head(s[u]).of = p)
    BY <1>2 DEF Woken, Alike
  <1> QED BY <1>1, <1>2

\* A wake-up after another.
LEMMA StirredTwice ==
    ASSUME NEW s \in [Threads -> Seq(Frames)], NEW q, NEW r, Stirred(s, q), Stirred(q, r)
    PROVE  Stirred(s, r)
  <1>1. ASSUME NEW f \in Frames, NEW g \in Frames, NEW h \in Frames,
               Alike(f, g), Alike(g, h)
        PROVE  Alike(f, h)
    BY <1>1 DEF Alike, Frames
  <1>2. /\ q \in [Threads -> Seq(Frames)] /\ r \in [Threads -> Seq(Frames)]
        /\ \A u \in Threads : Len(q[u]) = Len(s[u]) /\ Len(r[u]) = Len(s[u])
    BY DEF Stirred
  <1>3. ASSUME NEW u \in Threads, NEW d \in 1..Len(s[u])
        PROVE  Alike(Nth(s[u], d), Nth(r[u], d))
    BY <1>2, <1>3, <1>1, NthType DEF Stirred
  <1> QED BY <1>2, <1>3 DEF Stirred

\* Activations of the same kind pin, claim and create the same.
LEMMA SameFacts ==
    ASSUME NEW f \in Frames, NEW g \in Frames, Same(f, g)
    PROVE  /\ g.of = f.of /\ g.why = f.why /\ g.up = f.up
           /\ \A e \in Entities : /\ Holds(g, e) <=> Holds(f, e)
                                  /\ Claims(g, e) <=> Claims(f, e)
           /\ Pends(g) <=> Pends(f)
           /\ Proper(f) => Proper(g)
           /\ g.at \in Alone <=> f.at \in Alone
           /\ g.at \in Leaving <=> f.at \in Leaving
           /\ g.at = "close" <=> f.at = "close"
           /\ g.at \in Creating \ {"creating"} <=> f.at \in Creating \ {"creating"}
  <1> USE DEF Kinds, Waiting, Alone, Leaving, Creating, WithTopic
  <1>1. g.of = f.of /\ g.why = f.why /\ g.up = f.up BY DEF Same
  <1>2. PICK K \in Kinds : f.at \in K /\ g.at \in K BY DEF Same
  <1>3. /\ g.at \in Waiting \union Alone \union {"use"} <=> f.at \in Waiting \union Alone \union {"use"}
        /\ g.at \in Creating <=> f.at \in Creating
        /\ g.at \in WithTopic <=> f.at \in WithTopic
        /\ g.at \in Waiting \union Alone \union Leaving <=> f.at \in Waiting \union Alone \union Leaving
        /\ Pends(g) <=> Pends(f)
        /\ g.at \in Creating \union {"use"} <=> f.at \in Creating \union {"use"}
        /\ g.at = "pin" <=> f.at = "pin"
        /\ g.at \in {"close", "derive", "derived"} <=> f.at \in {"close", "derive", "derived"}
        /\ g.at \in Alone <=> f.at \in Alone
        /\ g.at \in Leaving <=> f.at \in Leaving
        /\ g.at = "close" <=> f.at = "close"
        /\ g.at \in Creating \ {"creating"} <=> f.at \in Creating \ {"creating"}
    BY <1>2 DEF Pends
  <1>4. \A e \in Entities : /\ Holds(g, e) <=> Holds(f, e)
                            /\ Claims(g, e) <=> Claims(f, e)
    BY <1>1, <1>3 DEF Holds, Claims
  <1>5. Proper(f) => Proper(g) BY <1>1, <1>3 DEF Proper
  <1> QED BY <1>1, <1>3, <1>4, <1>5

\* Waking up changes the place of the parked and the sleeping only.
LEMMA AlikeSame ==
    ASSUME NEW f \in Frames, NEW g, Alike(f, g)
    PROVE  Same(f, g) /\ (f.at \notin {"parked", "asleep"} => g = f)
  <1> USE DEF Kinds, Waiting, Alone, Leaving, Creating, WithTopic, Places
  <1>0. f.at \in Places BY DEF Frames
  <1>1. CASE g = f BY <1>0, <1>1 DEF Same
  <1>2. CASE f.at = "parked" /\ g = [f EXCEPT !.at = "closing"] BY <1>2 DEF Frames, Same
  <1>3. CASE f.at = "asleep" /\ g = [f EXCEPT !.at = "awake"] BY <1>3 DEF Frames, Same
  <1> QED BY <1>1, <1>2, <1>3 DEF Alike

-----------------------------------------------------------------------------
(* The steps of a stack                                                    *)

\* The innermost activation.
LEMMA Top ==
    ASSUME TypeOK, NEW t \in Threads, stack[t] # <<>>
    PROVE  /\ Len(stack[t]) \in Nat \ {0} /\ Is(t, Len(stack[t]))
           /\ Fr(t, Len(stack[t])) = Cur(t) /\ Cur(t) \in Frames
           /\ stack[t] \in Seq(Frames) /\ stack \in [Threads -> Seq(Frames)]
  <1>1. stack[t] \in Seq(Frames) /\ stack \in [Threads -> Seq(Frames)] BY DEF TypeOK
  <1>2. Head(stack[t]) \in Frames BY <1>1
  <1>3. Len(stack[t]) \in Nat \ {0} /\ Nth(stack[t], Len(stack[t])) = Head(stack[t])
    BY <1>1, <1>2, Stacked
  <1> QED BY <1>1, <1>2, <1>3 DEF Is, Fr, Cur

\* Fr yields activations.
LEMMA FrType ==
    ASSUME TypeOK, NEW t \in Threads, NEW d \in Nat, Is(t, d)
    PROVE  Fr(t, d) \in Frames
  BY NthType DEF TypeOK, Is, Fr

\* What is below the top is not woken up, and nothing is below an activation
\* of another operation.
LEMMA KeepsStackInv ==
    ASSUME TypeOK, StackInv, NEW t \in Threads, NEW k \in Nat, NEW s,
           s \in [Threads -> Seq(Frames)], Stirred(s, stack'),
           \A u \in Threads : u # t => s[u] = stack[u],
           k <= Len(stack[t]), k <= Len(s[t]),
           \A d \in 1..k : Nth(s[t], d) = Fr(t, d),
           k > 0 => Len(stack[t]) > k \/ Len(s[t]) = k,
           k > 0 => Fr(t, 1).why # "other" \/ Len(s[t]) = Len(stack[t]),
           \A d \in (k + 1)..Len(s[t]) :
               /\ d < Len(s[t]) => Nth(s[t], d).at \in {"child", "derived"}
               /\ Nth(s[t], d).why = "other" => Len(s[t]) = 1
    PROVE  /\ stack' \in [Threads -> Seq(Frames)]
           /\ StackInv'
           /\ \A u \in Threads, d \in Nat :
                 u # t \/ d <= k => /\ Is(u, d)' <=> Is(u, d)
                                    /\ Is(u, d) => Same(Fr(u, d), Fr(u, d)')
           /\ \A d \in Nat : Is(t, d)' <=> d \in 1..Len(s[t])
  <1>1. /\ stack' \in [Threads -> Seq(Frames)]
        /\ \A u \in Threads : Len(stack'[u]) = Len(s[u])
        /\ \A u \in Threads : \A d \in 1..Len(s[u]) : Alike(Nth(s[u], d), Nth(stack'[u], d))
    BY DEF Stirred
  <1>2. \A u \in Threads : s[u] \in Seq(Frames) /\ Len(s[u]) \in Nat OBVIOUS
  <1>3. \A u \in Threads, d \in Nat : Is(u, d)' <=> d \in 1..Len(s[u]) BY <1>1 DEF Is
  <1>4. \A u \in Threads, d \in Nat : d \in 1..Len(s[u]) =>
           /\ Nth(s[u], d) \in Frames
           /\ Fr(u, d)' \in Frames
           /\ Same(Nth(s[u], d), Fr(u, d)')
           /\ Nth(s[u], d).at \in {"child", "derived"} => Fr(u, d)' = Nth(s[u], d)
           /\ Fr(u, d)'.why = Nth(s[u], d).why
    <2> TAKE u \in Threads, d \in Nat
    <2> HAVE d \in 1..Len(s[u])
    <2>1. Nth(s[u], d) \in Frames BY <1>2, NthType
    <2>2. Alike(Nth(s[u], d), Fr(u, d)') BY <1>1 DEF Fr
    <2>3. Fr(u, d)' \in Frames BY <1>1, NthType DEF Fr
    <2>4. /\ Same(Nth(s[u], d), Fr(u, d)')
          /\ Nth(s[u], d).at \notin {"parked", "asleep"} => Fr(u, d)' = Nth(s[u], d)
      BY <2>1, <2>2, AlikeSame
    <2> QED BY <2>1, <2>3, <2>4 DEF Same
  <1>5. \A u \in Threads, d \in Nat :
           (u # t \/ d <= k) /\ Is(u, d) => d \in 1..Len(s[u]) /\ Nth(s[u], d) = Fr(u, d)
    BY <1>2 DEF Is, Fr
  <1>6. \A u \in Threads, d \in Nat :
           (u # t \/ d <= k) /\ d \in 1..Len(s[u]) => Is(u, d)
    BY <1>2 DEF Is, TypeOK
  <1>7. \A u \in Threads, d \in Nat :
           u # t \/ d <= k => /\ Is(u, d)' <=> Is(u, d)
                              /\ Is(u, d) => Same(Fr(u, d), Fr(u, d)')
    BY <1>3, <1>4, <1>5, <1>6
  <1>8. ASSUME NEW u \in Threads, NEW d \in Nat, Is(u, d)'
        PROVE  /\ d < Len(stack'[u]) => Fr(u, d)'.at \in {"child", "derived"}
               /\ Fr(u, d)'.why = "other" => Len(stack'[u]) = 1
    <2>1. d \in 1..Len(s[u]) /\ Len(stack'[u]) = Len(s[u]) BY <1>8, <1>3, <1>1
    <2>2. CASE u # t BY <2>1, <2>2, <1>5, <1>6, <1>4 DEF StackInv
    <2>3. CASE u = t /\ d > k BY <2>1, <2>3, <1>2, <1>4
    <2>4. CASE u = t /\ d <= k
      <3>1. Is(t, d) /\ Nth(s[t], d) = Fr(t, d) /\ k > 0 /\ d \in 1..k
        BY <2>1, <2>4, <1>5, <1>6
      <3>2. /\ d < Len(stack[t]) => Fr(t, d).at \in {"child", "derived"}
            /\ Fr(t, d).why = "other" => Len(stack[t]) = 1
        BY <3>1 DEF StackInv
      <3>3. Fr(t, d)'.why = Fr(t, d).why
            /\ (Fr(t, d).at \in {"child", "derived"} => Fr(t, d)' = Fr(t, d))
        BY <3>1, <2>1, <2>4, <1>4
      <3>4. Len(stack[t]) \in Nat /\ Len(s[t]) \in Nat BY <1>2 DEF TypeOK
      <3>5. d < Len(s[t]) => d < Len(stack[t]) BY <3>1, <3>4, <2>4
      <3>6. Fr(t, d).why = "other" => Len(s[t]) = 1
        <4> SUFFICES ASSUME Fr(t, d).why = "other" PROVE Len(s[t]) = 1
          OBVIOUS
        <4>1. Len(stack[t]) = 1 BY <3>2
        <4>2. d = 1 BY <4>1, <3>1, <3>4 DEF Is
        <4> QED BY <4>1, <4>2, <3>1
      <3> QED BY <3>2, <3>3, <3>5, <3>6, <2>1, <2>4
    <2> QED BY <2>2, <2>3, <2>4
  <1> QED BY <1>1, <1>3, <1>7, <1>8 DEF StackInv

\* The innermost activation goes on.
LEMMA GotoStep ==
    ASSUME TypeOK, StackInv, NEW t \in Threads, stack[t] # <<>>,
           NEW L \in Nat, L = Len(stack[t]), NEW g \in Frames,
           g.why = "other" <=> Cur(t).why = "other",
           Stirred(Goto(t, g), stack'),
           stack' = Goto(t, g) \/ g.at \notin {"parked", "asleep"}
    PROVE  /\ stack' \in [Threads -> Seq(Frames)] /\ StackInv'
           /\ Elsewhere(t, L)
           /\ Is(t, L)' /\ Fr(t, L)' = g
  <1> DEFINE s == Goto(t, g)
  <1>1. /\ stack[t] \in Seq(Frames) /\ stack \in [Threads -> Seq(Frames)]
        /\ L > 0 /\ Is(t, L) /\ Fr(t, L) = Cur(t)
    BY Top
  <1>2. s[t] = <<g>> \o Tail(stack[t]) /\ \A u \in Threads : u # t => s[u] = stack[u]
    BY <1>1 DEF Goto
  <1>3. /\ s[t] \in Seq(Frames) /\ Len(s[t]) = L /\ Nth(s[t], L) = g
        /\ \A d \in 1..(L - 1) : Nth(s[t], d) = Fr(t, d)
    BY <1>1, <1>2, Stacked DEF Fr
  <1>4. s \in [Threads -> Seq(Frames)] BY <1>1, <1>2, <1>3 DEF Goto
  <1>5. L - 1 \in Nat /\ (L - 1) + 1 = L /\ L - 1 <= L BY <1>1
  <1>6. Cur(t).why = "other" => L = 1 BY <1>1 DEF StackInv
  <1>7. \A d \in ((L - 1) + 1)..Len(s[t]) :
            /\ d < Len(s[t]) => Nth(s[t], d).at \in {"child", "derived"}
            /\ Nth(s[t], d).why = "other" => Len(s[t]) = 1
    BY <1>1, <1>3, <1>6
  <1> HIDE DEF s
  <1>8. /\ stack' \in [Threads -> Seq(Frames)]
        /\ StackInv'
        /\ \A u \in Threads, d \in Nat :
              u # t \/ d <= L - 1 => /\ Is(u, d)' <=> Is(u, d)
                                     /\ Is(u, d) => Same(Fr(u, d), Fr(u, d)')
        /\ \A d \in Nat : Is(t, d)' <=> d \in 1..Len(s[t])
    <2>1. L - 1 <= Len(stack[t]) /\ L - 1 <= Len(s[t])
          /\ (L - 1 > 0 => Len(stack[t]) > L - 1) /\ Len(s[t]) = Len(stack[t])
      BY <1>1, <1>3, <1>5
    <2>2. Stirred(s, stack') BY DEF s
    <2> QED BY <2>1, <2>2, <1>2, <1>3, <1>4, <1>5, <1>7, KeepsStackInv
  <1>9. \A u \in Threads, d \in Nat : <<u, d>> # <<t, L>> =>
           /\ Is(u, d)' <=> Is(u, d)
           /\ Is(u, d) => Same(Fr(u, d), Fr(u, d)')
    <2> SUFFICES ASSUME NEW u \in Threads, NEW d \in Nat, <<u, d>> # <<t, L>>
                 PROVE  /\ Is(u, d)' <=> Is(u, d)
                        /\ Is(u, d) => Same(Fr(u, d), Fr(u, d)')
      OBVIOUS
    <2>1. CASE u # t \/ d <= L - 1 BY <2>1, <1>8
    <2>2. CASE u = t /\ d > L BY <2>2, <1>1, <1>3, <1>8 DEF Is
    <2> QED BY <2>1, <2>2, <1>1
  <1>10. Is(t, L)' BY <1>1, <1>3, <1>8
  <1>11. Fr(t, L)' = g
    <2>1. Len(stack'[t]) = L /\ Alike(Nth(s[t], L), Nth(stack'[t], L))
      BY <1>1, <1>3 DEF Stirred, s
    <2>2. Alike(g, Fr(t, L)') BY <2>1, <1>3 DEF Fr
    <2>3. CASE stack' = s BY <2>3, <1>3 DEF Fr
    <2>4. CASE g.at \notin {"parked", "asleep"} BY <2>4, <2>2, AlikeSame
    <2> QED BY <2>3, <2>4 DEF s
  <1> QED BY <1>8, <1>9, <1>10, <1>11 DEF Elsewhere

\* The innermost activation ends.
LEMMA PopStep ==
    ASSUME TypeOK, StackInv, NEW t \in Threads, stack[t] # <<>>,
           NEW L \in Nat, L = Len(stack[t]),
           Stirred(Pop(t), stack')
    PROVE  /\ stack' \in [Threads -> Seq(Frames)] /\ StackInv'
           /\ Elsewhere(t, L) /\ ~Is(t, L)'
  <1> DEFINE s == Pop(t)
  <1>1. /\ stack[t] \in Seq(Frames) /\ stack \in [Threads -> Seq(Frames)]
        /\ L > 0 /\ Is(t, L) /\ Fr(t, L) = Cur(t)
    BY Top
  <1>2. s[t] = Tail(stack[t]) /\ \A u \in Threads : u # t => s[u] = stack[u]
    BY <1>1 DEF Pop
  <1>3. /\ s[t] \in Seq(Frames) /\ Len(s[t]) = L - 1
        /\ \A d \in 1..(L - 1) : Nth(s[t], d) = Fr(t, d)
    BY <1>1, <1>2, Popped DEF Fr
  <1>4. s \in [Threads -> Seq(Frames)] BY <1>1, <1>2, <1>3 DEF Pop
  <1>5. L - 1 \in Nat /\ L - 1 <= L BY <1>1
  <1>6. L - 1 > 0 => Fr(t, 1).why # "other"
    <2> HAVE L - 1 > 0
    <2>1. Is(t, 1) /\ Len(stack[t]) # 1 BY <1>1 DEF Is
    <2> QED BY <2>1 DEF StackInv
  <1> HIDE DEF s
  <1>8. /\ stack' \in [Threads -> Seq(Frames)]
        /\ StackInv'
        /\ \A u \in Threads, d \in Nat :
              u # t \/ d <= L - 1 => /\ Is(u, d)' <=> Is(u, d)
                                     /\ Is(u, d) => Same(Fr(u, d), Fr(u, d)')
        /\ \A d \in Nat : Is(t, d)' <=> d \in 1..Len(s[t])
    <2>1. L - 1 <= Len(stack[t]) /\ L - 1 <= Len(s[t]) /\ Len(s[t]) = L - 1
      BY <1>1, <1>3, <1>5
    <2>2. Stirred(s, stack') BY DEF s
    <2>3. \A d \in ((L - 1) + 1)..Len(s[t]) :
            /\ d < Len(s[t]) => Nth(s[t], d).at \in {"child", "derived"}
            /\ Nth(s[t], d).why = "other" => Len(s[t]) = 1
      BY <1>1, <1>3
    <2> QED BY <2>1, <2>2, <2>3, <1>2, <1>3, <1>4, <1>5, <1>6, KeepsStackInv
  <1>9. \A u \in Threads, d \in Nat : <<u, d>> # <<t, L>> =>
           /\ Is(u, d)' <=> Is(u, d)
           /\ Is(u, d) => Same(Fr(u, d), Fr(u, d)')
    <2> SUFFICES ASSUME NEW u \in Threads, NEW d \in Nat, <<u, d>> # <<t, L>>
                 PROVE  /\ Is(u, d)' <=> Is(u, d)
                        /\ Is(u, d) => Same(Fr(u, d), Fr(u, d)')
      OBVIOUS
    <2>1. CASE u # t \/ d <= L - 1 BY <2>1, <1>8
    <2>2. CASE u = t /\ d > L BY <2>2, <1>1, <1>3, <1>8 DEF Is
    <2> QED BY <2>1, <2>2, <1>1
  <1>10. ~Is(t, L)' BY <1>1, <1>3, <1>8
  <1> QED BY <1>8, <1>9, <1>10 DEF Elsewhere

\* A thread that is in no operation begins one.
LEMMA StartStep ==
    ASSUME TypeOK, StackInv, NEW t \in Threads, stack[t] = <<>>, NEW g \in Frames,
           stack' = Push(t, g)
    PROVE  /\ stack' \in [Threads -> Seq(Frames)] /\ StackInv'
           /\ Elsewhere(t, 1) /\ ~Is(t, 1) /\ Is(t, 1)' /\ Fr(t, 1)' = g
  <1> DEFINE s == Push(t, g)
  <1>1. stack[t] \in Seq(Frames) /\ stack \in [Threads -> Seq(Frames)] /\ Len(stack[t]) = 0
    BY DEF TypeOK
  <1>2. s[t] = <<g>> \o stack[t] /\ \A u \in Threads : u # t => s[u] = stack[u]
    BY <1>1 DEF Push
  <1>3. s[t] \in Seq(Frames) /\ Len(s[t]) = 1 /\ Nth(s[t], 1) = g
    <2>1. /\ <<g>> \o stack[t] \in Seq(Frames)
          /\ Len(<<g>> \o stack[t]) = Len(stack[t]) + 1
          /\ Nth(<<g>> \o stack[t], Len(stack[t]) + 1) = g
      BY <1>1, Pushed
    <2> QED BY <2>1, <1>1, <1>2
  <1>4. s \in [Threads -> Seq(Frames)] BY <1>1, <1>2, <1>3 DEF Push
  <1>5. Stirred(s, stack') BY <1>4, Unstirred
  <1> HIDE DEF s
  <1>6. /\ stack' \in [Threads -> Seq(Frames)]
        /\ StackInv'
        /\ \A u \in Threads, d \in Nat :
              u # t \/ d <= 0 => /\ Is(u, d)' <=> Is(u, d)
                                 /\ Is(u, d) => Same(Fr(u, d), Fr(u, d)')
        /\ \A d \in Nat : Is(t, d)' <=> d \in 1..Len(s[t])
    <2>1. /\ 0 \in Nat /\ 0 <= Len(stack[t]) /\ 0 <= Len(s[t])
          /\ \A d \in 1..0 : Nth(s[t], d) = Fr(t, d)
          /\ \A d \in (0 + 1)..Len(s[t]) :
               /\ d < Len(s[t]) => Nth(s[t], d).at \in {"child", "derived"}
               /\ Nth(s[t], d).why = "other" => Len(s[t]) = 1
      BY <1>1, <1>3
    <2>2. /\ 0 > 0 => Len(stack[t]) > 0 \/ Len(s[t]) = 0
          /\ 0 > 0 => Fr(t, 1).why # "other" \/ Len(s[t]) = Len(stack[t])
      OBVIOUS
    <2> HIDE DEF Fr
    <2> QED BY <2>1, <2>2, <1>2, <1>4, <1>5, KeepsStackInv
  <1>7. \A d \in Nat : ~Is(t, d) /\ (Is(t, d)' <=> d = 1) BY <1>1, <1>3, <1>6 DEF Is
  <1>8. \A u \in Threads, d \in Nat : <<u, d>> # <<t, 1>> =>
           /\ Is(u, d)' <=> Is(u, d)
           /\ Is(u, d) => Same(Fr(u, d), Fr(u, d)')
    BY <1>6, <1>7
  <1>9. Fr(t, 1)' = g BY <1>3 DEF Fr, s
  <1> QED BY <1>6, <1>7, <1>8, <1>9 DEF Elsewhere

\* The innermost activation calls for the deletion of another entity.
LEMMA CallStep ==
    ASSUME TypeOK, StackInv, NEW t \in Threads, stack[t] # <<>>,
           NEW L \in Nat, L = Len(stack[t]),
           NEW g \in Frames, NEW f \in Frames,
           Same(Cur(t), g), g.at \in {"child", "derived"}, Cur(t).why # "other",
           f.why # "other", f.at = "pin",
           Stirred([stack EXCEPT ![t] = <<f, g>> \o Tail(@)], stack')
    PROVE  /\ stack' \in [Threads -> Seq(Frames)] /\ StackInv'
           /\ Elsewhere(t, L + 1)
           /\ ~Is(t, L + 1) /\ Is(t, L + 1)'
           /\ Fr(t, L + 1)' = f
  <1> DEFINE s == [stack EXCEPT ![t] = <<f, g>> \o Tail(@)]
             r == <<g>> \o Tail(stack[t])
  <1>1. /\ stack[t] \in Seq(Frames) /\ stack \in [Threads -> Seq(Frames)]
        /\ L > 0 /\ Is(t, L) /\ Fr(t, L) = Cur(t) /\ Cur(t) \in Frames
    BY Top
  <1>2. s[t] = <<f, g>> \o Tail(stack[t]) /\ \A u \in Threads : u # t => s[u] = stack[u]
    BY <1>1
  <1>3. /\ r \in Seq(Frames) /\ Len(r) = L /\ Nth(r, L) = g
        /\ \A d \in 1..(L - 1) : Nth(r, d) = Fr(t, d)
    BY <1>1, Stacked DEF Fr
  <1>4. s[t] = <<f>> \o r BY <1>1, <1>2
  <1> HIDE DEF r, s
  <1>5. /\ s[t] \in Seq(Frames) /\ Len(s[t]) = L + 1 /\ Nth(s[t], L + 1) = f
        /\ Nth(s[t], L) = g
        /\ \A d \in 1..(L - 1) : Nth(s[t], d) = Fr(t, d)
    BY <1>3, <1>1, <1>4, Pushed
  <1>6. s \in [Threads -> Seq(Frames)] BY <1>2, <1>5, <1>1 DEF s
  <1>7. g.why # "other" BY DEF Same
  <1>8. L - 1 > 0 => Fr(t, 1).why # "other"
    <2> HAVE L - 1 > 0
    <2>1. Is(t, 1) /\ Len(stack[t]) # 1 BY <1>1 DEF Is
    <2> QED BY <2>1 DEF StackInv
  <1>9. \A d \in ((L - 1) + 1)..Len(s[t]) :
            /\ d < Len(s[t]) => Nth(s[t], d).at \in {"child", "derived"}
            /\ Nth(s[t], d).why = "other" => Len(s[t]) = 1
    <2> TAKE d \in ((L - 1) + 1)..Len(s[t])
    <2>1. d = L \/ d = L + 1 BY <1>1, <1>5
    <2> QED BY <2>1, <1>1, <1>5, <1>7
  <1>10. Stirred(s, stack') BY DEF s
  <1>11. /\ stack' \in [Threads -> Seq(Frames)]
         /\ StackInv'
         /\ \A u \in Threads, d \in Nat :
              u # t \/ d <= L - 1 => /\ Is(u, d)' <=> Is(u, d)
                                     /\ Is(u, d) => Same(Fr(u, d), Fr(u, d)')
         /\ \A d \in Nat : Is(t, d)' <=> d \in 1..Len(s[t])
    <2>1. L - 1 \in Nat /\ L - 1 <= Len(stack[t]) /\ L - 1 <= Len(s[t])
          /\ (L - 1 > 0 => Len(stack[t]) > L - 1)
      BY <1>1, <1>5
    <2> QED BY <2>1, <1>2, <1>5, <1>6, <1>8, <1>9, <1>10, KeepsStackInv
  <1>12. Alike(g, Fr(t, L)') /\ Alike(f, Fr(t, L + 1)')
    <2>1. Len(stack'[t]) = L + 1
          /\ Alike(Nth(s[t], L), Nth(stack'[t], L))
          /\ Alike(Nth(s[t], L + 1), Nth(stack'[t], L + 1))
      <3>1. L \in 1..Len(s[t]) /\ L + 1 \in 1..Len(s[t]) BY <1>1, <1>5
      <3> QED BY <3>1, <1>5, <1>10 DEF Stirred
    <2> QED BY <2>1, <1>5 DEF Fr
  <1>13. Fr(t, L)' = g /\ Fr(t, L + 1)' = f BY <1>12, AlikeSame
  <1>14. ~Is(t, L + 1) /\ Is(t, L + 1)' /\ Is(t, L)' BY <1>1, <1>5, <1>11 DEF Is
  <1>15. \A u \in Threads, d \in Nat : <<u, d>> # <<t, L + 1>> =>
           /\ Is(u, d)' <=> Is(u, d)
           /\ Is(u, d) => Same(Fr(u, d), Fr(u, d)')
    <2> SUFFICES ASSUME NEW u \in Threads, NEW d \in Nat, <<u, d>> # <<t, L + 1>>
                 PROVE  /\ Is(u, d)' <=> Is(u, d)
                        /\ Is(u, d) => Same(Fr(u, d), Fr(u, d)')
      OBVIOUS
    <2>1. CASE u # t \/ d <= L - 1 BY <2>1, <1>11
    <2>2. CASE u = t /\ d = L BY <2>2, <1>1, <1>13, <1>14
    <2>3. CASE u = t /\ d > L + 1 BY <2>3, <1>1, <1>5, <1>11 DEF Is
    <2> QED BY <2>1, <2>2, <2>3, <1>1
  <1> QED BY <1>11, <1>13, <1>14, <1>15 DEF Elsewhere

\* Steps of a handle's counts and flags.
LEMMA Counts ==
    ASSUME NEW l \in LinkType, NEW n \in Int
    PROVE  /\ LET r == [l EXCEPT !.refc = n] IN
                 r \in LinkType /\ r.pin = l.pin /\ r.closing = l.closing
           /\ LET r == [l EXCEPT !.pin = n] IN
                 r \in LinkType /\ r.pin = n /\ r.closing = l.closing
           /\ LET r == [l EXCEPT !.closing = TRUE] IN
                 r \in LinkType /\ r.pin = l.pin /\ r.closing
           /\ LET r == [l EXCEPT !.deferred = TRUE] IN
                 r \in LinkType /\ r.pin = l.pin /\ r.closing = l.closing
  BY DEF LinkType

\* Several of them at once.
LEMMA CountsTwo ==
    ASSUME NEW l \in LinkType, NEW n \in Int, NEW m \in Int
    PROVE  /\ LET r == [l EXCEPT !.refc = n, !.deferred = TRUE] IN
                 r \in LinkType /\ r.pin = l.pin /\ r.closing = l.closing
           /\ LET r == [l EXCEPT !.refc = n, !.pin = m] IN
                 r \in LinkType /\ r.pin = m /\ r.closing = l.closing
           /\ LET r == [l EXCEPT !.refc = n, !.pin = m, !.closing = TRUE] IN
                 r \in LinkType /\ r.pin = m /\ r.closing
  <1> DEFINE a == [l EXCEPT !.refc = n]
             b == [a EXCEPT !.pin = m]
  <1>1. a \in LinkType /\ a.pin = l.pin /\ a.closing = l.closing BY Counts
  <1>2. b \in LinkType /\ b.pin = m /\ b.closing = a.closing BY <1>1, Counts
  <1>3. [a EXCEPT !.deferred = TRUE] = [l EXCEPT !.refc = n, !.deferred = TRUE] OBVIOUS
  <1>4. b = [l EXCEPT !.refc = n, !.pin = m] OBVIOUS
  <1>5. [b EXCEPT !.closing = TRUE] = [l EXCEPT !.refc = n, !.pin = m, !.closing = TRUE]
    BY <1>4
  <1> HIDE DEF a, b
  <1>6. LET r == [a EXCEPT !.deferred = TRUE] IN
                 r \in LinkType /\ r.pin = a.pin /\ r.closing = a.closing
    BY <1>1, Counts
  <1>7. LET r == [b EXCEPT !.closing = TRUE] IN
                 r \in LinkType /\ r.pin = b.pin /\ r.closing
    BY <1>2, Counts
  <1> QED BY <1>1, <1>2, <1>3, <1>4, <1>5, <1>6, <1>7

-----------------------------------------------------------------------------
(* What a step at one activation does to the invariant                     *)

\* The step is at the k-th activation of t; the others are what they were.
StepAt(t, k) ==
    /\ IInv /\ Elsewhere(t, k) /\ implicit' = implicit
    /\ stack' \in [Threads -> Seq(Frames)]
    /\ Len(stack[t]) <= k

\* Activations in which nothing happens keep all that matters.
LEMMA Others ==
    ASSUME NEW t \in Threads, NEW k \in Nat, StepAt(t, k),
           NEW u \in Threads, NEW d \in Nat, <<u, d>> # <<t, k>>
    PROVE  /\ Is(u, d)' <=> Is(u, d)
           /\ Is(u, d) =>
                /\ Fr(u, d) \in Frames /\ Fr(u, d)' \in Frames
                /\ Fr(u, d)'.of = Fr(u, d).of /\ Fr(u, d)'.why = Fr(u, d).why
                /\ Fr(u, d)'.up = Fr(u, d).up
                /\ \A e \in Entities : /\ Holds(Fr(u, d), e)' <=> Holds(Fr(u, d), e)
                                       /\ Claims(Fr(u, d), e)' <=> Claims(Fr(u, d), e)
                /\ Pends(Fr(u, d))' <=> Pends(Fr(u, d))
                /\ Proper(Fr(u, d)) => Proper(Fr(u, d))'
                /\ Fr(u, d)'.at \in Alone <=> Fr(u, d).at \in Alone
                /\ Fr(u, d)'.at \in Leaving <=> Fr(u, d).at \in Leaving
                /\ Fr(u, d)'.at = "close" <=> Fr(u, d).at = "close"
                /\ Fr(u, d)'.at \in Creating \ {"creating"}
                      <=> Fr(u, d).at \in Creating \ {"creating"}
  <1>1. (Is(u, d)' <=> Is(u, d)) /\ (Is(u, d) => Same(Fr(u, d), Fr(u, d)'))
    BY DEF StepAt, Elsewhere
  <1> SUFFICES ASSUME Is(u, d)
               PROVE  /\ Fr(u, d) \in Frames /\ Fr(u, d)' \in Frames
                      /\ Fr(u, d)'.of = Fr(u, d).of /\ Fr(u, d)'.why = Fr(u, d).why
                      /\ Fr(u, d)'.up = Fr(u, d).up
                      /\ \A e \in Entities :
                            /\ Holds(Fr(u, d), e)' <=> Holds(Fr(u, d), e)
                            /\ Claims(Fr(u, d), e)' <=> Claims(Fr(u, d), e)
                      /\ Pends(Fr(u, d))' <=> Pends(Fr(u, d))
                      /\ Proper(Fr(u, d)) => Proper(Fr(u, d))'
                      /\ Fr(u, d)'.at \in Alone <=> Fr(u, d).at \in Alone
                      /\ Fr(u, d)'.at \in Leaving <=> Fr(u, d).at \in Leaving
                      /\ Fr(u, d)'.at = "close" <=> Fr(u, d).at = "close"
                      /\ Fr(u, d)'.at \in Creating \ {"creating"}
                            <=> Fr(u, d).at \in Creating \ {"creating"}
    BY <1>1
  <1>2. Fr(u, d) \in Frames BY FrType DEF StepAt, IInv, Inv1
  <1>3. Fr(u, d)' \in Frames BY <1>1, NthType DEF StepAt, Is, Fr
  <1> DEFINE f == Fr(u, d)
             g == Fr(u, d)'
  <1>4. Same(f, g) /\ f \in Frames /\ g \in Frames BY <1>1, <1>2, <1>3
  <1> HIDE DEF f, g
  <1>5. /\ g.of = f.of /\ g.why = f.why /\ g.up = f.up
        /\ \A e \in Entities : /\ Holds(g, e) <=> Holds(f, e)
                               /\ Claims(g, e) <=> Claims(f, e)
        /\ Pends(g) <=> Pends(f)
        /\ Proper(f) => Proper(g)
        /\ g.at \in Alone <=> f.at \in Alone
        /\ g.at \in Leaving <=> f.at \in Leaving
        /\ g.at = "close" <=> f.at = "close"
        /\ g.at \in Creating \ {"creating"} <=> f.at \in Creating \ {"creating"}
    BY <1>4, SameFacts
  <1>6. /\ \A e \in Entities : /\ Holds(Fr(u, d), e)' <=> Holds(g, e)
                               /\ Claims(Fr(u, d), e)' <=> Claims(g, e)
        /\ Pends(Fr(u, d))' <=> Pends(g)
        /\ Proper(Fr(u, d))' <=> Proper(g)
    BY DEF g, Holds, Claims, Pends, Proper, StepAt
  <1> QED BY <1>2, <1>3, <1>5, <1>6 DEF f, g

\* The activations stay proper if the one of the step does.
LEMMA KeepFrame ==
    ASSUME NEW t \in Threads, NEW k \in Nat, StepAt(t, k),
           Is(t, k)' => Proper(Fr(t, k))'
    PROVE  FrameInv'
  <1> SUFFICES ASSUME NEW u \in Threads, NEW d \in Nat, Is(u, d)'
               PROVE  Proper(Fr(u, d))'
    BY DEF FrameInv
  <1>1. CASE <<u, d>> # <<t, k>> BY <1>1, Others DEF StepAt, IInv, Inv1, FrameInv
  <1> QED BY <1>1

\* The activations that have e pinned.
LEMMA PinsChange ==
    ASSUME NEW t \in Threads, NEW k \in Nat, StepAt(t, k), NEW e \in Entities
    PROVE  /\ (Held(t, k, e)' <=> Held(t, k, e)) => Pins(e)' = Pins(e)
           /\ Held(t, k, e)' /\ ~Held(t, k, e) =>
                 /\ Pins(e)' = Pins(e) \union {<<t, k>>} /\ <<t, k>> \notin Pins(e)
           /\ ~Held(t, k, e)' /\ Held(t, k, e) =>
                 /\ Pins(e)' = Pins(e) \ {<<t, k>>} /\ <<t, k>> \in Pins(e)
  <1>1. \A u \in Threads, d \in Nat : <<u, d>> # <<t, k>> =>
            (Held(u, d, e)' <=> Held(u, d, e))
    BY Others DEF Held
  <1>2. \A h : h \in Pins(e)' <=> h \in Threads \X Nat /\ Held(h[1], h[2], e)'
    BY DEF Pins, Held, Is, Fr, Holds
  <1>3. \A h : h \in Pins(e) <=> h \in Threads \X Nat /\ Held(h[1], h[2], e) BY DEF Pins
  <1>4. \A h \in Threads \X Nat : h = <<h[1], h[2]>> /\ h[1] \in Threads /\ h[2] \in Nat
    OBVIOUS
  <1>5. \A h \in Threads \X Nat : h # <<t, k>> => (h \in Pins(e)' <=> h \in Pins(e))
    BY <1>1, <1>2, <1>3, <1>4
  <1>6. /\ <<t, k>> \in Pins(e)' <=> Held(t, k, e)'
        /\ <<t, k>> \in Pins(e) <=> Held(t, k, e)
    BY <1>2, <1>3
  <1>7. Pins(e) \subseteq Threads \X Nat /\ Pins(e)' \subseteq Threads \X Nat
    BY <1>2, <1>3
  <1> QED BY <1>5, <1>6, <1>7

\* The pin count keeps in step with the activations that have e pinned: both
\* stay, grow or shrink by one.
LEMMA KeepPin ==
    ASSUME NEW t \in Threads, NEW k \in Nat, StepAt(t, k), NEW e \in Entities,
           \/ /\ Held(t, k, e)' <=> Held(t, k, e)
              /\ link'[e].pin = link[e].pin
           \/ /\ Held(t, k, e)' /\ ~Held(t, k, e)
              /\ link'[e].pin = link[e].pin + 1 /\ e \in known'
           \/ ~Held(t, k, e)' /\ Held(t, k, e) /\ link'[e].pin = link[e].pin - 1,
           e \in known' \/ Pending(e)' => e \in known \/ Pending(e),
           e \in known => e \in known'
    PROVE  /\ IsFiniteSet(Pins(e)')
           /\ Pins(e)' # {} => e \in known'
           /\ e \in known' \/ Pending(e)' => link'[e].pin = Cardinality(Pins(e)')
  <1>1. /\ IsFiniteSet(Pins(e)) /\ (Pins(e) # {} => e \in known)
        /\ e \in known \/ Pending(e) => link[e].pin = Cardinality(Pins(e))
    BY DEF StepAt, IInv, Inv2, PinInv
  <1>2. Cardinality(Pins(e)) \in Nat BY <1>1, FS_CardinalityType
  <1>3. CASE (Held(t, k, e)' <=> Held(t, k, e)) /\ link'[e].pin = link[e].pin
    BY <1>3, <1>1, PinsChange
  <1>4. CASE /\ Held(t, k, e)' /\ ~Held(t, k, e)
             /\ link'[e].pin = link[e].pin + 1 /\ e \in known'
    <2>1. Pins(e)' = Pins(e) \union {<<t, k>>} /\ <<t, k>> \notin Pins(e)
      BY <1>4, PinsChange
    <2>2. IsFiniteSet(Pins(e)') /\ Cardinality(Pins(e)') = Cardinality(Pins(e)) + 1
      BY <2>1, <1>1, FS_AddElement
    <2> QED BY <2>2, <1>1, <1>2, <1>4
  <1>5. CASE ~Held(t, k, e)' /\ Held(t, k, e) /\ link'[e].pin = link[e].pin - 1
    <2>1. Pins(e)' = Pins(e) \ {<<t, k>>} /\ <<t, k>> \in Pins(e) BY <1>5, PinsChange
    <2>2. IsFiniteSet(Pins(e)') /\ Cardinality(Pins(e)') = Cardinality(Pins(e)) - 1
      BY <2>1, <1>1, FS_RemoveElement
    <2> QED BY <2>1, <2>2, <1>1, <1>2, <1>5
  <1> QED BY <1>3, <1>4, <1>5

\* Writers in the making stay unknown to others, unless the step shows one.
LEMMA KeepPending ==
    ASSUME NEW t \in Threads, NEW k \in Nat, StepAt(t, k),
           unborn' \subseteq unborn,
           unborn' \intersect (known' \union freed') = {},
           \A u \in Threads, d \in Nat :
               /\ <<u, d>> # <<t, k>> /\ Is(u, d) /\ Pends(Fr(u, d))
               => Fr(u, d).of \notin known' \union freed',
           Is(t, k)' /\ Pends(Fr(t, k))' =>
               /\ Fr(t, k)'.of \notin known' \union unborn' \union implicit \union freed'
               /\ \A u \in Threads, d \in Nat :
                     /\ <<u, d>> # <<t, k>> /\ Is(u, d) /\ Pends(Fr(u, d))
                     => Fr(u, d).of # Fr(t, k)'.of
    PROVE  PendingInv'
  <1>1. /\ unborn \intersect (known \union implicit \union freed) = {}
        /\ \A u \in Threads, d \in Nat : Is(u, d) /\ Pends(Fr(u, d)) =>
              /\ Fr(u, d).of \notin known \union unborn \union implicit \union freed
              /\ \A v \in Threads, c \in Nat :
                    Is(v, c) /\ Pends(Fr(v, c)) /\ Fr(v, c).of = Fr(u, d).of => v = u /\ c = d
    BY DEF StepAt, IInv, Inv2, PendingInv
  <1>2. unborn' \intersect (known' \union implicit' \union freed') = {} BY <1>1 DEF StepAt
  <1>3. \A u \in Threads, d \in Nat : <<u, d>> # <<t, k>> =>
           /\ Is(u, d)' <=> Is(u, d)
           /\ Is(u, d) => /\ Fr(u, d)'.of = Fr(u, d).of
                          /\ Pends(Fr(u, d))' <=> Pends(Fr(u, d))
    BY Others
  <1>4. \A u \in Threads, d \in Nat : u # t \/ d # k => <<u, d>> # <<t, k>> OBVIOUS
  <1>5. ASSUME NEW u \in Threads, NEW d \in Nat, Is(u, d)', Pends(Fr(u, d))'
        PROVE  Fr(u, d)'.of \notin known' \union unborn' \union implicit' \union freed'
    <2>1. CASE <<u, d>> # <<t, k>> BY <2>1, <1>5, <1>1, <1>3 DEF StepAt
    <2>2. CASE <<u, d>> = <<t, k>> BY <2>2, <1>5 DEF StepAt
    <2> QED BY <2>1, <2>2
  <1>6. ASSUME NEW u \in Threads, NEW d \in Nat, NEW v \in Threads, NEW c \in Nat,
               Is(u, d)', Pends(Fr(u, d))', Is(v, c)', Pends(Fr(v, c))',
               Fr(v, c)'.of = Fr(u, d)'.of
        PROVE  v = u /\ c = d
    <2>1. CASE <<u, d>> # <<t, k>> /\ <<v, c>> # <<t, k>> BY <2>1, <1>6, <1>3, <1>1
    <2>2. CASE <<u, d>> = <<t, k>> /\ <<v, c>> # <<t, k>> BY <2>2, <1>6, <1>3
    <2>3. CASE <<u, d>> # <<t, k>> /\ <<v, c>> = <<t, k>> BY <2>3, <1>6, <1>3
    <2> QED BY <2>1, <2>2, <2>3
  <1> QED BY <1>2, <1>5, <1>6 DEF PendingInv

\* No entity becomes pending but the one whose creation begins.
LEMMA KeepPendings ==
    ASSUME NEW t \in Threads, NEW k \in Nat, StepAt(t, k), NEW e, Pending(e)',
           unborn' \subseteq unborn,
           Is(t, k)' /\ Pends(Fr(t, k))' =>
               \/ Fr(t, k)'.of \in unborn
               \/ Is(t, k) /\ Pends(Fr(t, k)) /\ Fr(t, k).of = Fr(t, k)'.of
    PROVE  Pending(e)
  <1>1. CASE e \in unborn' BY <1>1 DEF Pending
  <1>2. ASSUME NEW u \in Threads, NEW d \in Nat,
               Is(u, d)', Pends(Fr(u, d))', Fr(u, d)'.of = e
        PROVE  Pending(e)
    <2>1. CASE <<u, d>> # <<t, k>> BY <2>1, <1>2, Others DEF Pending
    <2>2. CASE <<u, d>> = <<t, k>> BY <2>2, <1>2 DEF Pending
    <2> QED BY <2>1, <2>2
  <1>3. e \in unborn' \/ \E u \in Threads, d \in Nat :
            Is(u, d)' /\ Pends(Fr(u, d))' /\ Fr(u, d)'.of = e
    BY DEF Pending
  <1> QED BY <1>1, <1>2, <1>3

\* Entities without a handle stay with their activation, unless the step makes
\* a new one, or frees one that belongs to another.
LEMMA KeepGone ==
    ASSUME NEW t \in Threads, NEW k \in Nat, StepAt(t, k),
           known' \intersect freed' = {},
           \A u \in Threads, d \in Nat :
               /\ <<u, d>> # <<t, k>> /\ Is(u, d) /\ Fr(u, d).at \in Leaving
               => Fr(u, d).of \notin known' \union unborn' \union freed',
           Is(t, k)' /\ Fr(t, k)'.at \in Leaving =>
               /\ Fr(t, k)'.of \notin known' \union unborn' \union freed'
               /\ \A u \in Threads, d \in Nat :
                     /\ <<u, d>> # <<t, k>> /\ Is(u, d) /\ Fr(u, d).of = Fr(t, k)'.of
                     => ~Pends(Fr(u, d)) /\ Fr(u, d).at \notin Leaving,
           Is(t, k)' /\ Pends(Fr(t, k))' =>
               \A u \in Threads, d \in Nat :
                   /\ <<u, d>> # <<t, k>> /\ Is(u, d) /\ Fr(u, d).at \in Leaving
                   => Fr(u, d).of # Fr(t, k)'.of
    PROVE  GoneInv'
  <1>1. \A u \in Threads, d \in Nat : Is(u, d) /\ Fr(u, d).at \in Leaving =>
           \A v \in Threads, c \in Nat :
                Is(v, c) /\ Fr(v, c).of = Fr(u, d).of =>
                    /\ ~Pends(Fr(v, c))
                    /\ Fr(v, c).at \in Leaving => v = u /\ c = d
    BY DEF StepAt, IInv, Inv2, GoneInv
  <1>2. \A u \in Threads, d \in Nat : <<u, d>> # <<t, k>> =>
           /\ Is(u, d)' <=> Is(u, d)
           /\ Is(u, d) => /\ Fr(u, d)'.of = Fr(u, d).of
                          /\ Pends(Fr(u, d))' <=> Pends(Fr(u, d))
                          /\ Fr(u, d)'.at \in Leaving <=> Fr(u, d).at \in Leaving
    BY Others
  <1>3. ASSUME NEW u \in Threads, NEW d \in Nat, Is(u, d)', Fr(u, d)'.at \in Leaving
        PROVE  Fr(u, d)'.of \notin known' \union unborn' \union freed'
    <2>1. CASE <<u, d>> # <<t, k>> BY <2>1, <1>3, <1>2
    <2>2. CASE <<u, d>> = <<t, k>> BY <2>2, <1>3
    <2> QED BY <2>1, <2>2
  <1>4. ASSUME NEW u \in Threads, NEW d \in Nat, NEW v \in Threads, NEW c \in Nat,
               Is(u, d)', Fr(u, d)'.at \in Leaving, Is(v, c)', Fr(v, c)'.of = Fr(u, d)'.of
        PROVE  /\ ~(Pends(Fr(v, c))')
               /\ Fr(v, c)'.at \in Leaving => v = u /\ c = d
    <2>1. CASE <<u, d>> # <<t, k>> /\ <<v, c>> # <<t, k>> BY <2>1, <1>4, <1>2, <1>1
    <2>2. CASE <<u, d>> = <<t, k>> /\ <<v, c>> # <<t, k>> BY <2>2, <1>4, <1>2
    <2>3. CASE <<u, d>> # <<t, k>> /\ <<v, c>> = <<t, k>> BY <2>3, <1>4, <1>2
    <2>4. CASE <<u, d>> = <<t, k>> /\ <<v, c>> = <<t, k>> BY <2>4, <1>4 DEF Pends, Leaving
    <2> QED BY <2>1, <2>2, <2>3, <2>4
  <1>5. GoneInv' <=>
           /\ known' \intersect freed' = {}
           /\ \A u \in Threads, d \in Nat : Is(u, d)' /\ Fr(u, d)'.at \in Leaving =>
                 /\ Fr(u, d)'.of \notin known' \union unborn' \union freed'
                 /\ \A v \in Threads, c \in Nat :
                       Is(v, c)' /\ Fr(v, c)'.of = Fr(u, d)'.of =>
                           /\ ~(Pends(Fr(v, c))')
                           /\ Fr(v, c)'.at \in Leaving => v = u /\ c = d
    BY DEF GoneInv
  <1> QED BY <1>3, <1>4, <1>5

\* Claimed entities stay closed; the step claims closed ones only.
LEMMA KeepClosing ==
    ASSUME NEW t \in Threads, NEW k \in Nat, StepAt(t, k),
           \A e \in Entities : link[e].closing => link'[e].closing,
           \A e \in Entities : Is(t, k)' /\ Claims(Fr(t, k), e)' =>
               link'[e].closing \/ (Fr(t, k)'.at = "close" /\ Fr(t, k)'.up = e)
    PROVE  ClosingInv'
  <1> SUFFICES ASSUME NEW u \in Threads, NEW d \in Nat, NEW e \in Entities,
                      Is(u, d)', Claims(Fr(u, d), e)'
               PROVE  link'[e].closing \/ (Fr(u, d)'.at = "close" /\ Fr(u, d)'.up = e)
    BY DEF ClosingInv
  <1>1. CASE <<u, d>> # <<t, k>>
    <2>1. Is(u, d) /\ Claims(Fr(u, d), e)
          /\ Fr(u, d)'.up = Fr(u, d).up /\ (Fr(u, d)'.at = "close" <=> Fr(u, d).at = "close")
      BY <1>1, Others
    <2>2. ClosingInv BY DEF StepAt, IInv, Inv3
    <2>3. link[e].closing \/ (Fr(u, d).at = "close" /\ Fr(u, d).up = e)
      BY <2>1, <2>2 DEF ClosingInv
    <2> QED BY <2>1, <2>3
  <1>2. CASE <<u, d>> = <<t, k>> BY <1>2
  <1> QED BY <1>1, <1>2

\* Past close_wait the deleting activation is the only one with a pin.
LEMMA Exclusive ==
    ASSUME IInv, NEW u \in Threads, NEW d \in Nat, Is(u, d), Fr(u, d).at \in Alone
    PROVE  /\ Fr(u, d).of \in Entities /\ Fr(u, d).of \in known
           /\ link[Fr(u, d).of].closing
           /\ \A v \in Threads, c \in Nat : Held(v, c, Fr(u, d).of) => v = u /\ c = d
  <1> DEFINE e == Fr(u, d).of
  <1>1. Fr(u, d) \in Frames BY FrType DEF IInv, Inv1
  <1>2. e \in Entities BY <1>1 DEF Frames
  <1>3. Proper(Fr(u, d)) BY DEF IInv, Inv1, FrameInv
  <1>4. Fr(u, d).at # "close" BY DEF Alone
  <1>5. Claims(Fr(u, d), e) /\ Holds(Fr(u, d), e) BY DEF Claims, Holds
  <1>6. link[e].closing BY <1>2, <1>4, <1>5 DEF IInv, Inv3, ClosingInv
  <1>7. <<u, d>> \in Pins(e) BY <1>5 DEF Pins, Held
  <1>8. e \in known /\ IsFiniteSet(Pins(e)) /\ link[e].pin = Cardinality(Pins(e))
    BY <1>2, <1>7 DEF IInv, Inv2, PinInv
  <1>9. link[e].pin = 1 BY DEF IInv, Inv3, AloneInv
  <1>10. Pins(e) = {<<u, d>>}
    <2>1. \E h : Pins(e) = {h} BY <1>8, <1>9, FS_Singleton
    <2> QED BY <2>1, <1>7
  <1>11. \A v \in Threads, c \in Nat : Held(v, c, e) => <<v, c>> \in Pins(e) BY DEF Pins
  <1> QED BY <1>2, <1>6, <1>8, <1>10, <1>11

\* The only pin of an entity is not touched by others: closed entities gain no
\* pins, and an activation can only give up its own.
LEMMA KeepAlone ==
    ASSUME NEW t \in Threads, NEW k \in Nat, StepAt(t, k),
           \A e \in Entities : \/ link'[e].pin = link[e].pin
                               \/ ~link[e].closing \/ Held(t, k, e),
           Is(t, k)' /\ Fr(t, k)'.at \in Alone => link'[Fr(t, k)'.of].pin = 1
    PROVE  AloneInv'
  <1> SUFFICES ASSUME NEW u \in Threads, NEW d \in Nat, Is(u, d)', Fr(u, d)'.at \in Alone
               PROVE  link'[Fr(u, d)'.of].pin = 1
    BY DEF AloneInv
  <1>1. CASE <<u, d>> # <<t, k>>
    <2>1. Is(u, d) /\ Fr(u, d).at \in Alone /\ Fr(u, d)'.of = Fr(u, d).of BY <1>1, Others
    <2>2. /\ Fr(u, d).of \in Entities
          /\ link[Fr(u, d).of].closing
          /\ Held(t, k, Fr(u, d).of) => t = u /\ k = d
      BY <2>1, Exclusive DEF StepAt
    <2>3. link[Fr(u, d).of].pin = 1 BY <2>1 DEF StepAt, IInv, Inv3, AloneInv
    <2> QED BY <1>1, <2>1, <2>2, <2>3
  <1>2. CASE <<u, d>> = <<t, k>> BY <1>2
  <1> QED BY <1>1, <1>2

\* Only the innermost activation of a thread holds a mutex.
LEMMA KeepMutex ==
    ASSUME NEW t \in Threads, NEW k \in Nat, StepAt(t, k),
           \A e \in Entities : \/ mutex'[e] = mutex[e]
                               \/ mutex[e] = None
                               \/ (mutex[e] = t /\ Len(stack[t]) = k),
           Is(t, k)' => /\ Fr(t, k)'.at = "close" => mutex'[Fr(t, k)'.up] = t
                        /\ Fr(t, k)'.at \in Creating \ {"creating"} =>
                              mutex'[Parent[Fr(t, k)'.of]] = t
    PROVE  MutexInv'
  <1> SUFFICES ASSUME NEW u \in Threads, NEW d \in Nat, Is(u, d)'
               PROVE  /\ Fr(u, d)'.at = "close" => mutex'[Fr(u, d)'.up] = u
                      /\ Fr(u, d)'.at \in Creating \ {"creating"} =>
                            mutex'[Parent[Fr(u, d)'.of]] = u
    BY DEF MutexInv
  <1>1. CASE <<u, d>> # <<t, k>>
    <2>1. /\ Is(u, d) /\ Fr(u, d) \in Frames
          /\ Fr(u, d)'.up = Fr(u, d).up /\ Fr(u, d)'.of = Fr(u, d).of
          /\ Fr(u, d)'.at = "close" <=> Fr(u, d).at = "close"
          /\ Fr(u, d)'.at \in Creating \ {"creating"} <=> Fr(u, d).at \in Creating \ {"creating"}
      BY <1>1, Others
    <2>2. /\ Fr(u, d).at = "close" => mutex[Fr(u, d).up] = u
          /\ Fr(u, d).at \in Creating \ {"creating"} => mutex[Parent[Fr(u, d).of]] = u
      BY <2>1 DEF StepAt, IInv, Inv3, MutexInv
    <2>3. u = t /\ Len(stack[t]) = k => Fr(u, d).at \in {"child", "derived"}
      <3> HAVE u = t /\ Len(stack[t]) = k
      <3>1. d # k /\ Len(stack[t]) <= k /\ d \in 1..Len(stack[t])
        BY <1>1, <2>1 DEF StepAt, Is
      <3>2. d < Len(stack[t]) BY <3>1 DEF StepAt, IInv, Inv1, TypeOK
      <3> QED BY <3>2, <2>1 DEF StepAt, IInv, Inv1, StackInv
    <2>4. Proper(Fr(u, d)) BY <2>1 DEF StepAt, IInv, Inv1, FrameInv
    <2>5. Fr(u, d).at = "close" => Fr(u, d).up \in Entities
      BY <2>1, <2>4 DEF Proper, Frames
    <2>6. u # None BY EntityAssumption
    <2>7. Fr(u, d).at \in {"child", "derived"} => Fr(u, d).at \notin Creating \union {"close"}
      BY DEF Creating
    <2>8. Fr(u, d).at = "close" => mutex'[Fr(u, d).up] = u
      <3> HAVE Fr(u, d).at = "close"
      <3>1. Fr(u, d).up \in Entities /\ mutex[Fr(u, d).up] = u /\ ~(u = t /\ Len(stack[t]) = k)
        BY <2>2, <2>3, <2>5
      <3> QED BY <3>1, <2>6
    <2>9. Fr(u, d).at \in Creating \ {"creating"} => mutex'[Parent[Fr(u, d).of]] = u
      <3> HAVE Fr(u, d).at \in Creating \ {"creating"}
      <3>1. Parent[Fr(u, d).of] \in Entities /\ mutex[Parent[Fr(u, d).of]] = u
            /\ ~(u = t /\ Len(stack[t]) = k)
        BY <2>1, <2>2, <2>3, <2>4, <2>7 DEF Proper
      <3> QED BY <3>1, <2>6
    <2> QED BY <2>1, <2>8, <2>9
  <1>2. CASE <<u, d>> = <<t, k>> BY <1>2
  <1> QED BY <1>1, <1>2

\* Nobody begins to delete an implicit entity or its parent.
LEMMA KeepQuiet ==
    ASSUME NEW t \in Threads, NEW k \in Nat, StepAt(t, k),
           \A e \in Entities : deletes[e] = 0 => deletes'[e] = 0,
           /\ Undisturbed /\ Is(t, k)'
           /\ Fr(t, k)'.why \in {"user", "parent", "ref"}
           => Untouched(Fr(t, k)'.of)
    PROVE  QuietInv'
  <1> SUFFICES ASSUME Undisturbed
               PROVE  /\ \A e \in implicit' :
                            /\ Parent[e] \in Entities \ implicit' /\ Parent[Parent[e]] = None
                            /\ deletes'[e] = 0 /\ deletes'[Parent[e]] = 0
                      /\ \A u \in Threads, d \in Nat :
                            Is(u, d)' /\ Fr(u, d)'.why \in {"user", "parent", "ref"} =>
                               Untouched(Fr(u, d)'.of)
    BY DEF QuietInv, Undisturbed, Untouched, StepAt
  <1>1. /\ \A e \in implicit :
              /\ Parent[e] \in Entities \ implicit /\ Parent[Parent[e]] = None
              /\ deletes[e] = 0 /\ deletes[Parent[e]] = 0
        /\ \A u \in Threads, d \in Nat :
              Is(u, d) /\ Fr(u, d).why \in {"user", "parent", "ref"} =>
                 Untouched(Fr(u, d).of)
        /\ implicit \subseteq Entities
    BY DEF StepAt, IInv, Inv1, Inv3, QuietInv, TypeOK
  <1>2. \A e \in implicit' :
           /\ Parent[e] \in Entities \ implicit' /\ Parent[Parent[e]] = None
           /\ deletes'[e] = 0 /\ deletes'[Parent[e]] = 0
    BY <1>1 DEF StepAt
  <1>3. ASSUME NEW u \in Threads, NEW d \in Nat,
               Is(u, d)', Fr(u, d)'.why \in {"user", "parent", "ref"}
        PROVE  Untouched(Fr(u, d)'.of)
    <2>1. CASE <<u, d>> # <<t, k>> BY <2>1, <1>3, <1>1, Others
    <2>2. CASE <<u, d>> = <<t, k>> BY <2>2, <1>3
    <2> QED BY <2>1, <2>2
  <1> QED BY <1>2, <1>3

\* An entity with one claimant keeps one: the step claims what nobody else does.
LEMMA KeepOne ==
    ASSUME NEW t \in Threads, NEW k \in Nat, StepAt(t, k),
           \A e \in Entities :
               /\ e \in implicit => Undisturbed
               /\ Is(t, k)' /\ Claims(Fr(t, k), e)'
               => \/ Is(t, k) /\ Claims(Fr(t, k), e)
                  \/ \A u \in Threads, d \in Nat :
                        ~(<<u, d>> # <<t, k>> /\ Is(u, d) /\ Claims(Fr(u, d), e))
    PROVE  OneInv'
  <1> SUFFICES ASSUME NEW e \in Entities, e \in implicit => Undisturbed,
                      NEW v \in Threads, NEW u \in Threads, NEW c \in Nat, NEW d \in Nat,
                      Is(v, c)', Claims(Fr(v, c), e)', Is(u, d)', Claims(Fr(u, d), e)'
               PROVE  v = u /\ c = d
    BY DEF OneInv, StepAt, Undisturbed
  <1>1. \A w \in Threads, x, y \in Nat, z \in Threads :
           Is(w, x) /\ Claims(Fr(w, x), e) /\ Is(z, y) /\ Claims(Fr(z, y), e)
           => w = z /\ x = y
    BY DEF StepAt, IInv, Inv3, OneInv
  <1>2. \A w \in Threads, x \in Nat : <<w, x>> # <<t, k>> =>
           (Is(w, x)' /\ Claims(Fr(w, x), e)' => Is(w, x) /\ Claims(Fr(w, x), e))
    BY Others
  <1>3. CASE <<v, c>> # <<t, k>> /\ <<u, d>> # <<t, k>> BY <1>3, <1>1, <1>2
  <1>4. CASE <<v, c>> = <<t, k>> /\ <<u, d>> # <<t, k>> BY <1>4, <1>2, <1>1
  <1>5. CASE <<v, c>> # <<t, k>> /\ <<u, d>> = <<t, k>> BY <1>5, <1>2, <1>1
  <1> QED BY <1>3, <1>4, <1>5

\* Only closed entities lose their handle, and none is opened again.
LEMMA KeepOpen ==
    ASSUME IInv, implicit' = implicit,
           \A e \in Entities : link[e].closing => link'[e].closing,
           \A e \in known : e \in known' \/ link[e].closing
    PROVE  OpenInv'
  <1> SUFFICES ASSUME NEW e \in implicit, ~link'[e].closing PROVE e \in known'
    BY DEF OpenInv
  <1>1. e \in Entities BY DEF IInv, Inv1, TypeOK
  <1>2. OpenInv BY DEF IInv, Inv2
  <1>3. ~link[e].closing BY <1>1
  <1>4. e \in known BY <1>2, <1>3 DEF OpenInv
  <1> QED BY <1>3, <1>4

\* An activation that is about to pin an entity holds nothing yet.
LEMMA PinHolds ==
    ASSUME NEW f \in Frames, f.at = "pin", f.up = None
    PROVE  /\ \A e \in Entities : ~Holds(f, e) /\ ~Claims(f, e)
           /\ ~Pends(f) /\ f.at \notin Alone \union Leaving \union Creating
  BY EntityAssumption DEF Holds, Claims, Pends, Alone, Leaving, Creating,
                          Waiting, WithTopic

\* A step at which nothing is pinned, claimed or created.
LEMMA Calm ==
    ASSUME NEW t \in Threads, NEW k \in Nat, StepAt(t, k), TypeOK', StackInv',
           known' = known, freed' = freed, unborn' = unborn, mutex' = mutex,
           children' = children,
           \A e \in Entities : /\ link'[e].pin = link[e].pin
                               /\ link'[e].closing = link[e].closing
                               /\ deletes[e] = 0 => deletes'[e] = 0,
           \/ Is(t, k) /\ Is(t, k)' /\ Same(Fr(t, k), Fr(t, k)')
           \/ /\ ~Is(t, k) /\ Is(t, k)' /\ Fr(t, k)'.at = "pin"
              /\ Fr(t, k)'.up = None /\ Fr(t, k)'.why \in {"user", "parent", "ref"}
              /\ Undisturbed => Untouched(Fr(t, k)'.of)
           \/ Is(t, k) /\ ~(Is(t, k)') /\ Fr(t, k).at = "pin"
    PROVE  IInv'
  <1>1. /\ Is(t, k) => Fr(t, k) \in Frames /\ Proper(Fr(t, k))
        /\ Is(t, k)' => Fr(t, k)' \in Frames
    <2>1. Is(t, k) => Fr(t, k) \in Frames /\ Proper(Fr(t, k))
      BY FrType DEF StepAt, IInv, Inv1, FrameInv
    <2>2. ASSUME Is(t, k)' PROVE Fr(t, k)' \in Frames BY <2>2, NthType DEF StepAt, Is, Fr
    <2> QED BY <2>1, <2>2
  <1> DEFINE f == Fr(t, k)
             g == Fr(t, k)'
  <1>2. /\ \A e \in Entities : /\ Holds(Fr(t, k), e)' <=> Holds(g, e)
                               /\ Claims(Fr(t, k), e)' <=> Claims(g, e)
        /\ Pends(Fr(t, k))' <=> Pends(g)
        /\ Proper(Fr(t, k))' <=> Proper(g)
    BY DEF g, Holds, Claims, Pends, Proper, StepAt
  <1>3. /\ \A e \in Entities : Held(t, k, e)' <=> Held(t, k, e)
        /\ \A e \in Entities : Is(t, k)' /\ Claims(Fr(t, k), e)' => Is(t, k) /\ Claims(f, e)
        /\ Is(t, k)' /\ Pends(Fr(t, k))' => Is(t, k) /\ Pends(f) /\ g.of = f.of
        /\ Is(t, k)' => Proper(Fr(t, k))'
        /\ Is(t, k)' /\ g.at \in Alone => Is(t, k) /\ f.at \in Alone /\ g.of = f.of
        /\ Is(t, k)' /\ g.at \in Leaving => Is(t, k) /\ f.at \in Leaving /\ g.of = f.of
        /\ Is(t, k)' /\ g.at = "close" => Is(t, k) /\ f.at = "close" /\ g.up = f.up
        /\ Is(t, k)' /\ g.at \in Creating \ {"creating"} =>
              Is(t, k) /\ f.at \in Creating \ {"creating"} /\ g.of = f.of
        /\ Undisturbed /\ Is(t, k)' /\ g.why \in {"user", "parent", "ref"} =>
              \/ Untouched(g.of)
              \/ Is(t, k) /\ f.why \in {"user", "parent", "ref"} /\ f.of = g.of
    <2> HIDE DEF f, g
    <2>1. CASE Is(t, k) /\ Is(t, k)' /\ Same(Fr(t, k), Fr(t, k)')
      BY <1>1, <2>1, <1>2, SameFacts DEF f, g, Held
    <2>2. CASE /\ ~Is(t, k) /\ Is(t, k)' /\ Fr(t, k)'.at = "pin"
               /\ Fr(t, k)'.up = None /\ Fr(t, k)'.why \in {"user", "parent", "ref"}
               /\ Undisturbed => Untouched(Fr(t, k)'.of)
      BY <1>1, <2>2, <1>2, PinHolds DEF g, Held, Proper, Creating
    <2>3. CASE Is(t, k) /\ ~(Is(t, k)') /\ Fr(t, k).at = "pin"
      BY <1>1, <2>3, PinHolds DEF f, Proper, Held
    <2> QED BY <2>1, <2>2, <2>3
  <1>4. \A e : Pending(e)' => Pending(e) BY <1>3, KeepPendings
  <1>5. FrameInv' BY <1>3, KeepFrame
  <1>6. ChildInv' BY DEF StepAt, IInv, Inv1, ChildInv
  <1>7. PendingInv'
    <2>1. PendingInv BY DEF StepAt, IInv, Inv2
    <2>2. unborn' \subseteq unborn /\ unborn' \intersect (known' \union freed') = {}
      BY <2>1 DEF PendingInv
    <2>3. \A u \in Threads, d \in Nat :
               /\ <<u, d>> # <<t, k>> /\ Is(u, d) /\ Pends(Fr(u, d))
               => Fr(u, d).of \notin known' \union freed'
      BY <2>1 DEF PendingInv
    <2>4. Is(t, k)' /\ Pends(Fr(t, k))' =>
               /\ g.of \notin known' \union unborn' \union implicit \union freed'
               /\ \A u \in Threads, d \in Nat :
                     /\ <<u, d>> # <<t, k>> /\ Is(u, d) /\ Pends(Fr(u, d))
                     => Fr(u, d).of # g.of
      <3> HAVE Is(t, k)' /\ Pends(Fr(t, k))'
      <3>1. Is(t, k) /\ Pends(f) /\ g.of = f.of BY <1>3
      <3> QED BY <3>1, <2>1 DEF PendingInv
    <2> QED BY <2>2, <2>3, <2>4, KeepPending
  <1>8. PinInv'
    <2> SUFFICES ASSUME NEW e \in Entities
                 PROVE  /\ IsFiniteSet(Pins(e)')
                        /\ Pins(e)' # {} => e \in known'
                        /\ e \in known' \/ Pending(e)' => link'[e].pin = Cardinality(Pins(e)')
      BY DEF PinInv
    <2>1. (Held(t, k, e)' <=> Held(t, k, e)) /\ link'[e].pin = link[e].pin BY <1>3
    <2>2. e \in known' \/ Pending(e)' => e \in known \/ Pending(e) BY <1>4
    <2>3. e \in known => e \in known' OBVIOUS
    <2> QED BY <2>1, <2>2, <2>3, KeepPin
  <1>9. GoneInv'
    <2>1. GoneInv BY DEF StepAt, IInv, Inv2
    <2>2. known' \intersect freed' = {} BY <2>1 DEF GoneInv
    <2>3. \A u \in Threads, d \in Nat :
               /\ <<u, d>> # <<t, k>> /\ Is(u, d) /\ Fr(u, d).at \in Leaving
               => Fr(u, d).of \notin known' \union unborn' \union freed'
      BY <2>1 DEF GoneInv
    <2>4. Is(t, k)' /\ g.at \in Leaving =>
               /\ g.of \notin known' \union unborn' \union freed'
               /\ \A u \in Threads, d \in Nat :
                     /\ <<u, d>> # <<t, k>> /\ Is(u, d) /\ Fr(u, d).of = g.of
                     => ~Pends(Fr(u, d)) /\ Fr(u, d).at \notin Leaving
      <3> HAVE Is(t, k)' /\ g.at \in Leaving
      <3>1. Is(t, k) /\ f.at \in Leaving /\ g.of = f.of BY <1>3
      <3> QED BY <3>1, <2>1 DEF GoneInv
    <2>5. Is(t, k)' /\ Pends(Fr(t, k))' =>
               \A u \in Threads, d \in Nat :
                   /\ <<u, d>> # <<t, k>> /\ Is(u, d) /\ Fr(u, d).at \in Leaving
                   => Fr(u, d).of # g.of
      <3> HAVE Is(t, k)' /\ Pends(Fr(t, k))'
      <3>1. Is(t, k) /\ Pends(f) /\ g.of = f.of BY <1>3
      <3> QED BY <3>1, <2>1 DEF GoneInv
    <2> QED BY <2>2, <2>3, <2>4, <2>5, KeepGone
  <1>10. OpenInv' BY KeepOpen DEF StepAt
  <1>11. ClosingInv'
    <2>1. ClosingInv BY DEF StepAt, IInv, Inv3
    <2>2. \A e \in Entities : link[e].closing => link'[e].closing OBVIOUS
    <2>3. ASSUME NEW e \in Entities, Is(t, k)', Claims(Fr(t, k), e)'
          PROVE  link'[e].closing \/ (g.at = "close" /\ g.up = e)
      <3>1. Is(t, k) /\ Claims(f, e) BY <2>3, <1>3
      <3>2. link[e].closing \/ (f.at = "close" /\ f.up = e) BY <3>1, <2>1 DEF ClosingInv
      <3>3. CASE Same(Fr(t, k), Fr(t, k)') BY <1>1, <2>3, <3>1, <3>3, <3>2, SameFacts
      <3> QED BY <2>3, <3>1, <3>3
    <2> QED BY <2>2, <2>3, KeepClosing
  <1>12. AloneInv'
    <2>1. Is(t, k)' /\ g.at \in Alone => link'[g.of].pin = 1
      <3> HAVE Is(t, k)' /\ g.at \in Alone
      <3>1. Is(t, k) /\ f.at \in Alone /\ g.of = f.of BY <1>3
      <3>2. f.of \in Entities BY <3>1, <1>1 DEF Frames
      <3>3. link[f.of].pin = 1 BY <3>1 DEF StepAt, IInv, Inv3, AloneInv
      <3> QED BY <3>1, <3>2, <3>3
    <2> QED BY <2>1, KeepAlone
  <1>13. MutexInv' BY <1>3, KeepMutex DEF StepAt, IInv, Inv3, MutexInv
  <1>14. QuietInv'
    <2>1. ASSUME Undisturbed, Is(t, k)', g.why \in {"user", "parent", "ref"}
          PROVE  Untouched(g.of)
      <3>1. CASE Is(t, k) /\ f.why \in {"user", "parent", "ref"} /\ f.of = g.of
        BY <2>1, <3>1 DEF StepAt, IInv, Inv3, QuietInv
      <3> QED BY <2>1, <3>1, <1>3
    <2> QED BY <2>1, KeepQuiet
  <1>15. OneInv' BY <1>3, KeepOne
  <1> QED BY <1>5, <1>6, <1>7, <1>8, <1>9, <1>10, <1>11, <1>12, <1>13, <1>14, <1>15
       DEF IInv, Inv1, Inv2, Inv3

-----------------------------------------------------------------------------
(* The actions                                                             *)

\* The innermost activation moves to another place.
LEMMA MoveStep ==
    ASSUME IInv, implicit' = implicit, NEW t \in Threads, stack[t] # <<>>,
           NEW L \in Nat, L = Len(stack[t]), NEW p \in Places,
           Stirred(Step(t, p), stack'),
           stack' = Step(t, p) \/ p \notin {"parked", "asleep"}
    PROVE  /\ StepAt(t, L) /\ stack' \in [Threads -> Seq(Frames)] /\ StackInv'
           /\ Is(t, L) /\ Fr(t, L) = Cur(t) /\ Cur(t) \in Frames /\ Proper(Cur(t))
           /\ Is(t, L)' /\ Fr(t, L)' = [Cur(t) EXCEPT !.at = p]
           /\ Fr(t, L)'.at = p /\ Fr(t, L)'.of = Cur(t).of
           /\ Fr(t, L)'.why = Cur(t).why /\ Fr(t, L)'.up = Cur(t).up
           /\ Fr(t, L)' \in Frames
  <1> DEFINE g == [Cur(t) EXCEPT !.at = p]
  <1>1. /\ TypeOK /\ StackInv /\ FrameInv
        /\ Is(t, L) /\ Fr(t, L) = Cur(t) /\ Cur(t) \in Frames
    BY Top DEF IInv, Inv1
  <1>2. g \in Frames /\ g.at = p /\ g.of = Cur(t).of /\ g.why = Cur(t).why
        /\ g.up = Cur(t).up
    BY <1>1 DEF Frames
  <1>3. Step(t, p) = Goto(t, g) BY DEF Step
  <1> HIDE DEF g
  <1>4. /\ stack' \in [Threads -> Seq(Frames)] /\ StackInv'
        /\ Elsewhere(t, L) /\ Is(t, L)' /\ Fr(t, L)' = g
    BY <1>1, <1>2, <1>3, GotoStep
  <1>5. StepAt(t, L) BY <1>4 DEF StepAt
  <1>6. Proper(Cur(t)) BY <1>1 DEF FrameInv
  <1> QED BY <1>1, <1>2, <1>4, <1>5, <1>6 DEF g

\* An activation that stays among places of one kind.
LEMMA CalmMove ==
    ASSUME IInv, implicit' = implicit, NEW t \in Threads, stack[t] # <<>>,
           NEW p \in Places, NEW K \in Kinds, Cur(t).at \in K, p \in K,
           Stirred(Step(t, p), stack'),
           stack' = Step(t, p) \/ p \notin {"parked", "asleep"},
           link' \in [Entities -> LinkType],
           \A e \in Entities : /\ link'[e].pin = link[e].pin
                               /\ link'[e].closing = link[e].closing,
           ret' \in [Threads -> {"ok", "bad_parameter", "already_deleted"}],
           UNCHANGED <<known, children, mutex, freed, app>>
    PROVE  IInv'
  <1>1. PICK L \in Nat : L = Len(stack[t]) BY DEF IInv, Inv1, TypeOK
  <1>2. /\ StepAt(t, L) /\ stack' \in [Threads -> Seq(Frames)] /\ StackInv'
        /\ Is(t, L) /\ Fr(t, L) = Cur(t)
        /\ Is(t, L)' /\ Fr(t, L)'.at = p /\ Fr(t, L)'.of = Cur(t).of
        /\ Fr(t, L)'.why = Cur(t).why /\ Fr(t, L)'.up = Cur(t).up
    BY <1>1, MoveStep
  <1>3. Same(Fr(t, L), Fr(t, L)') BY <1>2 DEF Same
  <1>4. TypeOK' BY <1>2 DEF IInv, Inv1, TypeOK, app
  <1>5. \A e \in Entities : deletes[e] = 0 => deletes'[e] = 0 BY DEF app
  <1> QED BY <1>2, <1>3, <1>4, <1>5, Calm DEF app

\* A move to another place, with nobody woken up.
LEMMA UnstirredStep ==
    ASSUME IInv, NEW t \in Threads, stack[t] # <<>>, NEW p \in Places
    PROVE  Stirred(Step(t, p), Step(t, p)) /\ Step(t, p) \in [Threads -> Seq(Frames)]
  <1>1. /\ stack[t] \in Seq(Frames) /\ stack \in [Threads -> Seq(Frames)]
        /\ Cur(t) \in Frames
    BY Top DEF IInv, Inv1
  <1>2. [Cur(t) EXCEPT !.at = p] \in Frames BY <1>1 DEF Frames
  <1>3. <<[Cur(t) EXCEPT !.at = p]>> \o Tail(stack[t]) \in Seq(Frames)
    BY <1>1, <1>2, Stacked
  <1>4. Step(t, p) \in [Threads -> Seq(Frames)] BY <1>1, <1>3 DEF Step, Goto
  <1> QED BY <1>4, Unstirred

\* Only the topic's reference count changes.
LEMMA RefersKeeps ==
    ASSUME IInv, implicit' = implicit, NEW t \in Threads, CreateRefersTopic(t)
    PROVE  IInv'
  <1> DEFINE x == TopicOf[Cur(t).of]
  <1>1. stack[t] # <<>> /\ Cur(t).at = "pinned" BY DEF CreateRefersTopic, At, Cur
  <1>2. "referred" \in Places /\ {"pinned", "referred"} \in Kinds
    BY DEF Places, Creating, Kinds
  <1>3. link' = [link EXCEPT ![x].refc = @ + 1] /\ stack' = Step(t, "referred")
        /\ UNCHANGED <<known, children, mutex, freed, ret, app>>
    BY DEF CreateRefersTopic
  <1>4. link \in [Entities -> LinkType]
        /\ ret \in [Threads -> {"ok", "bad_parameter", "already_deleted"}]
    BY DEF IInv, Inv1, TypeOK
  <1> HIDE DEF x
  <1>5. /\ link' \in [Entities -> LinkType]
        /\ \A e \in Entities : /\ link'[e].pin = link[e].pin
                               /\ link'[e].closing = link[e].closing
    <2>1. link' = [e \in Entities |-> IF e = x THEN [link[e] EXCEPT !.refc = @ + 1]
                                              ELSE link[e]]
      BY <1>3, <1>4
    <2>2. \A e \in Entities : link'[e] = IF e = x THEN [link[e] EXCEPT !.refc = @ + 1]
                                                 ELSE link[e]
      BY <2>1
    <2>3. \A e \in Entities : link[e] \in LinkType BY <1>4
    <2>4. ASSUME NEW e \in Entities
          PROVE  LET r == [link[e] EXCEPT !.refc = @ + 1] IN
                 /\ r \in LinkType
                 /\ r.pin = link[e].pin /\ r.closing = link[e].closing
      BY <2>3, Counts DEF LinkType
    <2> QED BY <2>1, <2>2, <2>3, <2>4
  <1>6. Stirred(Step(t, "referred"), stack') BY <1>1, <1>2, <1>3, UnstirredStep
  <1> QED BY <1>1, <1>2, <1>3, <1>4, <1>5, <1>6, CalmMove

\* The mutex is held within the step.
LEMMA LockKeeps ==
    ASSUME IInv, implicit' = implicit, NEW t \in Threads, LockAndInterrupt(t)
    PROVE  IInv'
  <1>1. stack[t] # <<>> /\ Cur(t).at = "lock" BY DEF LockAndInterrupt, At, Cur
  <1>2. "closing" \in Places /\ Waiting \in Kinds /\ {"lock", "closing"} \subseteq Waiting
    BY DEF Places, Waiting, Kinds
  <1>3. stack' = Step(t, "closing") /\ UNCHANGED <<link, known, children, mutex, freed, ret, app>>
    BY DEF LockAndInterrupt
  <1>4. Stirred(Step(t, "closing"), stack') BY <1>1, <1>2, <1>3, UnstirredStep
  <1> QED BY <1>1, <1>2, <1>3, <1>4, CalmMove DEF IInv, Inv1, TypeOK

\* The deletion of a parent goes to sleep.
LEMMA WaitForChildKeeps ==
    ASSUME IInv, implicit' = implicit, NEW t \in Threads, WaitForChild(t)
    PROVE  IInv'
  <1>1. stack[t] # <<>> /\ Cur(t).at = "child" BY DEF WaitForChild, At, Cur
  <1>2. "asleep" \in Places /\ Alone \in Kinds /\ {"child", "asleep"} \subseteq Alone
    BY DEF Places, Alone, Kinds
  <1>3. stack' = Step(t, "asleep") /\ UNCHANGED <<link, known, children, mutex, freed, ret, app>>
    BY DEF WaitForChild
  <1>4. Stirred(Step(t, "asleep"), stack') BY <1>1, <1>2, <1>3, UnstirredStep
  <1> QED BY <1>1, <1>2, <1>3, <1>4, CalmMove DEF IInv, Inv1, TypeOK

\* Another pass, or none.
LEMMA ChildrenDoneKeeps ==
    ASSUME IInv, implicit' = implicit, NEW t \in Threads, ChildrenDone(t)
    PROVE  IInv'
  <1> DEFINE f == Cur(t)
             g == IF f.pass = 1 THEN [f EXCEPT !.at = "enter", !.pass = 2, !.cursor = None]
                                ELSE [f EXCEPT !.at = "handle"]
  <1>1. stack[t] # <<>> /\ Cur(t).at \in {"enter", "awake", "child"}
    BY DEF ChildrenDone, GoesOn, At, Cur
  <1>2. stack' = Goto(t, g) /\ UNCHANGED <<link, known, children, mutex, freed, ret, app>>
    BY DEF ChildrenDone
  <1>3. PICK L \in Nat : L = Len(stack[t]) BY DEF IInv, Inv1, TypeOK
  <1>4. /\ TypeOK /\ StackInv /\ Is(t, L) /\ Fr(t, L) = f /\ f \in Frames
        /\ stack[t] \in Seq(Frames) /\ stack \in [Threads -> Seq(Frames)]
    BY <1>1, <1>3, Top DEF IInv, Inv1
  <1>5. g \in Frames /\ g.of = f.of /\ g.why = f.why /\ g.up = f.up
        /\ g.at \in {"enter", "handle"}
    BY <1>4 DEF Frames, Places, Alone
  <1> HIDE DEF f, g
  <1>6. Same(f, g) BY <1>1, <1>5 DEF Same, Kinds, Alone, f
  <1>7. Goto(t, g) \in [Threads -> Seq(Frames)] BY <1>1, <1>4, <1>5, Stacked DEF Goto
  <1>8. Stirred(Goto(t, g), stack') BY <1>2, <1>7, Unstirred
  <1>9. g.why = "other" <=> Cur(t).why = "other" BY <1>5 DEF f
  <1>10. /\ stack' \in [Threads -> Seq(Frames)] /\ StackInv'
         /\ Elsewhere(t, L) /\ Is(t, L)' /\ Fr(t, L)' = g
    BY <1>1, <1>2, <1>3, <1>4, <1>5, <1>8, <1>9, GotoStep
  <1>11. StepAt(t, L) BY <1>3, <1>10 DEF StepAt, IInv, Inv1, TypeOK
  <1>12. TypeOK' BY <1>2, <1>4, <1>10 DEF TypeOK, app
  <1>13. Same(Fr(t, L), Fr(t, L)') BY <1>4, <1>6, <1>10
  <1> QED BY <1>2, <1>4, <1>10, <1>11, <1>12, <1>13, Calm DEF app

\* A refused or deferred deletion ends; it held nothing.
LEMMA CalmEnd ==
    ASSUME IInv, implicit' = implicit, NEW t \in Threads, At(t, "pin"),
           stack' = Pop(t),
           link' \in [Entities -> LinkType],
           \A e \in Entities : /\ link'[e].pin = link[e].pin
                               /\ link'[e].closing = link[e].closing,
           ret' \in [Threads -> {"ok", "bad_parameter", "already_deleted"}],
           UNCHANGED <<known, children, mutex, freed, app>>
    PROVE  IInv'
  <1>1. PICK L \in Nat : L = Len(stack[t]) BY DEF IInv, Inv1, TypeOK
  <1>2. stack[t] # <<>> /\ Cur(t).at = "pin" BY DEF At, Cur
  <1>3. /\ TypeOK /\ StackInv /\ Is(t, L) /\ Fr(t, L) = Cur(t)
        /\ stack[t] \in Seq(Frames) /\ stack \in [Threads -> Seq(Frames)]
    BY <1>1, <1>2, Top DEF IInv, Inv1
  <1>4. Pop(t) \in [Threads -> Seq(Frames)] BY <1>2, <1>3, Popped DEF Pop
  <1>5. Stirred(Pop(t), stack') BY <1>4, Unstirred
  <1>6. /\ stack' \in [Threads -> Seq(Frames)] /\ StackInv'
        /\ Elsewhere(t, L) /\ ~(Is(t, L)')
    BY <1>1, <1>2, <1>3, <1>5, PopStep
  <1>7. StepAt(t, L) BY <1>1, <1>6 DEF StepAt
  <1>8. TypeOK' BY <1>3, <1>6 DEF TypeOK, app
  <1> QED BY <1>2, <1>3, <1>6, <1>7, <1>8, Calm DEF app

\* The handle is closed or deferred, or becomes deferred: nothing was pinned.
LEMMA RefusedKeeps ==
    ASSUME IInv, implicit' = implicit, NEW t \in Threads,
           DeleteRefused(t) \/ DeleteDeferred(t)
    PROVE  IInv'
  <1> DEFINE e == Cur(t).of
  <1>1. /\ At(t, "pin") /\ stack' = Pop(t)
        /\ UNCHANGED <<known, children, mutex, freed, app>>
        /\ \/ link' = link
           \/ link' = [link EXCEPT ![e].refc = @ - 1, ![e].deferred = TRUE]
        /\ \/ ret' = [ret EXCEPT ![t] = "bad_parameter"]
           \/ ret' = [ret EXCEPT ![t] = "already_deleted"]
           \/ ret' = [ret EXCEPT ![t] = "ok"]
    BY DEF DeleteRefused, DeleteDeferred
  <1>2. link \in [Entities -> LinkType]
        /\ ret \in [Threads -> {"ok", "bad_parameter", "already_deleted"}]
    BY DEF IInv, Inv1, TypeOK
  <1> HIDE DEF e
  <1>3. /\ link' \in [Entities -> LinkType]
        /\ \A d \in Entities : /\ link'[d].pin = link[d].pin
                               /\ link'[d].closing = link[d].closing
    <2>1. CASE link' = link BY <2>1, <1>2
    <2>2. CASE link' = [link EXCEPT ![e].refc = @ - 1, ![e].deferred = TRUE]
      <3> DEFINE r(d) == [link[d] EXCEPT !.refc = @ - 1, !.deferred = TRUE]
      <3>1. link' = [d \in Entities |-> IF d = e THEN r(d) ELSE link[d]] BY <2>2, <1>2
      <3>2. \A d \in Entities : link'[d] = IF d = e THEN r(d) ELSE link[d] BY <3>1
      <3>3. \A d \in Entities : link[d] \in LinkType BY <1>2
      <3>4. ASSUME NEW d \in Entities
            PROVE  /\ r(d) \in LinkType
                   /\ r(d).pin = link[d].pin /\ r(d).closing = link[d].closing
        <4>1. link[d].refc - 1 \in Int BY <3>3 DEF LinkType
        <4> QED BY <3>3, <4>1, CountsTwo
      <3> QED BY <3>1, <3>2, <3>3, <3>4
    <2> QED BY <2>1, <2>2, <1>1
  <1>4. ret' \in [Threads -> {"ok", "bad_parameter", "already_deleted"}] BY <1>1, <1>2
  <1> QED BY <1>1, <1>3, <1>4, CalmEnd

\* One field of one handle changes.
LEMMA RefcStep ==
    ASSUME link \in [Entities -> LinkType], NEW x,
           \/ link' = [link EXCEPT ![x].refc = @ + 1]
           \/ link' = [link EXCEPT ![x].refc = @ - 1]
           \/ link' = link
    PROVE  /\ link' \in [Entities -> LinkType]
           /\ \A e \in Entities : /\ link'[e].pin = link[e].pin
                                  /\ link'[e].closing = link[e].closing
  <1> DEFINE r(e, n) == [link[e] EXCEPT !.refc = n]
  <1>1. \A e \in Entities : link[e] \in LinkType /\ link[e].refc \in Int BY DEF LinkType
  <1>2. \A e \in Entities, n \in Int :
           r(e, n) \in LinkType /\ r(e, n).pin = link[e].pin
           /\ r(e, n).closing = link[e].closing
    BY <1>1, Counts
  <1>3. CASE link' = [link EXCEPT ![x].refc = @ + 1]
    <2>1. link' = [e \in Entities |-> IF e = x THEN r(e, link[e].refc + 1) ELSE link[e]]
      BY <1>3
    <2> HIDE DEF r
    <2>2. \A e \in Entities : link'[e] = link[e] \/ \E n \in Int : link'[e] = r(e, n)
      BY <2>1, <1>1
    <2> QED BY <2>1, <2>2, <1>1, <1>2
  <1>4. CASE link' = [link EXCEPT ![x].refc = @ - 1]
    <2>1. link' = [e \in Entities |-> IF e = x THEN r(e, link[e].refc - 1) ELSE link[e]]
      BY <1>4
    <2> HIDE DEF r
    <2>2. \A e \in Entities : link'[e] = link[e] \/ \E n \in Int : link'[e] = r(e, n)
      BY <2>1, <1>1
    <2> QED BY <2>1, <2>2, <1>1, <1>2
  <1> QED BY <1>3, <1>4

\* A pin more.
LEMMA PinStep ==
    ASSUME link \in [Entities -> LinkType], NEW x, link' = Pinned(x)
    PROVE  /\ link' \in [Entities -> LinkType]
           /\ \A e \in Entities :
                 /\ link'[e].closing = link[e].closing
                 /\ link'[e].pin = IF e = x THEN link[e].pin + 1 ELSE link[e].pin
  <1> DEFINE r(e) == [link[e] EXCEPT !.pin = link[e].pin + 1]
  <1>1. \A e \in Entities : link[e] \in LinkType /\ link[e].pin + 1 \in Int
    BY DEF LinkType
  <1>2. \A e \in Entities :
           r(e) \in LinkType /\ r(e).pin = link[e].pin + 1 /\ r(e).closing = link[e].closing
    BY <1>1, Counts
  <1>3. link' = [e \in Entities |-> IF e = x THEN r(e) ELSE link[e]] BY DEF Pinned
  <1> HIDE DEF r
  <1> QED BY <1>1, <1>2, <1>3

\* A pin less, and maybe the parked ones look again.
LEMMA UnpinStep ==
    ASSUME link \in [Entities -> LinkType], NEW x, NEW s, Unpin(x, s),
           s \in [Threads -> Seq(Frames)]
    PROVE  /\ link' \in [Entities -> LinkType]
           /\ \A e \in Entities :
                 /\ link'[e].closing = link[e].closing
                 /\ link'[e].pin = IF e = x THEN link[e].pin - 1 ELSE link[e].pin
           /\ Stirred(s, stack')
  <1> DEFINE r(e) == [link[e] EXCEPT !.pin = link[e].pin - 1]
  <1>1. \A e \in Entities : link[e] \in LinkType /\ link[e].pin - 1 \in Int
    BY DEF LinkType
  <1>2. \A e \in Entities :
           r(e) \in LinkType /\ r(e).pin = link[e].pin - 1 /\ r(e).closing = link[e].closing
    BY <1>1, Counts
  <1>3. link' = [e \in Entities |-> IF e = x THEN r(e) ELSE link[e]] BY DEF Unpin
  <1>4. stack' = Unparked(s) \/ stack' = s BY DEF Unpin
  <1>5. Stirred(s, stack') BY <1>4, UnparkedStirs, Unstirred
  <1> HIDE DEF r
  <1> QED BY <1>1, <1>2, <1>3, <1>5

\* A deletion that has another one made.
LEMMA CalmCall ==
    ASSUME IInv, implicit' = implicit, NEW t \in Threads, stack[t] # <<>>,
           NEW g \in Frames, NEW f \in Frames,
           Same(Cur(t), g), g.at \in {"child", "derived"}, Cur(t).why # "other",
           f.why \in {"parent", "ref"}, f.at = "pin", f.up = None,
           Undisturbed => Untouched(f.of),
           Stirred([stack EXCEPT ![t] = <<f, g>> \o Tail(@)], stack'),
           link' \in [Entities -> LinkType],
           \A e \in Entities : /\ link'[e].pin = link[e].pin
                               /\ link'[e].closing = link[e].closing,
           ret' \in [Threads -> {"ok", "bad_parameter", "already_deleted"}],
           UNCHANGED <<known, children, mutex, freed, app>>
    PROVE  IInv'
  <1>1. PICK L \in Nat : L = Len(stack[t]) BY DEF IInv, Inv1, TypeOK
  <1>2. TypeOK /\ StackInv BY DEF IInv, Inv1
  <1>3. /\ stack' \in [Threads -> Seq(Frames)] /\ StackInv'
        /\ Elsewhere(t, L + 1) /\ ~Is(t, L + 1) /\ Is(t, L + 1)' /\ Fr(t, L + 1)' = f
    BY <1>1, <1>2, CallStep
  <1>4. StepAt(t, L + 1) BY <1>1, <1>3 DEF StepAt
  <1>5. TypeOK' BY <1>2, <1>3 DEF TypeOK, app
  <1>6. L + 1 \in Nat OBVIOUS
  <1> HIDE DEF Fr, Is
  <1> QED BY <1>3, <1>4, <1>5, <1>6, Calm DEF app

\* The deletion of a parent calls for that of a child, which is not implicit
\* if those are left to their children: its parent would be deleted.
LEMMA DeleteChildKeeps ==
    ASSUME IInv, implicit' = implicit, NEW t \in Threads, DeleteChild(t)
    PROVE  IInv'
  <1>1. stack[t] # <<>> /\ Cur(t).at \in {"enter", "awake", "child"}
    BY DEF DeleteChild, GoesOn, At, Cur
  <1>2. PICK c \in Remaining(Cur(t)) :
           stack' = [stack EXCEPT ![t] =
                        <<Frame(c, "parent", "pin"),
                          [Cur(t) EXCEPT !.at = "child", !.cursor = c]>> \o Tail(@)]
    BY DEF DeleteChild
  <1>3. UNCHANGED <<link, known, children, mutex, freed, ret, app>> BY DEF DeleteChild
  <1>4. PICK L \in Nat : L = Len(stack[t]) BY DEF IInv, Inv1, TypeOK
  <1>5. /\ TypeOK /\ FrameInv /\ Is(t, L) /\ Fr(t, L) = Cur(t) /\ Cur(t) \in Frames
        /\ stack[t] \in Seq(Frames) /\ stack \in [Threads -> Seq(Frames)]
        /\ ChildInv /\ QuietInv
    BY <1>1, <1>4, Top DEF IInv, Inv1, Inv3
  <1>6. Cur(t).of \in Entities /\ c \in children[Cur(t).of] /\ c \in Entities
        /\ Parent[c] = Cur(t).of
    BY <1>2, <1>5 DEF Remaining, ChildInv, TypeOK, Frames
  <1> DEFINE g == [Cur(t) EXCEPT !.at = "child", !.cursor = c]
             f == Frame(c, "parent", "pin")
  <1>7. f \in Frames /\ f.of = c /\ f.why = "parent" /\ f.at = "pin" /\ f.up = None
    BY <1>6 DEF Frame, Frames, Places, Reasons
  <1>8. g \in Frames /\ g.of = Cur(t).of /\ g.why = Cur(t).why /\ g.up = Cur(t).up
        /\ g.at = "child"
    BY <1>5, <1>6 DEF Frames, Places, Alone
  <1>9. Proper(Cur(t)) BY <1>5 DEF FrameInv
  <1>10. Cur(t).why # "other" /\ Cur(t).at # "pin" BY <1>1, <1>9 DEF Proper, Creating
  <1>11. ASSUME Undisturbed PROVE Untouched(c)
    BY <1>5, <1>11, <1>10, <1>9, <1>6, EntityAssumption DEF QuietInv, Untouched, Frames,
       Reasons, Proper
  <1> HIDE DEF f, g
  <1>12. Same(Cur(t), g) BY <1>1, <1>8 DEF Same, Kinds, Alone
  <1>13. [stack EXCEPT ![t] = <<f, g>> \o Tail(@)] \in [Threads -> Seq(Frames)]
    BY <1>1, <1>5, <1>7, <1>8
  <1>14. Stirred([stack EXCEPT ![t] = <<f, g>> \o Tail(@)], stack')
    BY <1>2, <1>13, Unstirred DEF f, g
  <1>15. /\ link' \in [Entities -> LinkType]
         /\ ret' \in [Threads -> {"ok", "bad_parameter", "already_deleted"}]
         /\ \A e \in Entities : /\ link'[e].pin = link[e].pin
                                /\ link'[e].closing = link[e].closing
    BY <1>3, <1>5 DEF TypeOK
  <1> QED BY <1>1, <1>3, <1>7, <1>8, <1>10, <1>11, <1>12, <1>14, <1>15, CalmCall

\* The topic loses a reference, and with the last one its deletion begins;
\* topics are never implicit, nor parents.
LEMMA DeriveKeeps ==
    ASSUME IInv, implicit' = implicit, NEW t \in Threads, Derive(t)
    PROVE  IInv'
  <1> DEFINE x == TopicOf[Cur(t).of]
             g == [Cur(t) EXCEPT !.at = "derived"]
             s == [stack EXCEPT ![t] =
                         (IF link[x].refc = 1 THEN <<Frame(x, "ref", "pin")>>
                          ELSE <<>>) \o <<g>> \o Tail(@)]
  <1>1. stack[t] # <<>> /\ Cur(t).at = "derive" BY DEF Derive, At, Cur
  <1>2. /\ ret' = [ret EXCEPT ![t] = "ok"]
        /\ UNCHANGED <<known, children, mutex, freed, app>>
        /\ \/ x = None /\ stack' = Step(t, "derived") /\ link' = link
           \/ /\ x # None /\ link' = [link EXCEPT ![x].refc = @ - 1]
              /\ stack' = Unparked(s) \/ stack' = s
    BY DEF Derive
  <1>3. PICK L \in Nat : L = Len(stack[t]) BY DEF IInv, Inv1, TypeOK
  <1>4. /\ TypeOK /\ FrameInv /\ Is(t, L) /\ Fr(t, L) = Cur(t) /\ Cur(t) \in Frames
        /\ stack[t] \in Seq(Frames) /\ stack \in [Threads -> Seq(Frames)]
    BY <1>1, <1>3, Top DEF IInv, Inv1
  <1>5. Tail(stack[t]) \in Seq(Frames) BY <1>1, <1>4
  <1>6. g \in Frames /\ g.of = Cur(t).of /\ g.why = Cur(t).why /\ g.up = Cur(t).up
        /\ g.at = "derived"
    BY <1>4 DEF Frames, Places, Leaving
  <1>7. {"derive", "derived"} \in Kinds /\ "derived" \in Places
    BY DEF Kinds, Places, Leaving
  <1>8. /\ ret' \in [Threads -> {"ok", "bad_parameter", "already_deleted"}]
        /\ link' \in [Entities -> LinkType]
        /\ \A e \in Entities : /\ link'[e].pin = link[e].pin
                               /\ link'[e].closing = link[e].closing
    <2>1. ret' \in [Threads -> {"ok", "bad_parameter", "already_deleted"}]
      BY <1>2, <1>4 DEF TypeOK
    <2>2. link \in [Entities -> LinkType] BY <1>4 DEF TypeOK
    <2> HIDE DEF x
    <2> QED BY <1>2, <2>1, <2>2, RefcStep
  <1>9. Proper(Cur(t)) BY <1>4 DEF FrameInv
  <1>10. Cur(t).why # "other" BY <1>1, <1>9 DEF Proper, Creating
  <1>11. CASE x = None BY <1>2, <1>11, <1>1, <1>7, <1>8, UnstirredStep, CalmMove
  <1>12. CASE x # None /\ link[x].refc # 1
    <2>1. s = Step(t, "derived") BY <1>5, <1>6, <1>4, <1>12 DEF Step, Goto
    <2>2. s \in [Threads -> Seq(Frames)] BY <2>1, <1>1, <1>7, UnstirredStep
    <2> HIDE DEF x, s
    <2>3. Stirred(Step(t, "derived"), stack')
      BY <1>2, <1>12, <2>2, <2>1, Unstirred, UnparkedStirs
    <2> QED BY <1>1, <1>2, <1>7, <1>8, <2>3, CalmMove
  <1>13. CASE x # None /\ link[x].refc = 1
    <2> DEFINE f == Frame(x, "ref", "pin")
    <2>1. x \in Topics /\ x \in Entities BY <1>4, <1>13, EntityAssumption DEF Frames
    <2>2. f \in Frames /\ f.of = x /\ f.why = "ref" /\ f.at = "pin" /\ f.up = None
      BY <2>1 DEF Frame, Frames, Places, Reasons
    <2>3. Untouched(x) BY <2>1, <1>4, EntityAssumption DEF Untouched, TypeOK
    <2>4. Same(Cur(t), g) BY <1>1, <1>6 DEF Same, Kinds
    <2>5. s = [stack EXCEPT ![t] = <<f, g>> \o Tail(@)]
      <3>1. <<f>> \o <<g>> \o Tail(stack[t]) = <<f, g>> \o Tail(stack[t])
        BY <1>5, <1>6, <2>2
      <3> QED BY <3>1, <1>4, <1>13
    <2> HIDE DEF f, g, s, x
    <2>6. s \in [Threads -> Seq(Frames)] BY <1>5, <1>6, <2>2, <2>5, <1>4
    <2>7. Stirred(s, stack') BY <1>2, <1>13, <2>6, Unstirred, UnparkedStirs
    <2>8. Stirred([stack EXCEPT ![t] = <<f, g>> \o Tail(@)], stack') BY <2>5, <2>7
    <2> QED BY <1>1, <1>2, <1>6, <1>8, <1>10, <2>2, <2>3, <2>4, <2>8, CalmCall
  <1> QED BY <1>11, <1>12, <1>13

\* A step that pins or unpins, claims or closes, but neither creates nor frees.
LEMMA Pinning ==
    ASSUME NEW t \in Threads, NEW k \in Nat, StepAt(t, k), TypeOK', StackInv', ChildInv',
           known' = known, freed' = freed, unborn' = unborn,
           \A e \in Entities : /\ link[e].closing => link'[e].closing
                               /\ deletes[e] = 0 => deletes'[e] = 0,
           Is(t, k)' => Proper(Fr(t, k))',
           Is(t, k)' /\ Pends(Fr(t, k))' =>
               Is(t, k) /\ Pends(Fr(t, k)) /\ Fr(t, k)'.of = Fr(t, k).of,
           Is(t, k)' /\ Fr(t, k)'.at \in Leaving =>
               Is(t, k) /\ Fr(t, k).at \in Leaving /\ Fr(t, k)'.of = Fr(t, k).of,
           \A e \in Entities :
               \/ (Held(t, k, e)' <=> Held(t, k, e)) /\ link'[e].pin = link[e].pin
               \/ /\ Held(t, k, e)' /\ ~Held(t, k, e)
                  /\ link'[e].pin = link[e].pin + 1 /\ e \in known /\ ~link[e].closing
               \/ /\ ~(Held(t, k, e)') /\ Held(t, k, e)
                  /\ link'[e].pin = link[e].pin - 1,
           \A e \in Entities : Is(t, k)' /\ Claims(Fr(t, k), e)' =>
               link'[e].closing \/ (Fr(t, k)'.at = "close" /\ Fr(t, k)'.up = e),
           Is(t, k)' /\ Fr(t, k)'.at \in Alone => link'[Fr(t, k)'.of].pin = 1,
           \A e \in Entities : \/ mutex'[e] = mutex[e]
                               \/ mutex[e] = None
                               \/ (mutex[e] = t /\ Len(stack[t]) = k),
           Is(t, k)' => /\ Fr(t, k)'.at = "close" => mutex'[Fr(t, k)'.up] = t
                        /\ Fr(t, k)'.at \in Creating \ {"creating"} =>
                              mutex'[Parent[Fr(t, k)'.of]] = t,
           Is(t, k)' /\ Fr(t, k)'.why \in {"user", "parent", "ref"} =>
               Is(t, k) /\ Fr(t, k).why = Fr(t, k)'.why /\ Fr(t, k)'.of = Fr(t, k).of,
           \A e \in Entities :
               /\ e \in implicit => Undisturbed
               /\ Is(t, k)' /\ Claims(Fr(t, k), e)'
               => \/ Is(t, k) /\ Claims(Fr(t, k), e)
                  \/ \A u \in Threads, d \in Nat :
                        ~(<<u, d>> # <<t, k>> /\ Is(u, d) /\ Claims(Fr(u, d), e))
    PROVE  IInv'
  <1> DEFINE f == Fr(t, k)
             g == Fr(t, k)'
  <1>4. \A e : Pending(e)' => Pending(e) BY KeepPendings
  <1>5. FrameInv' BY KeepFrame
  <1>7. PendingInv'
    <2>1. PendingInv BY DEF StepAt, IInv, Inv2
    <2>2. unborn' \subseteq unborn /\ unborn' \intersect (known' \union freed') = {}
      BY <2>1 DEF PendingInv
    <2>3. \A u \in Threads, d \in Nat :
               /\ <<u, d>> # <<t, k>> /\ Is(u, d) /\ Pends(Fr(u, d))
               => Fr(u, d).of \notin known' \union freed'
      BY <2>1 DEF PendingInv
    <2>4. Is(t, k)' /\ Pends(Fr(t, k))' =>
               /\ g.of \notin known' \union unborn' \union implicit \union freed'
               /\ \A u \in Threads, d \in Nat :
                     /\ <<u, d>> # <<t, k>> /\ Is(u, d) /\ Pends(Fr(u, d))
                     => Fr(u, d).of # g.of
      <3> HAVE Is(t, k)' /\ Pends(Fr(t, k))'
      <3>1. Is(t, k) /\ Pends(f) /\ g.of = f.of OBVIOUS
      <3> QED BY <3>1, <2>1 DEF PendingInv
    <2> QED BY <2>2, <2>3, <2>4, KeepPending
  <1>8. PinInv'
    <2> SUFFICES ASSUME NEW e \in Entities
                 PROVE  /\ IsFiniteSet(Pins(e)')
                        /\ Pins(e)' # {} => e \in known'
                        /\ e \in known' \/ Pending(e)' => link'[e].pin = Cardinality(Pins(e)')
      BY DEF PinInv
    <2>1. \/ (Held(t, k, e)' <=> Held(t, k, e)) /\ link'[e].pin = link[e].pin
          \/ /\ Held(t, k, e)' /\ ~Held(t, k, e)
             /\ link'[e].pin = link[e].pin + 1 /\ e \in known'
          \/ ~(Held(t, k, e)') /\ Held(t, k, e) /\ link'[e].pin = link[e].pin - 1
      OBVIOUS
    <2>2. e \in known' \/ Pending(e)' => e \in known \/ Pending(e) BY <1>4
    <2>3. e \in known => e \in known' OBVIOUS
    <2> QED BY <2>1, <2>2, <2>3, KeepPin
  <1>9. GoneInv'
    <2>1. GoneInv BY DEF StepAt, IInv, Inv2
    <2>2. known' \intersect freed' = {} BY <2>1 DEF GoneInv
    <2>3. \A u \in Threads, d \in Nat :
               /\ <<u, d>> # <<t, k>> /\ Is(u, d) /\ Fr(u, d).at \in Leaving
               => Fr(u, d).of \notin known' \union unborn' \union freed'
      BY <2>1 DEF GoneInv
    <2>4. Is(t, k)' /\ g.at \in Leaving =>
               /\ g.of \notin known' \union unborn' \union freed'
               /\ \A u \in Threads, d \in Nat :
                     /\ <<u, d>> # <<t, k>> /\ Is(u, d) /\ Fr(u, d).of = g.of
                     => ~Pends(Fr(u, d)) /\ Fr(u, d).at \notin Leaving
      <3> HAVE Is(t, k)' /\ g.at \in Leaving
      <3>1. Is(t, k) /\ f.at \in Leaving /\ g.of = f.of OBVIOUS
      <3> QED BY <3>1, <2>1 DEF GoneInv
    <2>5. Is(t, k)' /\ Pends(Fr(t, k))' =>
               \A u \in Threads, d \in Nat :
                   /\ <<u, d>> # <<t, k>> /\ Is(u, d) /\ Fr(u, d).at \in Leaving
                   => Fr(u, d).of # g.of
      <3> HAVE Is(t, k)' /\ Pends(Fr(t, k))'
      <3>1. Is(t, k) /\ Pends(f) /\ g.of = f.of OBVIOUS
      <3> QED BY <3>1, <2>1 DEF GoneInv
    <2> QED BY <2>2, <2>3, <2>4, <2>5, KeepGone
  <1>10. OpenInv' BY KeepOpen DEF StepAt
  <1>11. ClosingInv' BY KeepClosing
  <1>12. AloneInv' BY KeepAlone
  <1>13. MutexInv' BY KeepMutex
  <1>14. QuietInv'
    <2>1. ASSUME Undisturbed, Is(t, k)', g.why \in {"user", "parent", "ref"}
          PROVE  Untouched(g.of)
      BY <2>1 DEF StepAt, IInv, Inv3, QuietInv
    <2> QED BY <2>1, KeepQuiet
  <1>15. OneInv' BY KeepOne
  <1> QED BY <1>5, <1>7, <1>8, <1>9, <1>10, <1>11, <1>12, <1>13, <1>14, <1>15
       DEF IInv, Inv1, Inv2, Inv3

\* What an activation has pinned and claims, before and after the step.
LEMMA FrPrimes ==
    ASSUME NEW t \in Threads, NEW k \in Nat, implicit' = implicit
    PROVE  /\ \A e : /\ Holds(Fr(t, k), e)' <=> Holds(Fr(t, k)', e)
                     /\ Claims(Fr(t, k), e)' <=> Claims(Fr(t, k)', e)
                     /\ Held(t, k, e)' <=> Is(t, k)' /\ Holds(Fr(t, k)', e)
           /\ Pends(Fr(t, k))' <=> Pends(Fr(t, k)')
           /\ Proper(Fr(t, k))' <=> Proper(Fr(t, k)')
  BY DEF Held, Holds, Claims, Pends, Proper

\* dds_delete begins, and has nothing pinned yet.
LEMMA StartDeleteKeeps ==
    ASSUME IInv, implicit' = implicit, NEW t \in Threads, NEW e \in Entities,
           StartDelete(t, e)
    PROVE  IInv'
  <1> DEFINE g == Frame(e, "user", "pin")
  <1>1. /\ stack[t] = <<>> /\ deletes[e] > 0
        /\ deletes' = [deletes EXCEPT ![e] = @ - 1]
        /\ stack' = Push(t, g)
        /\ UNCHANGED <<link, known, children, mutex, freed, ret, unborn, uses>>
    BY DEF StartDelete
  <1>2. g \in Frames /\ g.of = e /\ g.why = "user" /\ g.at = "pin" /\ g.up = None
    BY DEF Frame, Frames, Places, Reasons
  <1>3. TypeOK /\ StackInv /\ QuietInv /\ implicit \subseteq Entities
    BY DEF IInv, Inv1, Inv3, TypeOK
  <1> HIDE DEF g
  <1>4. /\ stack' \in [Threads -> Seq(Frames)] /\ StackInv'
        /\ Elsewhere(t, 1) /\ ~Is(t, 1) /\ Is(t, 1)' /\ Fr(t, 1)' = g
    BY <1>1, <1>2, <1>3, StartStep
  <1>5. StepAt(t, 1) BY <1>1, <1>4 DEF StepAt
  <1>6. deletes' \in [Entities -> Nat]
        /\ \A d \in Entities : deletes[d] = 0 => deletes'[d] = 0
    BY <1>1, <1>3 DEF TypeOK
  <1>7. TypeOK' BY <1>1, <1>3, <1>4, <1>6 DEF TypeOK
  <1>8. Undisturbed => Untouched(e) BY <1>1, <1>3 DEF QuietInv, Untouched
  <1> QED BY <1>1, <1>2, <1>4, <1>5, <1>6, <1>7, <1>8, Calm

\* An operation pins its entity.
LEMMA StartUseKeeps ==
    ASSUME IInv, implicit' = implicit, NEW t \in Threads, NEW x \in Entities,
           StartUse(t, x)
    PROVE  IInv'
  <1> DEFINE g == Frame(x, "other", "use")
  <1>1. /\ stack[t] = <<>> /\ uses[x] > 0 /\ x \in known /\ ~link[x].closing
        /\ uses' = [uses EXCEPT ![x] = @ - 1]
        /\ link' = Pinned(x)
        /\ stack' = Push(t, g)
        /\ UNCHANGED <<known, children, mutex, freed, ret, unborn, deletes>>
    BY DEF StartUse, Open
  <1>2. g \in Frames /\ g.of = x /\ g.why = "other" /\ g.at = "use" /\ g.up = None
    BY DEF Frame, Frames, Places, Reasons
  <1>3. TypeOK /\ StackInv /\ ChildInv BY DEF IInv, Inv1
  <1> HIDE DEF g
  <1>4. /\ stack' \in [Threads -> Seq(Frames)] /\ StackInv'
        /\ Elsewhere(t, 1) /\ ~Is(t, 1) /\ Is(t, 1)' /\ Fr(t, 1)' = g
    BY <1>1, <1>2, <1>3, StartStep
  <1>5. StepAt(t, 1) BY <1>1, <1>4 DEF StepAt
  <1>6. /\ link' \in [Entities -> LinkType]
        /\ \A e \in Entities :
                 /\ link'[e].closing = link[e].closing
                 /\ link'[e].pin = IF e = x THEN link[e].pin + 1 ELSE link[e].pin
    BY <1>1, <1>3, PinStep DEF TypeOK
  <1>7. TypeOK' BY <1>1, <1>3, <1>4, <1>6 DEF TypeOK
  <1>8. /\ \A e \in Entities : Holds(g, e) <=> e = x
        /\ \A e \in Entities : ~Claims(g, e)
        /\ ~Pends(g) /\ Proper(g) /\ g.at \notin Leaving \union Alone \union Creating
        /\ g.at # "close"
    BY <1>2, EntityAssumption
       DEF Holds, Claims, Pends, Proper, Leaving, Alone, Creating, Waiting, WithTopic
  <1>9. /\ \A e : /\ Claims(Fr(t, 1), e)' <=> Claims(g, e)
                  /\ Held(t, 1, e)' <=> Holds(g, e)
                  /\ ~Held(t, 1, e)
        /\ Pends(Fr(t, 1))' <=> Pends(g)
        /\ Proper(Fr(t, 1))' <=> Proper(g)
    BY <1>4, FrPrimes DEF Held
  <1>10. ChildInv' BY <1>1, <1>3 DEF ChildInv
  <1>11. \A e \in Entities :
               \/ (Held(t, 1, e)' <=> Held(t, 1, e)) /\ link'[e].pin = link[e].pin
               \/ /\ Held(t, 1, e)' /\ ~Held(t, 1, e)
                  /\ link'[e].pin = link[e].pin + 1 /\ e \in known /\ ~link[e].closing
    BY <1>1, <1>6, <1>8, <1>9
  <1> QED BY <1>1, <1>2, <1>4, <1>5, <1>6, <1>7, <1>8, <1>9, <1>10, <1>11, Pinning

\* An operation ends, with the one pin it has.
LEMMA EndKeeps ==
    ASSUME IInv, implicit' = implicit, NEW t \in Threads, stack[t] # <<>>,
           NEW x \in Entities, \A e \in Entities : Holds(Cur(t), e) <=> e = x,
           Unpin(x, Pop(t)),
           \/ mutex' = mutex
           \/ mutex[x] = t /\ mutex' = [mutex EXCEPT ![x] = None],
           UNCHANGED <<known, children, freed, ret, app>>
    PROVE  IInv'
  <1>1. PICK L \in Nat : L = Len(stack[t]) BY DEF IInv, Inv1, TypeOK
  <1>2. /\ TypeOK /\ StackInv /\ ChildInv /\ Is(t, L) /\ Fr(t, L) = Cur(t)
        /\ stack[t] \in Seq(Frames) /\ stack \in [Threads -> Seq(Frames)]
    BY <1>1, Top DEF IInv, Inv1
  <1>3. Pop(t) \in [Threads -> Seq(Frames)] BY <1>2, Popped DEF Pop
  <1>4. /\ link' \in [Entities -> LinkType]
        /\ \A e \in Entities :
                 /\ link'[e].closing = link[e].closing
                 /\ link'[e].pin = IF e = x THEN link[e].pin - 1 ELSE link[e].pin
        /\ Stirred(Pop(t), stack')
    BY <1>2, <1>3, UnpinStep DEF TypeOK
  <1>5. /\ stack' \in [Threads -> Seq(Frames)] /\ StackInv'
        /\ Elsewhere(t, L) /\ ~(Is(t, L)')
    BY <1>1, <1>2, <1>4, PopStep
  <1>6. StepAt(t, L) BY <1>1, <1>5 DEF StepAt
  <1>7. /\ mutex' \in [Entities -> Threads \union {None}]
        /\ \A e \in Entities : mutex'[e] = mutex[e] \/ mutex[e] = t
    BY <1>2 DEF TypeOK
  <1>8. TypeOK' BY <1>2, <1>4, <1>5, <1>7 DEF TypeOK, app
  <1>9. ChildInv' BY <1>2 DEF ChildInv
  <1>10. \A e \in Entities : /\ Held(t, L, e) <=> e = x
                             /\ ~(Held(t, L, e)')
    BY <1>2, <1>5, FrPrimes DEF Held
  <1>11. \A e \in Entities :
               \/ (Held(t, L, e)' <=> Held(t, L, e)) /\ link'[e].pin = link[e].pin
               \/ /\ ~(Held(t, L, e)') /\ Held(t, L, e)
                  /\ link'[e].pin = link[e].pin - 1
    BY <1>4, <1>10
  <1>12. \A e \in Entities : /\ link[e].closing => link'[e].closing
                             /\ deletes[e] = 0 => deletes'[e] = 0
    BY <1>4 DEF app
  <1>13. \A e \in Entities : \/ mutex'[e] = mutex[e] \/ mutex[e] = None
                             \/ (mutex[e] = t /\ Len(stack[t]) = L)
    BY <1>1, <1>7
  <1> QED BY <1>5, <1>6, <1>8, <1>9, <1>11, <1>12, <1>13, Pinning DEF app

\* An operation unpins its entity.
LEMMA EndUseKeeps ==
    ASSUME IInv, implicit' = implicit, NEW t \in Threads, EndUse(t)
    PROVE  IInv'
  <1> DEFINE f == Cur(t)
  <1>1. /\ stack[t] # <<>> /\ f.at = "use" /\ Unpin(f.of, Pop(t))
        /\ UNCHANGED <<known, children, mutex, freed, ret, app>>
    BY DEF EndUse, At, Cur
  <1>2. PICK L \in Nat : L = Len(stack[t]) BY DEF IInv, Inv1, TypeOK
  <1>3. f \in Frames /\ f = Fr(t, L) /\ Is(t, L) BY <1>1, <1>2, Top DEF IInv, Inv1
  <1>4. Proper(f) BY <1>3 DEF IInv, Inv1, FrameInv
  <1>5. f.of \in Entities BY <1>3 DEF Frames
  <1> HIDE DEF f
  <1>6. f.up = None BY <1>1, <1>4 DEF Proper
  <1>7. \A e \in Entities : Holds(f, e) <=> e = f.of
    BY <1>1, <1>6, EntityAssumption DEF Holds, Waiting, Alone, Creating, WithTopic
  <1> QED BY <1>1, <1>5, <1>7, EndKeeps DEF f

\* The way of an activation that creates a writer.
LEMMA Creator ==
    ASSUME IInv, NEW t \in Threads, stack[t] # <<>>, Cur(t).at \in Creating
    PROVE  /\ Cur(t) \in Frames /\ Cur(t).of \in Entities /\ Cur(t).up = None
           /\ Parent[Cur(t).of] \in Entities
           /\ TopicOf[Cur(t).of] # Parent[Cur(t).of]
           /\ Cur(t).why = "other" /\ Len(stack[t]) = 1
           /\ Cur(t).at # "creating" => mutex[Parent[Cur(t).of]] = t
  <1> DEFINE f == Cur(t)
  <1>1. PICK L \in Nat : L = Len(stack[t]) BY DEF IInv, Inv1, TypeOK
  <1>2. f \in Frames /\ f = Fr(t, L) /\ Is(t, L) BY <1>1, Top DEF IInv, Inv1
  <1>3. Proper(f) BY <1>2 DEF IInv, Inv1, FrameInv
  <1>4. f.of \in Entities BY <1>2 DEF Frames
  <1>5. f.why = "other" /\ f.up = None /\ Parent[f.of] \in Entities
    BY <1>3 DEF Proper, Creating
  <1>6. Len(stack[t]) = 1 BY <1>2, <1>5 DEF IInv, Inv1, StackInv
  <1>7. f.at # "creating" => mutex[Parent[f.of]] = t BY <1>2 DEF IInv, Inv3, MutexInv
  <1>8. TopicOf[f.of] # Parent[f.of] BY <1>4, <1>5, EntityAssumption
  <1> QED BY <1>2, <1>4, <1>5, <1>6, <1>7, <1>8

\* The creation of a writer ends: publisher unlocked and unpinned.
LEMMA CreateEndsKeeps ==
    ASSUME IInv, implicit' = implicit, NEW t \in Threads, CreateEnds(t)
    PROVE  IInv'
  <1> DEFINE f == Cur(t)
             p == Parent[f.of]
  <1>1. /\ stack[t] # <<>> /\ f.at = "unpinned" /\ Unpin(p, Pop(t))
        /\ mutex' = [mutex EXCEPT ![p] = None]
        /\ UNCHANGED <<known, children, freed, ret, app>>
    BY DEF CreateEnds, At, Cur
  <1>2. f.of \in Entities /\ f.up = None /\ p \in Entities /\ mutex[p] = t
    BY <1>1, Creator DEF Creating
  <1> HIDE DEF f, p
  <1>3. \A e \in Entities : Holds(f, e) <=> e = p
    BY <1>1, <1>2, EntityAssumption DEF Holds, Waiting, Alone, Creating, WithTopic, p
  <1> QED BY <1>1, <1>2, <1>3, EndKeeps DEF f

\* The topic is pinned beside the publisher, or the creation is given up.
LEMMA CreatePinsTopicKeeps ==
    ASSUME IInv, implicit' = implicit, NEW t \in Threads, CreatePinsTopic(t)
    PROVE  IInv'
  <1> DEFINE f == Cur(t)
             p == Parent[f.of]
             x == TopicOf[f.of]
  <1>1. /\ stack[t] # <<>> /\ f.at = "locked"
        /\ UNCHANGED <<known, children, freed, ret, app>>
    BY DEF CreatePinsTopic, At, Cur
  <1>2. /\ f.of \in Entities /\ f.up = None /\ p \in Entities /\ mutex[p] = t
        /\ x # p /\ f.why = "other"
    BY <1>1, Creator DEF Creating
  <1>3. CASE ~Open(x) /\ mutex' = [mutex EXCEPT ![p] = None] /\ Unpin(p, Pop(t))
    <2> HIDE DEF f, p, x
    <2>1. \A e \in Entities : Holds(f, e) <=> e = p
      BY <1>1, <1>2, EntityAssumption DEF Holds, Waiting, Alone, Creating, WithTopic, p
    <2> QED BY <1>1, <1>2, <1>3, <2>1, EndKeeps DEF f
  <1>4. CASE /\ Open(x) /\ link' = Pinned(x) /\ stack' = Step(t, "pinned")
             /\ UNCHANGED mutex
    <2>1. PICK L \in Nat : L = Len(stack[t]) BY DEF IInv, Inv1, TypeOK
    <2>2. "pinned" \in Places BY DEF Places, Creating
    <2>3. Stirred(Step(t, "pinned"), stack') BY <1>1, <1>4, <2>2, UnstirredStep
    <2> DEFINE g == Fr(t, L)'
    <2>4. /\ StepAt(t, L) /\ stack' \in [Threads -> Seq(Frames)] /\ StackInv'
          /\ Is(t, L) /\ Fr(t, L) = f /\ Is(t, L)' /\ g.at = "pinned" /\ g.of = f.of
          /\ g.why = f.why /\ g.up = f.up
      BY <1>1, <1>4, <2>1, <2>2, <2>3, MoveStep
    <2>5. TypeOK /\ ChildInv /\ MutexInv /\ known \subseteq Entities
      BY DEF IInv, Inv1, Inv3, TypeOK
    <2>6. x \in Entities /\ x \in known /\ ~link[x].closing BY <1>4, <2>5 DEF Open
    <2>7. /\ link' \in [Entities -> LinkType]
          /\ \A e \in Entities :
                 /\ link'[e].closing = link[e].closing
                 /\ link'[e].pin = IF e = x THEN link[e].pin + 1 ELSE link[e].pin
      BY <1>4, <2>5, PinStep DEF TypeOK
    <2>8. TypeOK' BY <1>1, <1>4, <2>4, <2>5, <2>7 DEF TypeOK, app
    <2>9. /\ \A e : /\ Claims(Fr(t, L), e)' <=> Claims(g, e)
                    /\ Held(t, L, e)' <=> Holds(g, e)
                    /\ Held(t, L, e) <=> Holds(f, e)
          /\ Pends(Fr(t, L))' <=> Pends(g)
          /\ Proper(Fr(t, L))' <=> Proper(g)
      BY <2>4, FrPrimes DEF Held
    <2> HIDE DEF f, p, x, g
    <2>10. /\ \A e \in Entities : Holds(f, e) <=> e = p
           /\ \A e \in Entities : Holds(g, e) <=> e = p \/ e = x
           /\ \A e \in Entities : ~Claims(g, e)
           /\ Pends(f) /\ Proper(g) /\ g.at \notin Leaving \union Alone /\ g.at # "close"
      BY <1>1, <1>2, <2>4, EntityAssumption
         DEF Holds, Claims, Pends, Proper, Leaving, Alone, Creating, Waiting, WithTopic, p, x
    <2>11. \A e \in Entities :
               \/ (Held(t, L, e)' <=> Held(t, L, e)) /\ link'[e].pin = link[e].pin
               \/ /\ Held(t, L, e)' /\ ~Held(t, L, e)
                  /\ link'[e].pin = link[e].pin + 1 /\ e \in known /\ ~link[e].closing
      BY <1>2, <2>6, <2>7, <2>9, <2>10
    <2>12. ChildInv' BY <1>1, <2>5 DEF ChildInv
    <2>13. \A e \in Entities : /\ link[e].closing => link'[e].closing
                               /\ deletes[e] = 0 => deletes'[e] = 0
      BY <1>1, <2>7 DEF app
    <2>14. mutex'[Parent[g.of]] = t BY <1>2, <1>4, <2>4 DEF p
    <2> QED
      BY <1>1, <1>2, <1>4, <2>4, <2>8, <2>9, <2>10, <2>11, <2>12, <2>13, <2>14, Pinning
         DEF app, f, g
  <1> QED BY <1>3, <1>4 DEF CreatePinsTopic

\* The publisher is locked for the creation; its mutex was free.
LEMMA CreateLocksKeeps ==
    ASSUME IInv, implicit' = implicit, NEW t \in Threads, CreateLocks(t)
    PROVE  IInv'
  <1> DEFINE f == Cur(t)
             p == Parent[f.of]
  <1>1. /\ stack[t] # <<>> /\ f.at = "creating" /\ mutex[p] = None
        /\ mutex' = [mutex EXCEPT ![p] = t] /\ stack' = Step(t, "locked")
        /\ UNCHANGED <<link, known, children, freed, ret, app>>
    BY DEF CreateLocks, At, Cur, Free
  <1>2. f.of \in Entities /\ f.up = None /\ p \in Entities /\ f.why = "other"
    BY <1>1, Creator DEF Creating
  <1>3. PICK L \in Nat : L = Len(stack[t]) BY DEF IInv, Inv1, TypeOK
  <1>4. "locked" \in Places BY DEF Places, Creating
  <1>5. Stirred(Step(t, "locked"), stack') BY <1>1, <1>4, UnstirredStep
  <1> DEFINE g == Fr(t, L)'
  <1>6. /\ StepAt(t, L) /\ stack' \in [Threads -> Seq(Frames)] /\ StackInv'
        /\ Is(t, L) /\ Fr(t, L) = f /\ Is(t, L)' /\ g.at = "locked" /\ g.of = f.of
        /\ g.why = f.why /\ g.up = f.up
    BY <1>1, <1>3, <1>4, <1>5, MoveStep
  <1>7. TypeOK /\ ChildInv BY DEF IInv, Inv1
  <1>8. /\ mutex' \in [Entities -> Threads \union {None}] /\ mutex'[p] = t
        /\ \A e \in Entities : mutex'[e] = mutex[e] \/ mutex[e] = None
    BY <1>1, <1>2, <1>7 DEF TypeOK
  <1>9. TypeOK' BY <1>1, <1>6, <1>7, <1>8 DEF TypeOK, app
  <1>10. /\ \A e : /\ Claims(Fr(t, L), e)' <=> Claims(g, e)
                   /\ Held(t, L, e)' <=> Holds(g, e)
                   /\ Held(t, L, e) <=> Holds(f, e)
         /\ Pends(Fr(t, L))' <=> Pends(g)
         /\ Proper(Fr(t, L))' <=> Proper(g)
    BY <1>6, FrPrimes DEF Held
  <1>11. ChildInv' BY <1>1, <1>7 DEF ChildInv
  <1> HIDE DEF f, p, g
  <1>12. /\ \A e \in Entities : Holds(f, e) <=> Holds(g, e)
         /\ \A e \in Entities : ~Claims(g, e)
         /\ Pends(f) /\ Proper(g) /\ g.at \notin Leaving \union Alone /\ g.at # "close"
    BY <1>1, <1>2, <1>6, EntityAssumption
       DEF Holds, Claims, Pends, Proper, Leaving, Alone, Creating, Waiting, WithTopic, p
  <1>13. \A e \in Entities :
            (Held(t, L, e)' <=> Held(t, L, e)) /\ link'[e].pin = link[e].pin
    BY <1>1, <1>10, <1>12
  <1>14. \A e \in Entities : /\ link[e].closing => link'[e].closing
                             /\ deletes[e] = 0 => deletes'[e] = 0
    BY <1>1 DEF app
  <1>15. mutex'[Parent[g.of]] = t BY <1>6, <1>8 DEF p
  <1> QED
    BY <1>1, <1>2, <1>6, <1>8, <1>9, <1>10, <1>11, <1>12, <1>13, <1>14, <1>15, Pinning
       DEF app, f, g

\* The topic is unpinned, and those who sleep or are parked look again.
LEMMA CreateUnpinsTopicKeeps ==
    ASSUME IInv, implicit' = implicit, NEW t \in Threads, CreateUnpinsTopic(t)
    PROVE  IInv'
  <1> DEFINE f == Cur(t)
             p == Parent[f.of]
             x == TopicOf[f.of]
             s == Woken(Step(t, "unpinned"), Parent[x])
  <1>1. /\ stack[t] # <<>> /\ f.at = "registered" /\ Unpin(x, s)
        /\ UNCHANGED <<known, children, mutex, freed, ret, app>>
    BY DEF CreateUnpinsTopic, At, Cur
  <1>2. /\ f.of \in Entities /\ f.up = None /\ p \in Entities /\ mutex[p] = t
        /\ x # p /\ f.why = "other"
    BY <1>1, Creator DEF Creating
  <1>3. PICK L \in Nat : L = Len(stack[t]) BY DEF IInv, Inv1, TypeOK
  <1>4. "unpinned" \in Places BY DEF Places, Creating
  <1>5. Step(t, "unpinned") \in [Threads -> Seq(Frames)] BY <1>1, <1>4, UnstirredStep
  <1>6. Stirred(Step(t, "unpinned"), s) /\ s \in [Threads -> Seq(Frames)]
    BY <1>5, WokenStirs DEF Stirred
  <1>7. TypeOK /\ ChildInv BY DEF IInv, Inv1
  <1>8. /\ link' \in [Entities -> LinkType]
        /\ \A e \in Entities :
               /\ link'[e].closing = link[e].closing
               /\ link'[e].pin = IF e = x THEN link[e].pin - 1 ELSE link[e].pin
        /\ Stirred(s, stack')
    BY <1>1, <1>6, <1>7, UnpinStep DEF TypeOK
  <1>9. Stirred(Step(t, "unpinned"), stack')
    <2> HIDE DEF s
    <2> QED BY <1>5, <1>6, <1>8, StirredTwice
  <1> DEFINE g == Fr(t, L)'
  <1>10. /\ StepAt(t, L) /\ stack' \in [Threads -> Seq(Frames)] /\ StackInv'
         /\ Is(t, L) /\ Fr(t, L) = f /\ Is(t, L)' /\ g.at = "unpinned" /\ g.of = f.of
         /\ g.why = f.why /\ g.up = f.up
    BY <1>1, <1>3, <1>4, <1>9, MoveStep
  <1>11. TypeOK' BY <1>1, <1>7, <1>8, <1>10 DEF TypeOK, app
  <1>12. /\ \A e : /\ Claims(Fr(t, L), e)' <=> Claims(g, e)
                   /\ Held(t, L, e)' <=> Holds(g, e)
                   /\ Held(t, L, e) <=> Holds(f, e)
         /\ Pends(Fr(t, L))' <=> Pends(g)
         /\ Proper(Fr(t, L))' <=> Proper(g)
    BY <1>10, FrPrimes DEF Held
  <1>13. ChildInv' BY <1>1, <1>7 DEF ChildInv
  <1> HIDE DEF f, p, x, g
  <1>14. /\ \A e \in Entities : Holds(f, e) <=> e = p \/ e = x
         /\ \A e \in Entities : Holds(g, e) <=> e = p
         /\ \A e \in Entities : ~Claims(g, e)
         /\ ~Pends(g) /\ Proper(g) /\ g.at \notin Leaving \union Alone /\ g.at # "close"
    BY <1>1, <1>2, <1>10, EntityAssumption
       DEF Holds, Claims, Pends, Proper, Leaving, Alone, Creating, Waiting, WithTopic, p, x
  <1>15. \A e \in Entities :
               \/ (Held(t, L, e)' <=> Held(t, L, e)) /\ link'[e].pin = link[e].pin
               \/ /\ ~(Held(t, L, e)') /\ Held(t, L, e)
                  /\ link'[e].pin = link[e].pin - 1
    BY <1>2, <1>8, <1>12, <1>14
  <1>16. \A e \in Entities : /\ link[e].closing => link'[e].closing
                             /\ deletes[e] = 0 => deletes'[e] = 0
    BY <1>1, <1>8 DEF app
  <1>17. mutex'[Parent[g.of]] = t BY <1>1, <1>2, <1>10 DEF p
  <1> QED BY <1>1, <1>2, <1>10, <1>11, <1>12, <1>13, <1>14, <1>15, <1>16, <1>17, Pinning
       DEF app, f, g

\* Either others have the entity pinned still, or the deleting thread goes on
\* alone.
LEMMA CloseWaitKeeps ==
    ASSUME IInv, implicit' = implicit, NEW t \in Threads, CloseWait(t)
    PROVE  IInv'
  <1> DEFINE f == Cur(t)
  <1>1. /\ stack[t] # <<>> /\ f.at = "closing"
        /\ stack' = Step(t, IF link[f.of].pin = 1 THEN "enter" ELSE "parked")
        /\ UNCHANGED <<link, known, children, mutex, freed, ret, app>>
    BY DEF CloseWait, At, Cur
  <1>2. "enter" \in Places /\ "parked" \in Places /\ Waiting \in Kinds
        /\ {"closing", "parked"} \subseteq Waiting
    BY DEF Places, Alone, Waiting, Kinds
  <1>3. TypeOK /\ ChildInv BY DEF IInv, Inv1
  <1>4. CASE link[f.of].pin # 1
    BY <1>1, <1>4, <1>2, <1>3, UnstirredStep, CalmMove DEF TypeOK
  <1>5. CASE link[f.of].pin = 1
    <2>1. PICK L \in Nat : L = Len(stack[t]) BY <1>3 DEF TypeOK
    <2>2. stack' = Step(t, "enter") /\ Stirred(Step(t, "enter"), stack')
      BY <1>1, <1>2, <1>5, UnstirredStep
    <2> DEFINE g == Fr(t, L)'
    <2>3. /\ StepAt(t, L) /\ stack' \in [Threads -> Seq(Frames)] /\ StackInv'
          /\ Is(t, L) /\ Fr(t, L) = f /\ Is(t, L)' /\ g.at = "enter" /\ g.of = f.of
          /\ g.why = f.why /\ g.up = f.up /\ Proper(f)
      BY <1>1, <1>2, <2>1, <2>2, MoveStep
    <2>4. /\ \A e : /\ Claims(Fr(t, L), e)' <=> Claims(g, e)
                    /\ Held(t, L, e)' <=> Holds(g, e)
                    /\ Held(t, L, e) <=> Holds(f, e)
          /\ Pends(Fr(t, L))' <=> Pends(g)
          /\ Proper(Fr(t, L))' <=> Proper(g)
      BY <2>3, FrPrimes DEF Held
    <2>5. TypeOK' /\ ChildInv' BY <1>1, <1>3, <2>3 DEF TypeOK, ChildInv, app
    <2> HIDE DEF f, g
    <2>6. /\ \A e \in Entities : (Holds(f, e) <=> Holds(g, e)) /\ (Claims(f, e) <=> Claims(g, e))
          /\ ~Pends(g) /\ Proper(g) /\ g.at \notin Leaving \union Creating /\ g.at # "close"
      BY <1>1, <2>3 DEF Holds, Claims, Pends, Proper, Leaving, Alone, Creating, Waiting,
                        WithTopic
    <2>7. \A e \in Entities :
              (Held(t, L, e)' <=> Held(t, L, e)) /\ link'[e].pin = link[e].pin
      BY <1>1, <2>4, <2>6
    <2>8. /\ \A e \in Entities : link[e].closing => link'[e].closing
          /\ \A e \in Entities : Claims(g, e) => link'[e].closing
      BY <2>3, <1>1, <2>6 DEF IInv, Inv3, ClosingInv
    <2>9. link'[g.of].pin = 1 BY <1>1, <1>5, <2>3
    <2> QED BY <1>1, <2>3, <2>4, <2>5, <2>6, <2>7, <2>8, <2>9, Pinning DEF app, f, g
  <1> QED BY <1>4, <1>5

\* The handle is pinned and closed, and loses references.
LEMMA ClaimStep ==
    ASSUME link \in [Entities -> LinkType], NEW x \in Entities, NEW n \in Int,
           link' = [link EXCEPT ![x].refc = @ - n, ![x].pin = @ + 1, ![x].closing = TRUE]
    PROVE  /\ link' \in [Entities -> LinkType] /\ link'[x].closing
           /\ \A e \in Entities :
                 /\ link[e].closing => link'[e].closing
                 /\ link'[e].pin = IF e = x THEN link[e].pin + 1 ELSE link[e].pin
  <1> DEFINE r(e) == [link[e] EXCEPT !.refc = link[e].refc - n, !.pin = link[e].pin + 1,
                                     !.closing = TRUE]
  <1>1. \A e \in Entities :
           link[e] \in LinkType /\ link[e].pin + 1 \in Int /\ link[e].refc - n \in Int
    BY DEF LinkType
  <1>2. ASSUME NEW e \in Entities
        PROVE  r(e) \in LinkType /\ r(e).pin = link[e].pin + 1 /\ r(e).closing
    <2> DEFINE l == link[e]  a == link[e].refc - n  b == link[e].pin + 1
    <2>1. l \in LinkType /\ a \in Int /\ b \in Int BY <1>1
    <2> DEFINE k == [l EXCEPT !.refc = a]
               h == [k EXCEPT !.pin = b]
               q == [h EXCEPT !.closing = TRUE]
    <2>2. q = r(e) BY <2>1 DEF LinkType
    <2> HIDE DEF l, a, b, r
    <2>5. k \in LinkType BY <2>1, Counts
    <2> HIDE DEF k
    <2>3. h \in LinkType /\ h.pin = b BY <2>1, <2>5, Counts
    <2> HIDE DEF h
    <2>4. q \in LinkType /\ q.pin = h.pin /\ q.closing BY <2>3, Counts
    <2> HIDE DEF q
    <2> QED BY <2>2, <2>3, <2>4 DEF b
  <1>3. link' = [e \in Entities |-> IF e = x THEN r(e) ELSE link[e]] OBVIOUS
  <1> HIDE DEF r
  <1>4. \A e \in Entities : link'[e] = IF e = x THEN r(e) ELSE link[e] BY <1>3
  <1>5. link' \in [Entities -> LinkType]
    <2>1. \A e \in Entities : (IF e = x THEN r(e) ELSE link[e]) \in LinkType BY <1>1, <1>2
    <2> HIDE DEF LinkType
    <2> QED BY <2>1, <1>3
  <1>6. link'[x].closing BY <1>2, <1>4
  <1>7. ASSUME NEW e \in Entities
        PROVE  /\ link[e].closing => link'[e].closing
               /\ link'[e].pin = IF e = x THEN link[e].pin + 1 ELSE link[e].pin
    <2>1. CASE e = x BY <2>1, <1>2, <1>4
    <2>2. CASE e # x BY <2>2, <1>4
    <2> QED BY <2>1, <2>2
  <1> QED BY <1>5, <1>6, <1>7

\* Whoever could claim the entity before it is closed is an only child that
\* takes it along, and then the application does not delete it.
LEMMA PinForDeleteKeeps ==
    ASSUME IInv, implicit' = implicit, NEW t \in Threads, PinForDelete(t)
    PROVE  IInv'
  <1> DEFINE f == Cur(t)
             x == f.of
             own == IF x \in implicit \/ link[x].deferred THEN 0 ELSE 1
  <1>1. /\ stack[t] # <<>> /\ f.at = "pin" /\ x \in known /\ ~link[x].closing
        /\ link' = [link EXCEPT ![x].refc = @ - own, ![x].pin = @ + 1, ![x].closing = TRUE]
        /\ stack' = Step(t, "lock")
        /\ UNCHANGED <<known, children, mutex, freed, ret, app>>
    BY DEF PinForDelete, At, Cur, Open
  <1>2. "lock" \in Places BY DEF Places, Waiting
  <1>3. TypeOK /\ ChildInv /\ FrameInv /\ ClosingInv /\ QuietInv BY DEF IInv, Inv1, Inv3
  <1>4. PICK L \in Nat : L = Len(stack[t]) BY <1>3 DEF TypeOK
  <1>5. Stirred(Step(t, "lock"), stack') BY <1>1, <1>2, UnstirredStep
  <1> DEFINE g == Fr(t, L)'
  <1>6. /\ StepAt(t, L) /\ stack' \in [Threads -> Seq(Frames)] /\ StackInv'
        /\ Is(t, L) /\ Fr(t, L) = f /\ Is(t, L)' /\ g.at = "lock" /\ g.of = x
        /\ g.why = f.why /\ g.up = f.up /\ Proper(f) /\ f \in Frames
    BY <1>1, <1>2, <1>4, <1>5, MoveStep
  <1>7. own \in Int /\ x \in Entities BY <1>6 DEF Frames
  <1> HIDE DEF own
  <1>8. /\ link' \in [Entities -> LinkType] /\ link'[x].closing
        /\ \A e \in Entities :
              /\ link[e].closing => link'[e].closing
              /\ link'[e].pin = IF e = x THEN link[e].pin + 1 ELSE link[e].pin
    <2>1. link \in [Entities -> LinkType] BY <1>3 DEF TypeOK
    <2> HIDE DEF f, x
    <2> QED BY <2>1, <1>1, <1>7, ClaimStep
  <1>9. TypeOK' /\ ChildInv' BY <1>1, <1>3, <1>6, <1>8 DEF TypeOK, ChildInv, app
  <1>10. /\ \A e : /\ Claims(Fr(t, L), e)' <=> Claims(g, e)
                   /\ Held(t, L, e)' <=> Holds(g, e)
                   /\ Held(t, L, e) <=> Holds(f, e)
         /\ Pends(Fr(t, L))' <=> Pends(g)
         /\ Proper(Fr(t, L))' <=> Proper(g)
    BY <1>6, FrPrimes DEF Held
  <1>11. f.why \in {"user", "parent", "ref"}
    BY <1>1, <1>6 DEF Proper, Frames, Reasons, Creating
  <1>12. Undisturbed => x \notin implicit BY <1>3, <1>6, <1>11 DEF QuietInv, Untouched
  <1> HIDE DEF f, x, g
  <1>13. f.up = None BY <1>1, <1>6 DEF Proper
  <1>14. /\ \A e \in Entities : Holds(g, e) <=> e = x
         /\ \A e \in Entities : Claims(g, e) <=> e = x
         /\ \A e \in Entities : ~Holds(f, e)
         /\ ~Pends(g) /\ Proper(g) /\ g.at \notin Leaving \union Creating \union Alone
         /\ g.at # "close"
    BY <1>1, <1>6, <1>13, EntityAssumption
       DEF Holds, Claims, Pends, Proper, Leaving, Alone, Creating, Waiting, WithTopic
  <1>15. \A e \in Entities :
             \/ (Held(t, L, e)' <=> Held(t, L, e)) /\ link'[e].pin = link[e].pin
             \/ /\ Held(t, L, e)' /\ ~Held(t, L, e)
                /\ link'[e].pin = link[e].pin + 1 /\ e \in known /\ ~link[e].closing
             \/ /\ ~(Held(t, L, e)') /\ Held(t, L, e)
                /\ link'[e].pin = link[e].pin - 1
    BY <1>1, <1>8, <1>10, <1>14
  <1>16. ASSUME NEW u \in Threads, NEW d \in Nat, Is(u, d), Claims(Fr(u, d), x),
                x \in implicit => Undisturbed
         PROVE  FALSE
    <2>1. Fr(u, d).at = "close" /\ Fr(u, d).up = x
      BY <1>1, <1>3, <1>7, <1>16 DEF ClosingInv
    <2>2. Proper(Fr(u, d)) BY <1>3, <1>16 DEF FrameInv
    <2>3. x \in implicit BY <2>1, <2>2, <1>7, EntityAssumption DEF Proper
    <2> QED BY <2>3, <1>12, <1>16
  <1>17. \A e \in Entities : deletes[e] = 0 => deletes'[e] = 0 BY <1>1 DEF app
  <1>18. \A e \in Entities :
            /\ e \in implicit => Undisturbed
            /\ Is(t, L)' /\ Claims(Fr(t, L), e)'
            => \/ Is(t, L) /\ Claims(Fr(t, L), e)
               \/ \A u \in Threads, d \in Nat :
                     ~(<<u, d>> # <<t, L>> /\ Is(u, d) /\ Claims(Fr(u, d), e))
    BY <1>10, <1>14, <1>16
  <1>19. /\ Fr(t, L).why = Fr(t, L)'.why /\ Fr(t, L)'.of = Fr(t, L).of
         /\ Proper(Fr(t, L))' /\ ~(Pends(Fr(t, L))') /\ Is(t, L)
    BY <1>6, <1>10, <1>14 DEF g, x
  <1>20. /\ Fr(t, L)'.at \notin Leaving /\ Fr(t, L)'.at \notin Alone
         /\ Fr(t, L)'.at # "close" /\ Fr(t, L)'.at \notin Creating \ {"creating"}
    BY <1>14 DEF g
  <1>21. \A e \in Entities : Is(t, L)' /\ Claims(Fr(t, L), e)' =>
             link'[e].closing \/ (Fr(t, L)'.at = "close" /\ Fr(t, L)'.up = e)
    BY <1>8, <1>10, <1>14
  <1>22. known' = known /\ freed' = freed /\ unborn' = unborn /\ mutex' = mutex
    BY <1>1 DEF app
  <1>23. \A e \in Entities :
             /\ link[e].closing => link'[e].closing
             /\ deletes[e] = 0 => deletes'[e] = 0
    BY <1>8, <1>17
  <1> QED BY <1>6, <1>9, <1>15, <1>18, <1>19, <1>20, <1>21, <1>22, <1>23, Pinning

\* The handle loses a reference and is pinned.
LEMMA TakeStep ==
    ASSUME link \in [Entities -> LinkType], NEW x \in Entities,
           link' = [link EXCEPT ![x].refc = @ - 1, ![x].pin = @ + 1]
    PROVE  /\ link' \in [Entities -> LinkType]
           /\ \A e \in Entities :
                 /\ link'[e].closing = link[e].closing
                 /\ link'[e].pin = IF e = x THEN link[e].pin + 1 ELSE link[e].pin
  <1> DEFINE r(e) == [link[e] EXCEPT !.refc = link[e].refc - 1, !.pin = link[e].pin + 1]
  <1>1. \A e \in Entities :
           link[e] \in LinkType /\ link[e].pin + 1 \in Int /\ link[e].refc - 1 \in Int
    BY DEF LinkType
  <1>2. ASSUME NEW e \in Entities
        PROVE  r(e) \in LinkType /\ r(e).pin = link[e].pin + 1 /\ r(e).closing = link[e].closing
    <2> DEFINE l == link[e]  a == link[e].refc - 1  b == link[e].pin + 1
    <2>1. l \in LinkType /\ a \in Int /\ b \in Int BY <1>1
    <2> DEFINE k == [l EXCEPT !.refc = a]
               h == [k EXCEPT !.pin = b]
    <2>2. h = r(e) BY <2>1 DEF LinkType
    <2> HIDE DEF l, a, b, r
    <2>3. k \in LinkType /\ k.closing = l.closing BY <2>1, Counts
    <2> HIDE DEF k
    <2>4. h \in LinkType /\ h.pin = b /\ h.closing = k.closing BY <2>1, <2>3, Counts
    <2> HIDE DEF h
    <2> QED BY <2>2, <2>3, <2>4 DEF b, l
  <1>3. link' = [e \in Entities |-> IF e = x THEN r(e) ELSE link[e]] OBVIOUS
  <1> HIDE DEF r
  <1>4. \A e \in Entities : link'[e] = IF e = x THEN r(e) ELSE link[e] BY <1>3
  <1>5. link' \in [Entities -> LinkType]
    <2>1. \A e \in Entities : (IF e = x THEN r(e) ELSE link[e]) \in LinkType BY <1>1, <1>2
    <2> HIDE DEF LinkType
    <2> QED BY <2>1, <1>3
  <1>6. ASSUME NEW e \in Entities
        PROVE  /\ link'[e].closing = link[e].closing
               /\ link'[e].pin = IF e = x THEN link[e].pin + 1 ELSE link[e].pin
    <2>1. CASE e = x BY <2>1, <1>2, <1>4
    <2>2. CASE e # x BY <2>2, <1>4
    <2> QED BY <2>1, <2>2
  <1> QED BY <1>5, <1>6

\* The last child takes its parent along: under the parent's mutex, which
\* nobody else who could claim it has.
LEMMA UnlinkTakes ==
    ASSUME IInv, implicit' = implicit, NEW t \in Threads, At(t, "unlink"),
           NEW p, p = Parent[Cur(t).of], Free(p), TakesParent(Cur(t), p),
           children' = [children EXCEPT ![p] = @ \ {Cur(t).of}],
           link' = [link EXCEPT ![p].refc = @ - 1, ![p].pin = @ + 1],
           mutex' = [mutex EXCEPT ![p] = t],
           stack' = Goto(t, [Cur(t) EXCEPT !.at = "close", !.up = p]),
           UNCHANGED <<known, freed, ret, app>>
    PROVE  IInv'
  <1> DEFINE f == Cur(t)
             g == [f EXCEPT !.at = "close", !.up = p]
  <1>1. /\ stack[t] # <<>> /\ f.at = "unlink" /\ mutex[p] = None
        /\ p \in implicit /\ ~link[p].closing
    BY DEF At, Cur, Free, TakesParent
  <1>2. TypeOK /\ StackInv /\ ChildInv /\ FrameInv /\ ClosingInv /\ MutexInv /\ OpenInv
    BY DEF IInv, Inv1, Inv2, Inv3
  <1>3. PICK L \in Nat : L = Len(stack[t])
    <2>1. stack[t] \in Seq(Frames) BY <1>2 DEF TypeOK
    <2> QED BY <2>1
  <1>4. /\ Is(t, L) /\ Fr(t, L) = f /\ f \in Frames
        /\ stack[t] \in Seq(Frames) /\ stack \in [Threads -> Seq(Frames)]
    BY <1>1, <1>2, <1>3, Top
  <1>5. p \in Entities /\ p \in known /\ f.of \in Entities
    BY <1>1, <1>2, <1>4 DEF TypeOK, OpenInv, Frames
  <1>6. /\ g \in Frames /\ g.of = f.of /\ g.why = f.why /\ g.up = p /\ g.at = "close"
    BY <1>4, <1>5 DEF Frames, Places, Leaving
  <1> HIDE DEF g
  <1>7. Goto(t, g) \in [Threads -> Seq(Frames)] BY <1>1, <1>4, <1>6, Stacked DEF Goto
  <1>8. Stirred(Goto(t, g), stack') /\ stack' = Goto(t, g) BY <1>7, Unstirred DEF g
  <1>9. /\ stack' \in [Threads -> Seq(Frames)] /\ StackInv'
        /\ Elsewhere(t, L) /\ Is(t, L)' /\ Fr(t, L)' = g
    BY <1>1, <1>2, <1>3, <1>6, <1>8, GotoStep
  <1>10. StepAt(t, L) BY <1>3, <1>9 DEF StepAt, TypeOK
  <1>11. /\ link' \in [Entities -> LinkType]
         /\ \A e \in Entities :
               /\ link'[e].closing = link[e].closing
               /\ link'[e].pin = IF e = p THEN link[e].pin + 1 ELSE link[e].pin
    BY <1>2, <1>5, TakeStep DEF TypeOK
  <1>12. /\ mutex' \in [Entities -> Threads \union {None}] /\ mutex'[p] = t
         /\ \A e \in Entities : mutex'[e] = mutex[e] \/ mutex[e] = None
    BY <1>1, <1>2, <1>5 DEF TypeOK
  <1>13. /\ children' \in [Entities -> SUBSET Entities]
         /\ \A e \in Entities : children'[e] \subseteq children[e]
    <2>1. children \in [Entities -> SUBSET Entities] BY <1>2 DEF TypeOK
    <2>2. children' = [e \in Entities |-> IF e = p THEN children[e] \ {Cur(t).of} ELSE children[e]]
      BY <2>1
    <2> HIDE DEF Cur
    <2> QED BY <2>1, <2>2
  <1>14. TypeOK' /\ ChildInv' BY <1>2, <1>9, <1>11, <1>12, <1>13 DEF TypeOK, ChildInv, app
  <1>15. Proper(f) BY <1>2, <1>4 DEF FrameInv
  <1>16. /\ \A e : /\ Claims(Fr(t, L), e)' <=> Claims(g, e)
                   /\ Held(t, L, e)' <=> Holds(g, e)
                   /\ Held(t, L, e) <=> Holds(f, e)
         /\ Pends(Fr(t, L))' <=> Pends(g)
         /\ Proper(Fr(t, L))' <=> Proper(g)
    BY <1>4, <1>9, FrPrimes DEF Held
  <1> HIDE DEF f
  <1>17. /\ \A e \in Entities : ~Holds(f, e)
         /\ Claims(f, f.of) /\ f.at \in Leaving
    BY <1>1, <1>15, EntityAssumption
       DEF Holds, Claims, Proper, Leaving, Alone, Creating, Waiting, WithTopic
  <1>18. /\ \A e \in Entities : Holds(g, e) <=> e = p
         /\ \A e \in Entities : Claims(g, e) <=> e = f.of \/ e = p
         /\ ~Pends(g) /\ g.at \notin Creating \union Alone
    BY <1>6, EntityAssumption
       DEF Holds, Claims, Pends, Leaving, Alone, Creating, Waiting, WithTopic
  <1>19. Proper(g) BY <1>1, <1>5, <1>6, <1>15, EntityAssumption DEF Proper, Creating, f
  <1>20. \A e \in Entities :
             \/ (Held(t, L, e)' <=> Held(t, L, e)) /\ link'[e].pin = link[e].pin
             \/ /\ Held(t, L, e)' /\ ~Held(t, L, e)
                /\ link'[e].pin = link[e].pin + 1 /\ e \in known /\ ~link[e].closing
    BY <1>1, <1>5, <1>11, <1>16, <1>17, <1>18
  <1>21. link[f.of].closing BY <1>1, <1>2, <1>4, <1>5, <1>17 DEF ClosingInv
  <1>22. ASSUME NEW u \in Threads, NEW d \in Nat, Is(u, d), Claims(Fr(u, d), p)
         PROVE  FALSE
    BY <1>1, <1>2, <1>5, <1>22, EntityAssumption DEF ClosingInv, MutexInv
  <1>23. \A e \in Entities : Is(t, L)' /\ Claims(Fr(t, L), e)' =>
             link'[e].closing \/ (Fr(t, L)'.at = "close" /\ Fr(t, L)'.up = e)
    BY <1>5, <1>6, <1>9, <1>11, <1>16, <1>18, <1>21
  <1>24. \A e \in Entities :
            Is(t, L)' /\ Claims(Fr(t, L), e)'
            => \/ Is(t, L) /\ Claims(Fr(t, L), e)
               \/ \A u \in Threads, d \in Nat :
                     ~(<<u, d>> # <<t, L>> /\ Is(u, d) /\ Claims(Fr(u, d), e))
    BY <1>4, <1>16, <1>17, <1>18, <1>22
  <1>25. \A e \in Entities : /\ link[e].closing => link'[e].closing
                             /\ deletes[e] = 0 => deletes'[e] = 0
    BY <1>11 DEF app
  <1>26. /\ ~(Pends(Fr(t, L))') /\ Proper(Fr(t, L))'
         /\ Is(t, L) /\ Fr(t, L).at \in Leaving /\ Fr(t, L)'.of = Fr(t, L).of
         /\ Fr(t, L)'.why = Fr(t, L).why
         /\ Fr(t, L)'.at \notin Creating \union Alone
         /\ mutex'[Fr(t, L)'.up] = t
    BY <1>4, <1>6, <1>9, <1>12, <1>16, <1>17, <1>18, <1>19
  <1>27. known' = known /\ freed' = freed /\ unborn' = unborn BY DEF app
  <1>28. /\ Is(t, L)' => Proper(Fr(t, L))'
         /\ Is(t, L)' /\ Pends(Fr(t, L))' =>
                Is(t, L) /\ Pends(Fr(t, L)) /\ Fr(t, L)'.of = Fr(t, L).of
         /\ Is(t, L)' /\ Fr(t, L)'.at \in Leaving =>
                Is(t, L) /\ Fr(t, L).at \in Leaving /\ Fr(t, L)'.of = Fr(t, L).of
         /\ Is(t, L)' /\ Fr(t, L)'.at \in Alone => link'[Fr(t, L)'.of].pin = 1
    BY <1>26
  <1>29. /\ Is(t, L)' => /\ Fr(t, L)'.at = "close" => mutex'[Fr(t, L)'.up] = t
                         /\ Fr(t, L)'.at \in Creating \ {"creating"} =>
                               mutex'[Parent[Fr(t, L)'.of]] = t
         /\ Is(t, L)' /\ Fr(t, L)'.why \in {"user", "parent", "ref"} =>
                Is(t, L) /\ Fr(t, L).why = Fr(t, L)'.why /\ Fr(t, L)'.of = Fr(t, L).of
    BY <1>26
  <1>30. \A e \in Entities :
             \/ (Held(t, L, e)' <=> Held(t, L, e)) /\ link'[e].pin = link[e].pin
             \/ /\ Held(t, L, e)' /\ ~Held(t, L, e)
                /\ link'[e].pin = link[e].pin + 1 /\ e \in known /\ ~link[e].closing
             \/ /\ ~(Held(t, L, e)') /\ Held(t, L, e)
                /\ link'[e].pin = link[e].pin - 1
    BY <1>20
  <1>31. \A e \in Entities : \/ mutex'[e] = mutex[e]
                              \/ mutex[e] = None
                              \/ (mutex[e] = t /\ Len(stack[t]) = L)
    BY <1>12
  <1>32. \A e \in Entities :
             /\ e \in implicit => Undisturbed
             /\ Is(t, L)' /\ Claims(Fr(t, L), e)'
             => \/ Is(t, L) /\ Claims(Fr(t, L), e)
                \/ \A u \in Threads, d \in Nat :
                      ~(<<u, d>> # <<t, L>> /\ Is(u, d) /\ Claims(Fr(u, d), e))
    BY <1>24
  <1> QED
    BY <1>9, <1>10, <1>14, <1>23, <1>25, <1>27, <1>28, <1>29, <1>30, <1>31, <1>32, Pinning

\* The child has left its parent, or has closed it.
LEMMA LeftKeeps ==
    ASSUME IInv, implicit' = implicit, NEW t \in Threads, stack[t] # <<>>, NEW p,
           Cur(t).at \in {"unlink", "close"},
           stack' = Woken(Step(t, "derive"), p),
           link' \in [Entities -> LinkType],
           \A e \in Entities : /\ link'[e].pin = link[e].pin
                               /\ link[e].closing => link'[e].closing
                               /\ Cur(t).at = "close" /\ e = Cur(t).up => link'[e].closing,
           children' \in [Entities -> SUBSET Entities],
           \A e \in Entities : children'[e] \subseteq children[e],
           mutex' \in [Entities -> Threads \union {None}],
           \A e \in Entities : mutex'[e] = mutex[e] \/ mutex[e] = t,
           UNCHANGED <<known, freed, ret, app>>
    PROVE  IInv'
  <1> DEFINE f == Cur(t)
  <1>1. "derive" \in Places BY DEF Places, Leaving
  <1>2. TypeOK /\ ChildInv /\ ClosingInv BY DEF IInv, Inv1, Inv3
  <1>3. PICK L \in Nat : L = Len(stack[t]) BY DEF IInv, Inv1, TypeOK
  <1>4. Step(t, "derive") \in [Threads -> Seq(Frames)] BY <1>1, UnstirredStep
  <1>5. Stirred(Step(t, "derive"), stack') BY <1>4, WokenStirs
  <1> DEFINE g == Fr(t, L)'
  <1>6. /\ StepAt(t, L) /\ stack' \in [Threads -> Seq(Frames)] /\ StackInv'
        /\ Is(t, L) /\ Fr(t, L) = f /\ Is(t, L)' /\ g.at = "derive" /\ g.of = f.of
        /\ g.why = f.why /\ g.up = f.up /\ Proper(f) /\ f \in Frames
    BY <1>1, <1>3, <1>5, MoveStep
  <1>7. TypeOK' /\ ChildInv' BY <1>2, <1>6 DEF TypeOK, ChildInv, app
  <1>8. /\ \A e : /\ Claims(Fr(t, L), e)' <=> Claims(g, e)
                  /\ Held(t, L, e)' <=> Holds(g, e)
                  /\ Held(t, L, e) <=> Holds(f, e)
        /\ Pends(Fr(t, L))' <=> Pends(g)
        /\ Proper(Fr(t, L))' <=> Proper(g)
    BY <1>6, FrPrimes DEF Held
  <1>9. f.at \in {"unlink", "close"} OBVIOUS
  <1> HIDE DEF f, g
  <1>10. /\ \A e \in Entities : (Holds(f, e) <=> Holds(g, e)) /\ (Claims(f, e) <=> Claims(g, e))
         /\ ~Pends(g) /\ g.at \notin Alone \union Creating /\ f.at \in Leaving
    BY <1>6, <1>9 DEF Holds, Claims, Pends, Leaving, Alone, Creating, Waiting, WithTopic
  <1>11. Proper(g) BY <1>6, <1>9 DEF Proper, Creating
  <1>12. \A e \in Entities :
             (Held(t, L, e)' <=> Held(t, L, e)) /\ link'[e].pin = link[e].pin
    BY <1>8, <1>10
  <1>13. \A e \in Entities : Claims(Fr(t, L), e)' => link'[e].closing
    <2> SUFFICES ASSUME NEW e \in Entities, Claims(f, e) PROVE link'[e].closing
      BY <1>8, <1>10
    <2>1. link[e].closing \/ (f.at = "close" /\ f.up = e) BY <1>2, <1>6 DEF ClosingInv
    <2> QED BY <2>1 DEF f
  <1>14. \A e \in Entities : Claims(Fr(t, L), e)' => Claims(Fr(t, L), e)
    BY <1>6, <1>8, <1>10
  <1>15. /\ ~(Pends(Fr(t, L))') /\ Proper(Fr(t, L))'
         /\ Is(t, L) /\ Fr(t, L).at \in Leaving /\ Fr(t, L)'.of = Fr(t, L).of
         /\ Fr(t, L)'.why = Fr(t, L).why
         /\ Fr(t, L)'.at \notin Creating \union Alone /\ Fr(t, L)'.at # "close"
    BY <1>6, <1>8, <1>10, <1>11 DEF g
  <1>16. known' = known /\ freed' = freed /\ unborn' = unborn
         /\ \A e \in Entities : deletes[e] = 0 => deletes'[e] = 0
    BY DEF app
  <1> QED BY <1>3, <1>6, <1>7, <1>12, <1>13, <1>14, <1>15, <1>16, Pinning

\* A child leaves its parent, with or without taking it along.
LEMMA UnlinkKeeps ==
    ASSUME IInv, implicit' = implicit, NEW t \in Threads, Unlink(t)
    PROVE  IInv'
  <1> DEFINE f == Cur(t)
             p == Parent[f.of]
  <1>1. /\ At(t, "unlink") /\ Free(p) /\ stack[t] # <<>> /\ f.at = "unlink"
        /\ children' = [children EXCEPT ![p] = @ \ {f.of}]
        /\ UNCHANGED <<known, freed, ret, app>>
    BY DEF Unlink, At, Cur
  <1>2. /\ link \in [Entities -> LinkType]
        /\ children \in [Entities -> SUBSET Entities]
        /\ mutex \in [Entities -> Threads \union {None}]
    BY DEF IInv, Inv1, TypeOK
  <1>3. CASE /\ TakesParent(f, p)
             /\ link' = [link EXCEPT ![p].refc = @ - 1, ![p].pin = @ + 1]
             /\ mutex' = [mutex EXCEPT ![p] = t]
             /\ stack' = Goto(t, [f EXCEPT !.at = "close", !.up = p])
    BY <1>1, <1>3, UnlinkTakes
  <1>4. CASE /\ ~TakesParent(f, p)
             /\ link' = [link EXCEPT ![p].refc = @ - 1]
             /\ stack' = Woken(Step(t, "derive"), p)
             /\ UNCHANGED mutex
    <2>1. /\ children' \in [Entities -> SUBSET Entities]
          /\ \A e \in Entities : children'[e] \subseteq children[e]
      <3>1. children' = [e \in Entities |-> IF e = p THEN children[e] \ {f.of} ELSE children[e]]
        BY <1>1, <1>2
      <3> HIDE DEF f, p
      <3> QED BY <3>1, <1>2
    <2>2. /\ link' \in [Entities -> LinkType]
          /\ \A e \in Entities : /\ link'[e].pin = link[e].pin
                                 /\ link'[e].closing = link[e].closing
      <3> HIDE DEF f, p
      <3> QED BY <1>2, <1>4, RefcStep
    <2> QED BY <1>1, <1>2, <1>4, <2>1, <2>2, LeftKeeps
  <1> QED BY <1>3, <1>4 DEF Unlink

\* The parent that is taken along is closed, and its mutex released.
LEMMA CloseParentKeeps ==
    ASSUME IInv, implicit' = implicit, NEW t \in Threads, CloseParent(t)
    PROVE  IInv'
  <1> DEFINE f == Cur(t)
             p == f.up
  <1>1. /\ stack[t] # <<>> /\ f.at = "close"
        /\ link' = [link EXCEPT ![p].closing = TRUE]
        /\ mutex' = [mutex EXCEPT ![p] = None]
        /\ stack' = Woken(Step(t, "derive"), p)
        /\ UNCHANGED <<known, children, freed, ret, app>>
    BY DEF CloseParent, At, Cur
  <1>2. /\ link \in [Entities -> LinkType]
        /\ children \in [Entities -> SUBSET Entities]
        /\ mutex \in [Entities -> Threads \union {None}]
    BY DEF IInv, Inv1, TypeOK
  <1>3. PICK L \in Nat : L = Len(stack[t]) BY DEF IInv, Inv1, TypeOK
  <1>4. Is(t, L) /\ Fr(t, L) = f BY <1>1, <1>3, Top DEF IInv, Inv1
  <1>5. mutex[p] = t BY <1>1, <1>4 DEF IInv, Inv3, MutexInv
  <1> HIDE DEF f, p
  <1>6. /\ mutex' \in [Entities -> Threads \union {None}]
        /\ \A e \in Entities : mutex'[e] = mutex[e] \/ mutex[e] = t
    BY <1>1, <1>2, <1>5
  <1>7. /\ link' \in [Entities -> LinkType]
        /\ \A e \in Entities : /\ link'[e].pin = link[e].pin
                               /\ link[e].closing => link'[e].closing
                               /\ e = p => link'[e].closing
    <2> DEFINE r(e) == [link[e] EXCEPT !.closing = TRUE]
    <2>1. link' = [e \in Entities |-> IF e = p THEN r(e) ELSE link[e]] BY <1>1, <1>2
    <2>2. \A e \in Entities : link[e] \in LinkType BY <1>2
    <2>3. \A e \in Entities : r(e) \in LinkType /\ r(e).pin = link[e].pin /\ r(e).closing
      BY <2>2, 0 \in Int, Counts
    <2> HIDE DEF r
    <2>4. \A e \in Entities : (IF e = p THEN r(e) ELSE link[e]) \in LinkType BY <2>2, <2>3
    <2>5. link' \in [Entities -> LinkType] BY <2>1, <2>4
    <2>6. \A e \in Entities : link'[e] = IF e = p THEN r(e) ELSE link[e] BY <2>1
    <2>7. ASSUME NEW e \in Entities
          PROVE  /\ link'[e].pin = link[e].pin
                 /\ link[e].closing => link'[e].closing
                 /\ e = p => link'[e].closing
      <3>1. CASE e = p BY <3>1, <2>3, <2>6
      <3>2. CASE e # p BY <3>2, <2>6
      <3> QED BY <3>1, <3>2
    <2> QED BY <2>5, <2>7
  <1>8. \A e \in Entities : children'[e] \subseteq children[e] BY <1>1
  <1>9. /\ Cur(t).at = "close" /\ stack[t] # <<>>
        /\ \A e \in Entities : e = Cur(t).up => link'[e].closing
        /\ children' \in [Entities -> SUBSET Entities]
        /\ stack' = Woken(Step(t, "derive"), p)
        /\ UNCHANGED <<known, freed, ret, app>>
    BY <1>1, <1>2, <1>7 DEF f, p
  <1> QED BY <1>6, <1>7, <1>8, <1>9, LeftKeeps

\* A step at which no activation claims an entity, gets past close_wait or takes
\* a mutex.
LEMMA Lasting ==
    ASSUME NEW t \in Threads, NEW k \in Nat, StepAt(t, k),
           \A e \in Entities :
               /\ link[e].closing => link'[e].closing
               /\ link'[e].pin = link[e].pin \/ ~link[e].closing \/ Held(t, k, e),
           mutex' = mutex, deletes' = deletes,
           Is(t, k)' => /\ Fr(t, k)'.at \notin Alone \union {"close"}
                        /\ Fr(t, k)'.at \in Creating \ {"creating"} =>
                              mutex[Parent[Fr(t, k)'.of]] = t,
           Is(t, k)' /\ Fr(t, k)'.why \in {"user", "parent", "ref"} =>
               Is(t, k) /\ Fr(t, k).why = Fr(t, k)'.why /\ Fr(t, k)'.of = Fr(t, k).of,
           \A e \in Entities : Is(t, k)' /\ Claims(Fr(t, k), e)' =>
               Is(t, k) /\ Claims(Fr(t, k), e) /\ link[e].closing
    PROVE  Inv3'
  <1>1. ClosingInv' BY KeepClosing
  <1>2. AloneInv' BY KeepAlone
  <1>3. MutexInv' BY KeepMutex
  <1>4. QuietInv'
    <2>1. ASSUME Undisturbed, Is(t, k)', Fr(t, k)'.why \in {"user", "parent", "ref"}
          PROVE  Untouched(Fr(t, k)'.of)
      BY <2>1 DEF StepAt, IInv, Inv3, QuietInv
    <2> QED BY <2>1, KeepQuiet
  <1>5. OneInv' BY KeepOne
  <1> QED BY <1>1, <1>2, <1>3, <1>4, <1>5 DEF Inv3

\* The creation of a writer pins the publisher; the writer is pending from now on.
LEMMA StartCreateKeeps ==
    ASSUME IInv, implicit' = implicit, NEW t \in Threads, NEW w \in unborn,
           StartCreate(t, w)
    PROVE  IInv'
  <1> DEFINE g == Frame(w, "other", "creating")
             p == Parent[w]
  <1>1. /\ stack[t] = <<>> /\ p \in known /\ ~link[p].closing
        /\ unborn' = unborn \ {w}
        /\ link' = Pinned(p)
        /\ stack' = Push(t, g)
        /\ UNCHANGED <<known, children, mutex, freed, ret, deletes, uses>>
    BY DEF StartCreate, Open
  <1>2. TypeOK /\ StackInv /\ ChildInv /\ PendingInv /\ GoneInv BY DEF IInv, Inv1, Inv2
  <1>3. w \in Entities /\ p \in Entities BY <1>1, <1>2 DEF TypeOK
  <1>4. g \in Frames /\ g.of = w /\ g.why = "other" /\ g.at = "creating" /\ g.up = None
    BY <1>3 DEF Frame, Frames, Places, Reasons, Creating
  <1> HIDE DEF g
  <1>5. /\ stack' \in [Threads -> Seq(Frames)] /\ StackInv'
        /\ Elsewhere(t, 1) /\ ~Is(t, 1) /\ Is(t, 1)' /\ Fr(t, 1)' = g
    BY <1>1, <1>2, <1>4, StartStep
  <1>6. StepAt(t, 1) BY <1>1, <1>5 DEF StepAt
  <1>7. /\ link' \in [Entities -> LinkType]
        /\ \A e \in Entities :
                 /\ link'[e].closing = link[e].closing
                 /\ link'[e].pin = IF e = p THEN link[e].pin + 1 ELSE link[e].pin
    BY <1>1, <1>2, PinStep DEF TypeOK
  <1>8. Inv1'
    <2>1. TypeOK' BY <1>1, <1>2, <1>5, <1>7 DEF TypeOK
    <2>2. Proper(Fr(t, 1)') BY <1>3, <1>4, <1>5 DEF Proper, Creating
    <2>3. FrameInv' BY <1>6, <2>2, FrPrimes, KeepFrame
    <2>4. ChildInv' BY <1>1, <1>2 DEF ChildInv
    <2> QED BY <1>5, <2>1, <2>3, <2>4 DEF Inv1
  <1>9. /\ \A e : /\ Claims(Fr(t, 1), e)' <=> Claims(g, e)
                  /\ Held(t, 1, e)' <=> Holds(g, e)
                  /\ ~Held(t, 1, e)
        /\ Pends(Fr(t, 1))' <=> Pends(g)
    BY <1>5, FrPrimes DEF Held
  <1>10. /\ \A e \in Entities : Holds(g, e) <=> e = p
         /\ \A e \in Entities : ~Claims(g, e)
         /\ g.at \notin Leaving \union Alone \union {"close"}
    BY <1>4, EntityAssumption
       DEF Holds, Claims, Leaving, Alone, Creating, Waiting, WithTopic
  <1>11. PendingInv' BY <1>1, <1>2, <1>4, <1>5, <1>6, KeepPending DEF PendingInv
  <1>12. \A e : Pending(e)' => Pending(e) BY <1>1, <1>4, <1>5, <1>6, KeepPendings
  <1>13. PinInv'
    <2> SUFFICES ASSUME NEW e \in Entities
                 PROVE  /\ IsFiniteSet(Pins(e)')
                        /\ Pins(e)' # {} => e \in known'
                        /\ e \in known' \/ Pending(e)' => link'[e].pin = Cardinality(Pins(e)')
      BY DEF PinInv
    <2>1. \/ (Held(t, 1, e)' <=> Held(t, 1, e)) /\ link'[e].pin = link[e].pin
          \/ /\ Held(t, 1, e)' /\ ~Held(t, 1, e)
             /\ link'[e].pin = link[e].pin + 1 /\ e \in known'
      BY <1>1, <1>7, <1>9, <1>10
    <2> QED BY <1>1, <1>6, <1>12, <2>1, KeepPin
  <1>14. GoneInv'
    <2>1. known' \intersect freed' = {} BY <1>1, <1>2 DEF GoneInv
    <2>2. \A u \in Threads, d \in Nat :
              /\ <<u, d>> # <<t, 1>> /\ Is(u, d) /\ Fr(u, d).at \in Leaving
              => Fr(u, d).of \notin known' \union unborn' \union freed' /\ Fr(u, d).of # w
      BY <1>1, <1>2 DEF GoneInv
    <2>3. Fr(t, 1)'.of = w /\ Fr(t, 1)'.at \notin Leaving BY <1>4, <1>5, <1>10
    <2> QED BY <1>6, <2>1, <2>2, <2>3, KeepGone
  <1>15. OpenInv' BY <1>1, <1>7, KeepOpen
  <1>16. Inv3' BY <1>1, <1>7, <1>4, <1>5, <1>9, <1>10, <1>6, Lasting
  <1> QED BY <1>8, <1>11, <1>13, <1>14, <1>15, <1>16 DEF IInv, Inv2

\* The new writer can be found from here on; nobody else was creating it.
LEMMA CreateRegistersKeeps ==
    ASSUME IInv, implicit' = implicit, NEW t \in Threads, CreateRegisters(t)
    PROVE  IInv'
  <1> DEFINE f == Cur(t)
             w == f.of
             p == Parent[w]
  <1>1. /\ stack[t] # <<>> /\ f.at = "referred"
        /\ known' = known \union {w}
        /\ children' = [children EXCEPT ![p] = @ \union {w}]
        /\ link' = [link EXCEPT ![p].refc = @ + 1]
        /\ stack' = Step(t, "registered")
        /\ UNCHANGED <<mutex, freed, ret, app>>
    BY DEF CreateRegisters, At, Cur
  <1>2. TypeOK /\ ChildInv /\ PendingInv /\ GoneInv BY DEF IInv, Inv1, Inv2
  <1>3. /\ w \in Entities /\ f.up = None /\ p \in Entities /\ mutex[p] = t
        /\ f.why = "other"
    BY <1>1, Creator DEF Creating
  <1>4. PICK L \in Nat : L = Len(stack[t]) BY DEF IInv, Inv1, TypeOK
  <1>5. "registered" \in Places BY DEF Places, Creating
  <1>6. Stirred(Step(t, "registered"), stack') BY <1>1, <1>5, UnstirredStep
  <1> DEFINE g == Fr(t, L)'
  <1>7. /\ StepAt(t, L) /\ stack' \in [Threads -> Seq(Frames)] /\ StackInv'
        /\ Is(t, L) /\ Fr(t, L) = f /\ Is(t, L)' /\ g.at = "registered" /\ g.of = w
        /\ g.why = f.why /\ g.up = f.up
    BY <1>1, <1>4, <1>5, <1>6, MoveStep
  <1>8. /\ link' \in [Entities -> LinkType]
        /\ \A e \in Entities : /\ link'[e].pin = link[e].pin
                               /\ link'[e].closing = link[e].closing
    <2>1. link \in [Entities -> LinkType] BY <1>2 DEF TypeOK
    <2> HIDE DEF f, w, p
    <2> QED BY <2>1, <1>1, RefcStep
  <1>9. /\ \A e : /\ Claims(Fr(t, L), e)' <=> Claims(g, e)
                  /\ Held(t, L, e)' <=> Holds(g, e)
                  /\ Held(t, L, e) <=> Holds(f, e)
        /\ Pends(Fr(t, L))' <=> Pends(g)
        /\ Proper(Fr(t, L))' <=> Proper(g)
    BY <1>7, FrPrimes DEF Held
  <1>10. /\ children' \in [Entities -> SUBSET Entities]
         /\ \A e \in Entities : \A c \in children'[e] : c \in children[e] \/ (c = w /\ e = p)
    <2>1. children \in [Entities -> SUBSET Entities] BY <1>2 DEF TypeOK
    <2>2. children' = [e \in Entities |-> IF e = p THEN children[e] \union {w} ELSE children[e]]
      BY <1>1, <2>1
    <2> HIDE DEF f, w, p
    <2> QED BY <2>1, <2>2, <1>3
  <1>11. ChildInv' BY <1>2, <1>10 DEF ChildInv
  <1>12. TypeOK' BY <1>1, <1>2, <1>3, <1>7, <1>8, <1>10 DEF TypeOK, app
  <1>13. Pends(Fr(t, L)) /\ Fr(t, L).of = w BY <1>1, <1>7 DEF Pends
  <1>14. \A u \in Threads, d \in Nat :
             /\ <<u, d>> # <<t, L>> /\ Is(u, d) /\ Pends(Fr(u, d))
             => Fr(u, d).of \notin known \union {w} \union unborn \union freed
    BY <1>2, <1>7, <1>13 DEF PendingInv
  <1>15. w \notin known \union unborn \union implicit \union freed
    BY <1>2, <1>7, <1>13 DEF PendingInv
  <1> HIDE DEF f, w, g
  <1>16. /\ \A e \in Entities : Holds(f, e) <=> Holds(g, e)
         /\ \A e \in Entities : ~Claims(g, e)
         /\ ~Pends(g) /\ Proper(g) /\ g.at \notin Leaving \union Alone \union {"close"}
    BY <1>1, <1>3, <1>7, EntityAssumption
       DEF Holds, Claims, Pends, Proper, Leaving, Alone, Creating, Waiting, WithTopic, w
  <1>17. Inv1' BY <1>7, <1>9, <1>11, <1>12, <1>16, KeepFrame DEF Inv1
  <1>18. PendingInv'
    BY <1>1, <1>2, <1>15, <1>7, <1>9, <1>14, <1>16, KeepPending DEF PendingInv, app
  <1>19. PinInv'
    <2> SUFFICES ASSUME NEW e \in Entities
                 PROVE  /\ IsFiniteSet(Pins(e)')
                        /\ Pins(e)' # {} => e \in known'
                        /\ e \in known' \/ Pending(e)' => link'[e].pin = Cardinality(Pins(e)')
      BY DEF PinInv
    <2>1. (Held(t, L, e)' <=> Held(t, L, e)) /\ link'[e].pin = link[e].pin
      BY <1>8, <1>9, <1>16
    <2>2. Pending(e)' => Pending(e) BY <1>1, <1>7, <1>9, <1>16, KeepPendings DEF app
    <2>3. e = w => Pending(e) BY <1>7, <1>13 DEF Pending
    <2> QED BY <1>1, <1>7, <2>1, <2>2, <2>3, KeepPin
  <1>20. GoneInv'
    BY <1>1, <1>2, <1>15, <1>7, <1>13, <1>9, <1>16, KeepGone DEF GoneInv, app, g
  <1>21. OpenInv' BY <1>1, <1>8, KeepOpen
  <1>22. Inv3'
    <2>1. \A e \in Entities : (link[e].closing => link'[e].closing) /\ link'[e].pin = link[e].pin
      BY <1>8
    <2>2. Fr(t, L)'.why = "other" /\ mutex[Parent[Fr(t, L)'.of]] = t BY <1>3, <1>7 DEF g
    <2>3. \A e \in Entities : ~(Claims(Fr(t, L), e)') BY <1>9, <1>16
    <2>4. Fr(t, L)'.at \notin Alone \union {"close"} /\ mutex' = mutex /\ deletes' = deletes
      BY <1>1, <1>16 DEF g, app
    <2> QED BY <1>7, <2>1, <2>2, <2>3, <2>4, Lasting
  <1> QED BY <1>17, <1>18, <1>19, <1>20, <1>21, <1>22 DEF IInv, Inv2

\* The deleting activation was the only one that had the entity pinned, and it
\* cannot be found any more.
LEMMA DeleteHandleKeeps ==
    ASSUME IInv, implicit' = implicit, NEW t \in Threads, DeleteHandle(t)
    PROVE  IInv'
  <1> DEFINE f == Cur(t)
             x == f.of
             q == IF Parent[x] = None THEN "derive" ELSE "unlink"
  <1>1. /\ stack[t] # <<>> /\ f.at = "handle"
        /\ known' = known \ {x} /\ stack' = Step(t, q)
        /\ UNCHANGED <<link, children, mutex, freed, ret, app>>
    BY DEF DeleteHandle, At, Cur
  <1>2. TypeOK /\ ChildInv /\ PendingInv /\ GoneInv /\ PinInv BY DEF IInv, Inv1, Inv2
  <1>3. PICK L \in Nat : L = Len(stack[t]) BY DEF IInv, Inv1, TypeOK
  <1>4. q \in Places /\ q \in {"derive", "unlink"} BY DEF Places, Leaving
  <1> HIDE DEF q
  <1>5. Stirred(Step(t, q), stack') BY <1>1, <1>4, UnstirredStep
  <1> DEFINE g == Fr(t, L)'
  <1>6. /\ StepAt(t, L) /\ stack' \in [Threads -> Seq(Frames)] /\ StackInv'
        /\ Is(t, L) /\ Fr(t, L) = f /\ Is(t, L)' /\ g.at = q /\ g.of = x
        /\ g.why = f.why /\ g.up = f.up /\ Proper(f)
    BY <1>1, <1>3, <1>4, <1>5, MoveStep
  <1>7. /\ \A e : /\ Claims(Fr(t, L), e)' <=> Claims(g, e)
                  /\ Held(t, L, e)' <=> Holds(g, e)
                  /\ Held(t, L, e) <=> Holds(f, e)
        /\ Pends(Fr(t, L))' <=> Pends(g)
        /\ Proper(Fr(t, L))' <=> Proper(g)
    BY <1>6, FrPrimes DEF Held
  <1>8. TypeOK' /\ ChildInv' BY <1>1, <1>2, <1>6 DEF TypeOK, ChildInv, app
  <1>9. /\ x \in Entities /\ x \in known /\ link[x].closing
        /\ \A v \in Threads, c \in Nat : Held(v, c, x) => v = t /\ c = L
    BY <1>1, <1>6, Exclusive DEF Alone
  <1> HIDE DEF f, x, g
  <1>10. f.up = None BY <1>1, <1>6 DEF Proper
  <1>11. /\ \A e \in Entities : Holds(f, e) <=> e = x
         /\ \A e \in Entities : Claims(f, e) <=> e = x
         /\ \A e \in Entities : Claims(g, e) <=> e = x
         /\ \A e \in Entities : ~Holds(g, e)
         /\ ~Pends(g) /\ g.at \notin Alone \union {"close"} \union Creating /\ g.at \in Leaving
    BY <1>1, <1>4, <1>6, <1>10, EntityAssumption
       DEF Holds, Claims, Pends, Leaving, Alone, Creating, Waiting, WithTopic, x
  <1>12. Proper(g) BY <1>1, <1>4, <1>6, <1>10 DEF Proper, Creating, x
  <1>13. Inv1' BY <1>6, <1>7, <1>8, <1>12, KeepFrame DEF Inv1
  <1>14. unborn' = unborn /\ freed' = freed /\ link' = link /\ mutex' = mutex
         /\ deletes' = deletes
    BY <1>1 DEF app
  <1>15. PendingInv' BY <1>1, <1>2, <1>14, <1>6, <1>7, <1>11, KeepPending DEF PendingInv
  <1>16. \A e : Pending(e)' => Pending(e) BY <1>6, <1>7, <1>11, <1>14, KeepPendings
  <1>17. PinInv'
    <2> SUFFICES ASSUME NEW e \in Entities
                 PROVE  /\ IsFiniteSet(Pins(e)')
                        /\ Pins(e)' # {} => e \in known'
                        /\ e \in known' \/ Pending(e)' => link'[e].pin = Cardinality(Pins(e)')
      BY DEF PinInv
    <2>1. CASE e # x BY <2>1, <1>7, <1>11, <1>14, <1>1, <1>6, <1>16, KeepPin
    <2>2. CASE e = x
      <3>1. ~(Held(t, L, e)') /\ Held(t, L, e) BY <2>2, <1>7, <1>9, <1>11
      <3>2. Pins(e)' = Pins(e) \ {<<t, L>>} BY <1>6, <3>1, PinsChange
      <3>3. Pins(e) \subseteq {<<t, L>>}
        <4> SUFFICES ASSUME NEW h \in Pins(e) PROVE h = <<t, L>>
          OBVIOUS
        <4>1. h \in Threads \X Nat /\ Held(h[1], h[2], e) BY DEF Pins
        <4> QED BY <4>1, <2>2, <1>9
      <3>4. Pins(e)' = {} BY <3>2, <3>3
      <3>5. e \notin known' /\ ~(Pending(e)')
        BY <2>2, <1>1, <1>2, <1>9, <1>16 DEF PendingInv, Pending
      <3> QED BY <3>4, <3>5, FS_EmptySet
    <2> QED BY <2>1, <2>2
  <1>18. GoneInv'
    BY <1>1, <1>2, <1>14, <1>9, <1>6, <1>7, <1>11, KeepGone DEF GoneInv, PendingInv, g
  <1>19. OpenInv' BY <1>1, <1>9, <1>14, KeepOpen
  <1>20. Inv3' BY <1>6, <1>11, <1>7, <1>9, <1>14, Lasting DEF g, x
  <1> QED BY <1>13, <1>15, <1>17, <1>18, <1>19, <1>20 DEF IInv, Inv2

\* The memory goes with the one activation that the entity belongs to, which
\* ends or turns to the parent it has claimed.
LEMMA FreeEntityKeeps ==
    ASSUME IInv, implicit' = implicit, NEW t \in Threads, FreeEntity(t)
    PROVE  IInv'
  <1> DEFINE f == Cur(t)
             x == f.of
             h == Frame(f.up, "implicit", "lock")
  <1>1. /\ stack[t] # <<>> /\ f.at = "derived"
        /\ freed' = freed \union {x}
        /\ stack' = IF f.up = None THEN Pop(t) ELSE Goto(t, h)
        /\ ret' = [ret EXCEPT ![t] = "ok"]
        /\ UNCHANGED <<link, known, children, mutex, app>>
    BY DEF FreeEntity, At, Cur
  <1>2. TypeOK /\ StackInv /\ ChildInv /\ FrameInv /\ PendingInv /\ GoneInv /\ PinInv
        /\ ClosingInv
    BY DEF IInv, Inv1, Inv2, Inv3
  <1>3. PICK L \in Nat : L = Len(stack[t]) BY DEF IInv, Inv1, TypeOK
  <1>4. /\ Is(t, L) /\ Fr(t, L) = f /\ f \in Frames
        /\ stack[t] \in Seq(Frames) /\ stack \in [Threads -> Seq(Frames)]
    BY <1>1, <1>2, <1>3, Top
  <1>5. Proper(f) BY <1>2, <1>4 DEF FrameInv
  <1>6. x \in Entities /\ f.why # "other" /\ f.at \in Leaving
    BY <1>1, <1>4, <1>5 DEF Frames, Proper, Creating, Leaving
  <1>7. f.up # None => /\ f.up \in Entities /\ f.up \in implicit
                       /\ h \in Frames /\ h.of = f.up /\ h.why = "implicit"
                       /\ h.at = "lock" /\ h.up = None
    BY <1>4, <1>5 DEF Proper, Frame, Frames, Places, Reasons, Waiting
  <1> HIDE DEF f, x, h
  <1>8. /\ StepAt(t, L) /\ stack' \in [Threads -> Seq(Frames)] /\ StackInv'
        /\ IF f.up = None THEN ~(Is(t, L)') ELSE Is(t, L)' /\ Fr(t, L)' = h
    <2>1. CASE f.up = None
      <3>1. Pop(t) \in [Threads -> Seq(Frames)] BY <1>1, <1>4, Popped DEF Pop
      <3>2. Stirred(Pop(t), stack') BY <1>1, <2>1, <3>1, Unstirred
      <3> QED BY <1>1, <1>2, <1>3, <2>1, <3>2, PopStep DEF StepAt
    <2>2. CASE f.up # None
      <3>1. Goto(t, h) \in [Threads -> Seq(Frames)]
        BY <1>1, <1>4, <1>7, <2>2, Stacked DEF Goto
      <3>2. Stirred(Goto(t, h), stack') /\ stack' = Goto(t, h)
        BY <1>1, <2>2, <3>1, Unstirred
      <3>3. h.why = "other" <=> Cur(t).why = "other" BY <1>6, <1>7, <2>2 DEF f
      <3> QED BY <1>1, <1>2, <1>3, <1>7, <2>2, <3>2, <3>3, GotoStep DEF StepAt
    <2> QED BY <2>1, <2>2
  <1>9. TypeOK' BY <1>1, <1>2, <1>6, <1>8 DEF TypeOK, app
  <1>10. ChildInv' BY <1>1, <1>2 DEF ChildInv
  <1>11. /\ \A e : /\ Claims(Fr(t, L), e)' <=> Claims(Fr(t, L)', e)
                   /\ Held(t, L, e)' <=> Is(t, L)' /\ Holds(Fr(t, L)', e)
                   /\ Held(t, L, e) <=> Holds(f, e)
         /\ Pends(Fr(t, L))' <=> Pends(Fr(t, L)')
         /\ Proper(Fr(t, L))' <=> Proper(Fr(t, L)')
    BY <1>4, <1>8, FrPrimes DEF Held
  <1>12. \A e \in Entities : /\ Holds(f, e) <=> e = f.up
                             /\ Claims(f, e) <=> e = x \/ e = f.up
    BY <1>1 DEF Holds, Claims, Leaving, Alone, Creating, Waiting, WithTopic, x
  <1>13. f.up # None =>
            /\ \A e \in Entities : Holds(h, e) <=> e = f.up
            /\ \A e \in Entities : Claims(h, e) <=> e = f.up
            /\ Proper(h) /\ ~Pends(h)
            /\ h.at \notin Alone \union {"close"} \union Creating \union Leaving
    BY <1>7, EntityAssumption
       DEF Holds, Claims, Pends, Proper, Leaving, Alone, Creating, Waiting, WithTopic
  <1>14. Is(t, L)' => /\ f.up # None /\ Fr(t, L)' = h
                      /\ Proper(Fr(t, L))' /\ ~(Pends(Fr(t, L))')
    BY <1>8, <1>11, <1>13
  <1>15. Inv1' BY <1>8, <1>9, <1>10, <1>14, KeepFrame DEF Inv1
  <1>16. unborn' = unborn /\ known' = known /\ link' = link /\ mutex' = mutex
         /\ deletes' = deletes
    BY <1>1 DEF app
  <1>17. /\ x \notin known \union unborn \union freed
         /\ \A u \in Threads, d \in Nat : Is(u, d) /\ Fr(u, d).of = x
               => /\ ~Pends(Fr(u, d))
                  /\ Fr(u, d).at \in Leaving => u = t /\ d = L
    BY <1>2, <1>4, <1>6 DEF GoneInv, x
  <1>18. PendingInv'
    <2>1. unborn' \subseteq unborn /\ unborn' \intersect (known' \union freed') = {}
      BY <1>1, <1>2, <1>16, <1>17 DEF PendingInv
    <2>2. \A u \in Threads, d \in Nat : Is(u, d) /\ Pends(Fr(u, d))
              => Fr(u, d).of \notin known' \union freed'
      BY <1>1, <1>2, <1>16, <1>17 DEF PendingInv
    <2> QED BY <1>8, <1>14, <2>1, <2>2, KeepPending
  <1>19. \A e : Pending(e)' => Pending(e) BY <1>8, <1>14, <1>16, KeepPendings
  <1>20. PinInv'
    <2> SUFFICES ASSUME NEW e \in Entities
                 PROVE  /\ IsFiniteSet(Pins(e)')
                        /\ Pins(e)' # {} => e \in known'
                        /\ e \in known' \/ Pending(e)' => link'[e].pin = Cardinality(Pins(e)')
      BY DEF PinInv
    <2>1. Held(t, L, e)' <=> Held(t, L, e) BY <1>8, <1>11, <1>12, <1>13, EntityAssumption
    <2> QED BY <1>8, <1>16, <1>19, <2>1, KeepPin
  <1>21. GoneInv' BY <1>1, <1>2, <1>16, <1>17, <1>8, <1>13, <1>14, KeepGone DEF GoneInv
  <1>22. OpenInv' BY <1>16, KeepOpen
  <1>23. Inv3'
    <2>1. \A e \in Entities : Is(t, L)' /\ Claims(Fr(t, L), e)' =>
              Is(t, L) /\ Claims(Fr(t, L), e) /\ link[e].closing
      <3> SUFFICES ASSUME NEW e \in Entities, Is(t, L)', Claims(Fr(t, L), e)'
                   PROVE  Is(t, L) /\ Claims(Fr(t, L), e) /\ link[e].closing
        OBVIOUS
      <3>1. e = f.up BY <1>11, <1>13, <1>14
      <3>2. Claims(f, e) BY <1>12, <3>1
      <3> QED BY <1>1, <1>2, <1>4, <3>2 DEF ClosingInv
    <2>2. Is(t, L)' => Fr(t, L)'.why = "implicit"
                       /\ Fr(t, L)'.at \notin Alone \union {"close"} \union Creating
      BY <1>7, <1>13, <1>14
    <2> QED BY <1>8, <1>16, <2>1, <2>2, Lasting
  <1> QED BY <1>15, <1>18, <1>20, <1>21, <1>22, <1>23 DEF IInv, Inv2

-----------------------------------------------------------------------------
(* The invariant holds                                                     *)

\* Nobody has anything pinned to begin with.
LEMMA InitIInv == Init => IInv
  <1> SUFFICES ASSUME Init PROVE IInv
    OBVIOUS
  <1>1. PICK s \in Scenes :
           /\ implicit = s.implicit
           /\ link = [e \in Entities |->
                        [closing |-> e \notin s.present \union s.unborn,
                         deferred |-> FALSE, pin |-> 0,
                         refc |-> Cardinality({c \in s.present : e \in {Parent[c], TopicOf[c]}})
                                  + IF e \in s.implicit THEN 0 ELSE 1]]
           /\ known = s.present
           /\ children = [e \in Entities |-> {c \in s.present : Parent[c] = e}]
           /\ mutex = [e \in Entities |-> None]
           /\ freed = Entities \ (s.present \union s.unborn)
           /\ stack = [t \in Threads |-> <<>>] /\ ret = [t \in Threads |-> "ok"]
           /\ unborn = s.unborn /\ deletes = s.deletes /\ uses = s.uses
    BY DEF Init
  <1>2. /\ s.present \subseteq Entities /\ IsFiniteSet(s.present)
        /\ s.implicit \subseteq s.present \ Topics
        /\ s.unborn \subseteq Entities \ (s.present \union Topics)
        /\ s.deletes \in [Entities -> Nat] /\ s.uses \in [Entities -> Nat]
    BY EntityAssumption
  <1>3. /\ stack \in [Threads -> Seq(Frames)]
        /\ \A t \in Threads, d \in Nat : ~Is(t, d)
    BY <1>1 DEF Is
  <1>4. /\ link \in [Entities -> LinkType]
        /\ \A e \in Entities : /\ link[e].pin = 0
                               /\ e \in s.present => ~link[e].closing
    <2> DEFINE n(e) == Cardinality({c \in s.present : e \in {Parent[c], TopicOf[c]}})
                       + IF e \in s.implicit THEN 0 ELSE 1
    <2>1. \A e \in Entities : n(e) \in Int
      <3> TAKE e \in Entities
      <3>1. {c \in s.present : e \in {Parent[c], TopicOf[c]}} \subseteq s.present OBVIOUS
      <3>2. Cardinality({c \in s.present : e \in {Parent[c], TopicOf[c]}}) \in Nat
        BY <3>1, <1>2, FS_Subset, FS_CardinalityType
      <3> QED BY <3>2
    <2> DEFINE b(e) == e \notin s.present \union s.unborn
    <2>2. link = [e \in Entities |->
                     [closing |-> b(e), deferred |-> FALSE, pin |-> 0, refc |-> n(e)]]
      BY <1>1
    <2>3. \A e \in Entities : b(e) \in BOOLEAN /\ (e \in s.present => ~b(e)) OBVIOUS
    <2> HIDE DEF n, b
    <2>4. \A e \in Entities :
             link[e] = [closing |-> b(e), deferred |-> FALSE, pin |-> 0, refc |-> n(e)]
      BY <2>2
    <2>5. \A e \in Entities : link[e] \in LinkType
      <3> SUFFICES ASSUME NEW e \in Entities PROVE link[e] \in LinkType
        OBVIOUS
      <3>1. b(e) \in BOOLEAN /\ n(e) \in Int /\ FALSE \in BOOLEAN /\ 0 \in Int
        BY <2>1, <2>3
      <3>2. [closing |-> b(e), deferred |-> FALSE, pin |-> 0, refc |-> n(e)] \in LinkType
        BY <3>1, Zenon DEF LinkType
      <3> QED BY <2>4, <3>2
    <2>6. link \in [Entities -> LinkType] BY <2>2, <2>5
    <2>7. ASSUME NEW e \in Entities
          PROVE  link[e].pin = 0 /\ (e \in s.present => ~link[e].closing)
      <3> DEFINE r == [closing |-> b(e), deferred |-> FALSE, pin |-> 0, refc |-> n(e)]
      <3>1. r.pin = 0 /\ r.closing = b(e) OBVIOUS
      <3>2. link[e] = r BY <2>4
      <3> HIDE DEF r
      <3> QED BY <2>3, <3>1, <3>2
    <2> QED BY <2>6, <2>7
  <1>5. TypeOK BY <1>1, <1>2, <1>3, <1>4 DEF TypeOK
  <1>6. Inv1 BY <1>1, <1>2, <1>3, <1>5 DEF Inv1, StackInv, FrameInv, ChildInv
  <1>7. PinInv
    <2>1. \A e \in Entities : Pins(e) = {}
      <3> SUFFICES ASSUME NEW e \in Entities, NEW h \in Pins(e) PROVE FALSE
        OBVIOUS
      <3>1. h \in Threads \X Nat /\ Held(h[1], h[2], e) BY DEF Pins
      <3> QED BY <3>1, <1>3 DEF Held
    <2> QED BY <2>1, <1>4, FS_EmptySet DEF PinInv
  <1>8. PendingInv /\ GoneInv BY <1>1, <1>2, <1>3 DEF PendingInv, GoneInv
  <1>9. OpenInv BY <1>1, <1>2 DEF OpenInv
  <1>10. QuietInv BY <1>1, <1>3 DEF QuietInv, Undisturbed
  <1>11. ClosingInv /\ AloneInv /\ MutexInv /\ OneInv
    BY <1>3 DEF ClosingInv, AloneInv, MutexInv, OneInv
  <1> QED BY <1>6, <1>7, <1>8, <1>9, <1>10, <1>11 DEF IInv, Inv2, Inv3

\* It lasts while nothing happens.
LEMMA StutterKeeps ==
    ASSUME IInv, implicit' = implicit, UNCHANGED vars
    PROVE  IInv'
  <1>1. /\ link' = link /\ known' = known /\ children' = children /\ mutex' = mutex
        /\ freed' = freed /\ stack' = stack /\ ret' = ret
        /\ unborn' = unborn /\ deletes' = deletes /\ uses' = uses
    BY DEF vars, app
  <1>2. Inv1' BY <1>1 DEF IInv, Inv1, TypeOK, StackInv, FrameInv, ChildInv, Proper, Is, Fr
  <1>3. \A e : Pins(e)' = Pins(e) BY <1>1 DEF Pins, Held, Is, Fr, Holds
  <1>4. Inv2'
    <2>1. PendingInv' /\ GoneInv' /\ OpenInv'
      BY <1>1 DEF IInv, Inv2, PendingInv, GoneInv, OpenInv, Is, Fr, Pends
    <2>2. \A e : Pending(e)' <=> Pending(e) BY <1>1 DEF Pending, Is, Fr, Pends
    <2>3. PinInv' BY <1>1, <1>3, <2>2 DEF IInv, Inv2, PinInv
    <2> QED BY <2>1, <2>3 DEF Inv2
  <1>5. Inv3'
    <2>1. ClosingInv' /\ AloneInv' /\ MutexInv'
      BY <1>1 DEF IInv, Inv3, ClosingInv, AloneInv, MutexInv, Is, Fr, Claims
    <2>2. QuietInv' /\ OneInv'
      BY <1>1 DEF IInv, Inv3, QuietInv, OneInv, Is, Fr, Claims, Untouched, Undisturbed
    <2> QED BY <2>1, <2>2 DEF Inv3
  <1> QED BY <1>2, <1>4, <1>5 DEF IInv

\* Every step keeps the invariant.
LEMMA NextKeeps ==
    ASSUME IInv, implicit' = implicit, Next
    PROVE  IInv'
  <1>1. PICK t \in Threads :
           \/ Operate(t) \/ Delete(t)
           \/ \E e \in Entities : StartDelete(t, e) \/ StartUse(t, e)
           \/ \E w \in unborn : StartCreate(t, w)
    BY DEF Next
  <1>2. CASE Operate(t)
    BY <1>2, EndUseKeeps, CreateLocksKeeps, CreatePinsTopicKeeps, RefersKeeps,
       CreateRegistersKeeps, CreateUnpinsTopicKeeps, CreateEndsKeeps DEF Operate
  <1>3. CASE Delete(t)
    <2>1. CASE DeleteRefused(t) \/ DeleteDeferred(t) BY <2>1, RefusedKeeps
    <2>2. CASE PinForDelete(t) BY <2>2, PinForDeleteKeeps
    <2>3. CASE LockAndInterrupt(t) \/ CloseWait(t) BY <2>3, LockKeeps, CloseWaitKeeps
    <2>4. CASE WaitForChild(t) \/ DeleteChild(t) \/ ChildrenDone(t)
      BY <2>4, WaitForChildKeeps, DeleteChildKeeps, ChildrenDoneKeeps
    <2>5. CASE DeleteHandle(t) \/ Unlink(t) \/ CloseParent(t)
      BY <2>5, DeleteHandleKeeps, UnlinkKeeps, CloseParentKeeps
    <2>6. CASE Derive(t) \/ FreeEntity(t) BY <2>6, DeriveKeeps, FreeEntityKeeps
    <2> QED BY <1>3, <2>1, <2>2, <2>3, <2>4, <2>5, <2>6 DEF Delete
  <1>4. CASE \E e \in Entities : StartDelete(t, e) \/ StartUse(t, e)
    BY <1>4, StartDeleteKeeps, StartUseKeeps
  <1>5. CASE \E w \in unborn : StartCreate(t, w) BY <1>5, StartCreateKeeps
  <1> QED BY <1>1, <1>2, <1>3, <1>4, <1>5

\* The inductive invariant holds in every state of every behaviour.
THEOREM Invariance == Spec => []IInv
  <1>1. IInv /\ [Next /\ UNCHANGED implicit]_<<implicit, vars>> => IInv'
    <2> SUFFICES ASSUME IInv, [Next /\ UNCHANGED implicit]_<<implicit, vars>>
                 PROVE  IInv'
      OBVIOUS
    <2>1. CASE Next /\ UNCHANGED implicit BY <2>1, NextKeeps
    <2>2. CASE UNCHANGED <<implicit, vars>> BY <2>2, StutterKeeps
    <2> QED BY <2>1, <2>2
  <1> QED BY InitIInv, <1>1, PTL DEF Spec

-----------------------------------------------------------------------------
(* What it says of the deletions                                           *)

\* All state is what it should be: handles, flags and counts, the activations of
\* every thread.
THEOREM TypeCorrect == Spec => []TypeOK
  <1>1. IInv => TypeOK BY DEF IInv, Inv1
  <1> QED BY Invariance, <1>1, PTL

\* dds_handle_delete finds the handle closed and with no pin but the deleting
\* thread's, as it asserts.
THEOREM AloneAtDelete == Spec => []AloneWhenDeleted
  <1>1. ASSUME IInv, NEW t \in Threads, At(t, "handle")
        PROVE  link[Cur(t).of].closing /\ link[Cur(t).of].pin = 1
    <2>1. PICK L \in Nat : L = Len(stack[t]) BY <1>1 DEF IInv, Inv1, TypeOK
    <2>2. Is(t, L) /\ Fr(t, L) = Cur(t) /\ Fr(t, L).at \in Alone
      BY <1>1, <2>1, Top DEF IInv, Inv1, At, Cur, Alone
    <2> QED BY <1>1, <2>2, Exclusive DEF IInv, Inv3, AloneInv
  <1>2. IInv => AloneWhenDeleted BY <1>1 DEF AloneWhenDeleted
  <1> QED BY Invariance, <1>2, PTL

\* However the calls of dds_delete, for a parent, for a last child and for a
\* last writer meet, one of them gets past dds_handle_close_wait.
THEOREM OnePasses == Spec => []OnePassesTheWait
  <1>1. ASSUME IInv, NEW t \in Threads, NEW u \in Threads, NEW c \in Nat, NEW d \in Nat,
               Is(t, c), Fr(t, c).at \in Alone \union Leaving,
               Is(u, d), Fr(u, d).at \in Alone \union Leaving,
               Fr(t, c).of = Fr(u, d).of
        PROVE  t = u /\ c = d
    <2>1. GoneInv BY <1>1 DEF IInv, Inv2
    <2>2. CASE Fr(t, c).at \in Alone /\ Fr(u, d).at \in Alone
      BY <1>1, <2>2, Exclusive DEF Held, Holds
    <2>3. CASE Fr(t, c).at \in Leaving /\ Fr(u, d).at \in Leaving
      BY <1>1, <2>1, <2>3 DEF GoneInv
    <2>4. CASE Fr(t, c).at \in Alone /\ Fr(u, d).at \in Leaving
      BY <1>1, <2>1, <2>4, Exclusive DEF GoneInv
    <2>5. CASE Fr(t, c).at \in Leaving /\ Fr(u, d).at \in Alone
      BY <1>1, <2>1, <2>5, Exclusive DEF GoneInv
    <2> QED BY <1>1, <2>2, <2>3, <2>4, <2>5
  <1>2. IInv => OnePassesTheWait BY <1>1 DEF OnePassesTheWait
  <1> QED BY Invariance, <1>2, PTL

\* The memory of an entity outlives every pin and every deletion of it.
THEOREM PinnedOutlives == Spec => []PinnedStays
  <1>1. ASSUME IInv, NEW t \in Threads, NEW d \in Nat, NEW e \in Entities,
               Is(t, d), Holds(Fr(t, d), e)
        PROVE  e \notin freed
    <2>1. <<t, d>> \in Pins(e) BY <1>1 DEF Pins, Held
    <2> QED BY <1>1, <2>1 DEF IInv, Inv2, PinInv, GoneInv
  <1>2. ASSUME IInv, NEW t \in Threads, NEW d \in Nat, NEW e \in Entities,
               Is(t, d), Claims(Fr(t, d), e)
        PROVE  e \notin freed
    <2>1. CASE Holds(Fr(t, d), e) BY <1>1, <1>2, <2>1
    <2>2. CASE Fr(t, d).at \in Leaving /\ Fr(t, d).of = e
      BY <1>2, <2>2 DEF IInv, Inv2, GoneInv
    <2> QED BY <1>2, <2>1, <2>2 DEF Claims, Holds
  <1>3. IInv => PinnedStays BY <1>1, <1>2 DEF PinnedStays
  <1> QED BY Invariance, <1>3, PTL

\* An activation that deletes e claims it.
LEMMA DeletingClaims ==
    ASSUME IInv, NEW t \in Threads, NEW i \in DOMAIN stack[t], NEW e \in Entities,
           Deleting(t, i, e)
    PROVE  LET d == Len(stack[t]) + 1 - i IN
           d \in Nat /\ Is(t, d) /\ Claims(Fr(t, d), e)
  <1> DEFINE d == Len(stack[t]) + 1 - i
             f == Fr(t, d)
  <1>1. stack[t] \in Seq(Frames) BY DEF IInv, Inv1, TypeOK
  <1>2. i \in 1..Len(stack[t]) /\ Len(stack[t]) \in Nat BY <1>1
  <1>3. d \in Nat /\ Is(t, d) /\ Len(stack[t]) + 1 - d = i BY <1>2 DEF Is
  <1> HIDE DEF d
  <1>4. f = stack[t][i] /\ f \in Frames BY <1>1, <1>2, <1>3 DEF Fr, Nth
  <1>5. Proper(f) BY <1>3 DEF IInv, Inv1, FrameInv
  <1>6. f.of = e /\ f.why # "other" /\ f.at # "pin" BY <1>4 DEF Deleting
  <1> HIDE DEF f
  <1>7. f.at \in Waiting \union Alone \union Leaving
    BY <1>4, <1>5, <1>6 DEF Proper, Frames, Places
  <1>8. Claims(f, e) BY <1>6, <1>7 DEF Claims
  <1> QED BY <1>3, <1>8 DEF d, f

\* "Only one thread may call close_wait on a given handle": so it is when the
\* application leaves implicit publishers and their participant alone.
THEOREM OneDeleterOfEach == ASSUME Undisturbed PROVE Spec => []OneDeleter
  <1>1. ASSUME IInv, NEW e \in Entities, NEW t \in Threads, NEW u \in Threads,
               NEW i \in DOMAIN stack[t], NEW j \in DOMAIN stack[u],
               Deleting(t, i, e), Deleting(u, j, e)
        PROVE  t = u /\ i = j
    <2> DEFINE c == Len(stack[t]) + 1 - i
               d == Len(stack[u]) + 1 - j
    <2>1. c \in Nat /\ Is(t, c) /\ Claims(Fr(t, c), e) BY <1>1, DeletingClaims
    <2>2. d \in Nat /\ Is(u, d) /\ Claims(Fr(u, d), e) BY <1>1, DeletingClaims
    <2>3. i \in Nat /\ j \in Nat /\ Len(stack[t]) \in Nat /\ Len(stack[u]) \in Nat
      BY <1>1 DEF IInv, Inv1, TypeOK
    <2>4. OneInv BY <1>1 DEF IInv, Inv3
    <2> HIDE DEF c, d
    <2>5. t = u /\ c = d BY <2>1, <2>2, <2>4 DEF OneInv
    <2> QED BY <2>3, <2>5 DEF c, d
  <1>2. IInv => OneDeleter BY <1>1 DEF OneDeleter
  <1> QED BY Invariance, <1>2, PTL

-----------------------------------------------------------------------------
(* Who refers to an entity.  Until it has left its parent an entity is one  *)
(* of its children, and until it has dropped its topic a writer refers to   *)
(* that.                                                                    *)

\* Some activation for e is at one of the places S.
InAt(e, S) ==
    \E t \in Threads, d \in Nat : Is(t, d) /\ Fr(t, d).of = e /\ Fr(t, d).at \in S

\* c has not left its parent, and w has not dropped its topic.
TopicPlaces == {"referred", "unlink", "close", "derive"}
Linked(c) == c \in known \/ InAt(c, {"unlink"})
Refers(w) == w \in known \/ InAt(w, TopicPlaces)

Referring(x) == {w \in Entities : TopicOf[w] = x /\ Refers(w)}
Refs(e)      == children[e] \union Referring(e)

\* The reference that an entity itself has, unless it was made by others, is
\* being deleted, or was deleted while writers refer to it.
Own(e) == IF e \in implicit \/ link[e].closing \/ link[e].deferred THEN 0 ELSE 1

Claimed(e) == \E t \in Threads, d \in Nat : Is(t, d) /\ Claims(Fr(t, d), e)
Taken(e)   == \E t \in Threads, d \in Nat :
                 Is(t, d) /\ Fr(t, d).at = "close" /\ Fr(t, d).up = e

\* An activation that is to delete a topic for its last writer.
Drops(f, x) == f.of = x /\ f.at = "pin" /\ f.why = "ref"
ToDrop(x) == \E t \in Threads, d \in Nat : Is(t, d) /\ Drops(Fr(t, d), x)

ChildrenInv ==
    \A c \in Entities : Parent[c] # None => (c \in children[Parent[c]] <=> Linked(c))

\* The count is right as long as the entity is there.
RefcInv ==
    \A e \in Entities \ freed :
        IsFiniteSet(Refs(e)) /\ link[e].refc = Own(e) + Cardinality(Refs(e))

\* What is closed has been freed, or somebody will do that.
ClosedInv ==
    \A e \in Entities : /\ e \in freed => link[e].closing
                        /\ link[e].closing => e \in freed \/ Claimed(e)

\* The last child takes its implicit parent along.
ImplicitInv ==
    \A e \in implicit : link[e].closing \/ children[e] # {} \/ Taken(e)

\* Children are deleted for a parent that is being deleted.
ParentInv ==
    \A t \in Threads, d \in Nat : Is(t, d) /\ Fr(t, d).why = "parent" =>
        Parent[Fr(t, d).of] \in Entities /\ link[Parent[Fr(t, d).of]].closing

\* The last writer takes its deleted topic along.
DeferInv ==
    \A e \in Entities : link[e].deferred =>
        /\ e \in Topics
        /\ link[e].closing \/ e \in known
        /\ link[e].closing \/ Referring(e) # {} \/ ToDrop(e)

RInv == /\ ChildrenInv /\ RefcInv /\ ClosedInv
        /\ ImplicitInv /\ ParentInv /\ DeferInv

-----------------------------------------------------------------------------
(* What becomes of the activations in a step.                               *)

\* The step is at the k-th activation of t, maybe another is put on top of it;
\* all others are what they were, or have been woken up.
Shape(t, k) ==
    /\ \A u \in Threads, d \in Nat : u # t \/ d < k =>
          /\ Is(u, d)' <=> Is(u, d)
          /\ Is(u, d) => Alike(Fr(u, d), Fr(u, d)')
    /\ \A d \in Nat : d > k => ~Is(t, d)
    /\ \A d \in Nat : d > k + 1 => ~Is(t, d)'
    /\ Is(t, k + 1)' => Is(t, k)' /\ Fr(t, k + 1)'.at = "pin"

\* s, or s after some wake-ups.
After(s, r) ==
    \/ r = s \/ r = Unparked(s)
    \/ \E p : r = Woken(s, p) \/ r = Unparked(Woken(s, p))

\* The wake-ups of a step.
LEMMA AfterStirs ==
    ASSUME NEW s \in [Threads -> Seq(Frames)], NEW r, After(s, r)
    PROVE  Stirred(s, r)
  <1>1. CASE r = s \/ r = Unparked(s) BY <1>1, Unstirred, UnparkedStirs
  <1>2. ASSUME NEW p, r = Woken(s, p) \/ r = Unparked(Woken(s, p))
        PROVE  Stirred(s, r)
    <2>1. Stirred(s, Woken(s, p)) BY WokenStirs
    <2>2. Woken(s, p) \in [Threads -> Seq(Frames)] BY <2>1 DEF Stirred
    <2>3. Stirred(Woken(s, p), Unparked(Woken(s, p))) BY <2>2, UnparkedStirs
    <2> HIDE DEF Woken, Unparked
    <2> QED BY <1>2, <2>1, <2>3, StirredTwice
  <1> QED BY <1>1, <1>2 DEF After

\* A stack of t that is new from the k-th activation on.
LEMMA ShapeOf ==
    ASSUME TypeOK, NEW t \in Threads, NEW k \in Nat \ {0},
           NEW s \in [Threads -> Seq(Frames)], After(s, stack'),
           \A u \in Threads : u # t => s[u] = stack[u],
           k - 1 <= Len(s[t]), k - 1 <= Len(stack[t]), Len(stack[t]) <= k,
           Len(s[t]) <= k + 1,
           \A d \in 1..(k - 1) : Nth(s[t], d) = Fr(t, d),
           Len(s[t]) = k + 1 => Nth(s[t], k + 1).at = "pin"
    PROVE  /\ Shape(t, k) /\ stack' \in [Threads -> Seq(Frames)]
           /\ \A d \in Nat : Is(t, d)' <=> d \in 1..Len(s[t])
           /\ \A d \in 1..Len(s[t]) : Alike(Nth(s[t], d), Fr(t, d)')
           /\ stack' = s => \A d \in 1..Len(s[t]) : Fr(t, d)' = Nth(s[t], d)
  <1>1. /\ stack' \in [Threads -> Seq(Frames)]
        /\ \A u \in Threads : Len(stack'[u]) = Len(s[u])
        /\ \A u \in Threads : \A d \in 1..Len(s[u]) : Alike(Nth(s[u], d), Nth(stack'[u], d))
    BY AfterStirs DEF Stirred
  <1>2. \A u \in Threads : /\ s[u] \in Seq(Frames) /\ Len(s[u]) \in Nat
                           /\ stack[u] \in Seq(Frames) /\ Len(stack[u]) \in Nat
    BY DEF TypeOK
  <1>3. \A u \in Threads, d \in Nat : Is(u, d)' <=> d \in 1..Len(s[u]) BY <1>1 DEF Is
  <1>4. \A u \in Threads : \A d \in 1..Len(s[u]) : Alike(Nth(s[u], d), Fr(u, d)')
    BY <1>1 DEF Fr
  <1>5. \A u \in Threads, d \in Nat : u # t \/ d < k =>
           /\ d \in 1..Len(s[u]) <=> Is(u, d)
           /\ Is(u, d) => Nth(s[u], d) = Fr(u, d)
    BY <1>2 DEF Is, Fr
  <1>6. \A d \in Nat : d > k => ~Is(t, d) BY <1>2 DEF Is
  <1>7. \A d \in Nat : d > k + 1 => ~Is(t, d)' BY <1>2, <1>3
  <1>8. Is(t, k + 1)' => Is(t, k)' /\ Fr(t, k + 1)'.at = "pin"
    <2> HAVE Is(t, k + 1)'
    <2>1. k + 1 \in 1..Len(s[t]) /\ k \in 1..Len(s[t]) /\ Len(s[t]) = k + 1 BY <1>2, <1>3
    <2>2. Nth(s[t], k + 1) \in Frames /\ Nth(s[t], k + 1).at = "pin"
      BY <2>1, <1>2, NthType
    <2>3. Fr(t, k + 1)' = Nth(s[t], k + 1) BY <2>1, <2>2, <1>4, AlikeSame
    <2> QED BY <2>1, <2>2, <2>3, <1>3
  <1>9. stack' = s => \A d \in 1..Len(s[t]) : Fr(t, d)' = Nth(s[t], d) BY DEF Fr
  <1> QED BY <1>1, <1>3, <1>4, <1>5, <1>6, <1>7, <1>8, <1>9 DEF Shape

\* The innermost activation goes on.
LEMMA Goes ==
    ASSUME TypeOK, NEW t \in Threads, stack[t] # <<>>, NEW g \in Frames,
           After(Goto(t, g), stack'),
           stack' = Goto(t, g) \/ g.at \notin {"parked", "asleep"}
    PROVE  \E k \in Nat \ {0} :
              /\ Shape(t, k) /\ k = Len(stack[t])
              /\ Is(t, k) /\ Fr(t, k) = Cur(t)
              /\ Is(t, k)' /\ Fr(t, k)' = g
              /\ ~Is(t, k + 1)'
  <1> DEFINE s == Goto(t, g)
  <1>1. PICK L \in Nat : L = Len(stack[t]) BY DEF TypeOK
  <1>2. /\ stack[t] \in Seq(Frames) /\ stack \in [Threads -> Seq(Frames)]
        /\ L \in Nat \ {0} /\ Is(t, L) /\ Fr(t, L) = Cur(t)
    BY <1>1, Top
  <1>3. s[t] = <<g>> \o Tail(stack[t]) /\ \A u \in Threads : u # t => s[u] = stack[u]
    BY <1>2 DEF Goto
  <1>4. /\ s[t] \in Seq(Frames) /\ Len(s[t]) = L /\ Nth(s[t], L) = g
        /\ \A d \in 1..(L - 1) : Nth(s[t], d) = Fr(t, d)
    BY <1>1, <1>2, <1>3, Stacked DEF Fr
  <1>5. s \in [Threads -> Seq(Frames)] BY <1>2, <1>3, <1>4 DEF Goto
  <1>6. After(s, stack') OBVIOUS
  <1>7. stack' = s \/ g.at \notin {"parked", "asleep"} OBVIOUS
  <1> HIDE DEF s
  <1>8. /\ Shape(t, L)
        /\ \A d \in Nat : Is(t, d)' <=> d \in 1..Len(s[t])
        /\ \A d \in 1..Len(s[t]) : Alike(Nth(s[t], d), Fr(t, d)')
        /\ stack' = s => \A d \in 1..Len(s[t]) : Fr(t, d)' = Nth(s[t], d)
    <2>1. /\ L - 1 <= Len(s[t]) /\ L - 1 <= Len(stack[t]) /\ Len(stack[t]) <= L
          /\ Len(s[t]) <= L + 1 /\ Len(s[t]) # L + 1
      BY <1>1, <1>2, <1>4
    <2> QED BY <2>1, <1>2, <1>3, <1>4, <1>5, <1>6, ShapeOf
  <1>9. Is(t, L)' /\ ~Is(t, L + 1)' BY <1>2, <1>4, <1>8
  <1>10. Fr(t, L)' = g BY <1>2, <1>4, <1>8, <1>7, AlikeSame
  <1> QED BY <1>1, <1>2, <1>8, <1>9, <1>10

\* The innermost activation ends.
LEMMA Ends ==
    ASSUME TypeOK, NEW t \in Threads, stack[t] # <<>>, After(Pop(t), stack')
    PROVE  \E k \in Nat \ {0} :
              /\ Shape(t, k) /\ k = Len(stack[t])
              /\ Is(t, k) /\ Fr(t, k) = Cur(t)
              /\ ~Is(t, k)' /\ ~Is(t, k + 1)'
  <1> DEFINE s == Pop(t)
  <1>1. PICK L \in Nat : L = Len(stack[t]) BY DEF TypeOK
  <1>2. /\ stack[t] \in Seq(Frames) /\ stack \in [Threads -> Seq(Frames)]
        /\ L \in Nat \ {0} /\ Is(t, L) /\ Fr(t, L) = Cur(t)
    BY <1>1, Top
  <1>3. s[t] = Tail(stack[t]) /\ \A u \in Threads : u # t => s[u] = stack[u]
    BY <1>2 DEF Pop
  <1>4. /\ s[t] \in Seq(Frames) /\ Len(s[t]) = L - 1
        /\ \A d \in 1..(L - 1) : Nth(s[t], d) = Fr(t, d)
    BY <1>1, <1>2, <1>3, Popped DEF Fr
  <1>5. s \in [Threads -> Seq(Frames)] BY <1>2, <1>3, <1>4 DEF Pop
  <1>6. After(s, stack') OBVIOUS
  <1> HIDE DEF s
  <1>7. /\ Shape(t, L)
        /\ \A d \in Nat : Is(t, d)' <=> d \in 1..Len(s[t])
    <2>1. /\ L - 1 <= Len(s[t]) /\ L - 1 <= Len(stack[t]) /\ Len(stack[t]) <= L
          /\ Len(s[t]) <= L + 1 /\ Len(s[t]) # L + 1
      BY <1>1, <1>2, <1>4
    <2> QED BY <2>1, <1>2, <1>3, <1>4, <1>5, <1>6, ShapeOf
  <1>8. ~Is(t, L)' /\ ~Is(t, L + 1)' BY <1>2, <1>4, <1>7
  <1> QED BY <1>1, <1>2, <1>7, <1>8

\* A thread that is in no operation begins one.
LEMMA Begins ==
    ASSUME TypeOK, NEW t \in Threads, stack[t] = <<>>, NEW g \in Frames,
           stack' = Push(t, g)
    PROVE  /\ Shape(t, 1) /\ ~Is(t, 1) /\ ~Is(t, 2)'
           /\ Is(t, 1)' /\ Fr(t, 1)' = g
  <1> DEFINE s == Push(t, g)
  <1>1. stack[t] \in Seq(Frames) /\ stack \in [Threads -> Seq(Frames)] /\ Len(stack[t]) = 0
    BY DEF TypeOK
  <1>2. s[t] = <<g>> \o stack[t] /\ \A u \in Threads : u # t => s[u] = stack[u]
    BY <1>1 DEF Push
  <1>3. s[t] \in Seq(Frames) /\ Len(s[t]) = 1 /\ Nth(s[t], 1) = g
    <2>1. /\ <<g>> \o stack[t] \in Seq(Frames)
          /\ Len(<<g>> \o stack[t]) = Len(stack[t]) + 1
          /\ Nth(<<g>> \o stack[t], Len(stack[t]) + 1) = g
      BY <1>1, Pushed
    <2> QED BY <2>1, <1>1, <1>2
  <1>4. s \in [Threads -> Seq(Frames)] BY <1>1, <1>2, <1>3 DEF Push
  <1>5. After(s, stack') /\ stack' = s BY DEF After
  <1> HIDE DEF s
  <1>6. /\ Shape(t, 1)
        /\ \A d \in Nat : Is(t, d)' <=> d \in 1..Len(s[t])
        /\ \A d \in 1..Len(s[t]) : Fr(t, d)' = Nth(s[t], d)
    <2>1. /\ 1 \in Nat \ {0} /\ 1 - 1 <= Len(s[t]) /\ 1 - 1 <= Len(stack[t])
          /\ Len(stack[t]) <= 1 /\ Len(s[t]) <= 1 + 1 /\ Len(s[t]) # 1 + 1
          /\ \A d \in 1..(1 - 1) : Nth(s[t], d) = Fr(t, d)
      BY <1>1, <1>3
    <2> HIDE DEF Fr
    <2> QED BY <2>1, <1>2, <1>4, <1>5, ShapeOf
  <1>7. Is(t, 1)' /\ ~Is(t, 2)' /\ Fr(t, 1)' = g BY <1>3, <1>6
  <1>8. ~Is(t, 1) BY <1>1 DEF Is
  <1> QED BY <1>6, <1>7, <1>8

\* Two activations on top of a stack.
LEMMA TwoOnTop ==
    ASSUME NEW f \in Frames, NEW g \in Frames, NEW q \in Seq(Frames)
    PROVE  <<f, g>> \o q = <<f>> \o (<<g>> \o q)
  <1> DEFINE a == <<f, g>> \o q
             b == <<g>> \o q
             c == <<f>> \o b
  <1>1. a \in Seq(Frames) /\ Len(a) = Len(q) + 2 /\ a[1] = f /\ a[2] = g
        /\ \A i \in 3..(Len(q) + 2) : a[i] = q[i - 2]
    OBVIOUS
  <1>2. b \in Seq(Frames) /\ Len(b) = Len(q) + 1 /\ b[1] = g
        /\ \A i \in 2..(Len(q) + 1) : b[i] = q[i - 1]
    OBVIOUS
  <1> HIDE DEF b
  <1>3. c \in Seq(Frames) /\ Len(c) = Len(b) + 1 /\ c[1] = f
        /\ \A i \in 2..(Len(b) + 1) : c[i] = b[i - 1]
    BY <1>2
  <1> HIDE DEF a, c
  <1>4. \A i \in 1..Len(a) : a[i] = c[i] BY <1>1, <1>2, <1>3
  <1>5. a = c BY <1>1, <1>2, <1>3, <1>4
  <1> QED BY <1>5 DEF a, b, c

\* They can be put there one after the other.
LEMMA TwoJoined ==
    ASSUME NEW f \in Frames, NEW g \in Frames, NEW q \in Seq(Frames)
    PROVE  <<f>> \o <<g>> \o q = <<f, g>> \o q
  <1> DEFINE a == <<f, g>>
             b == <<f>> \o <<g>>
  <1>1. a \in Seq(Frames) /\ Len(a) = 2 /\ a[1] = f /\ a[2] = g OBVIOUS
  <1>2. b \in Seq(Frames) /\ Len(b) = 2 /\ b[1] = f /\ b[2] = g OBVIOUS
  <1> HIDE DEF a, b
  <1>3. \A i \in 1..2 : a[i] = b[i] BY <1>1, <1>2
  <1>4. a = b BY <1>1, <1>2, <1>3
  <1> QED BY <1>4 DEF a, b

\* The innermost activation calls for the deletion of another entity.
LEMMA Calls ==
    ASSUME TypeOK, NEW t \in Threads, stack[t] # <<>>, NEW f \in Frames, NEW g \in Frames,
           f.at = "pin", g.at \in {"child", "derived"},
           After([stack EXCEPT ![t] = <<f, g>> \o Tail(@)], stack')
    PROVE  \E k \in Nat \ {0} :
              /\ Shape(t, k) /\ k = Len(stack[t])
              /\ Is(t, k) /\ Fr(t, k) = Cur(t)
              /\ Is(t, k)' /\ Fr(t, k)' = g
              /\ Is(t, k + 1)' /\ Fr(t, k + 1)' = f
  <1> DEFINE s == [stack EXCEPT ![t] = <<f, g>> \o Tail(@)]
             r == <<g>> \o Tail(stack[t])
  <1>0. PICK L \in Nat : L = Len(stack[t]) BY DEF TypeOK
  <1>1. /\ stack[t] \in Seq(Frames) /\ stack \in [Threads -> Seq(Frames)]
        /\ L \in Nat \ {0} /\ Is(t, L) /\ Fr(t, L) = Cur(t)
    BY <1>0, Top
  <1>2. s[t] = <<f, g>> \o Tail(stack[t]) /\ \A u \in Threads : u # t => s[u] = stack[u]
    BY <1>1
  <1>3. /\ r \in Seq(Frames) /\ Len(r) = L /\ Nth(r, L) = g
        /\ \A d \in 1..(L - 1) : Nth(r, d) = Fr(t, d)
    BY <1>0, <1>1, Stacked DEF Fr
  <1>4. s[t] = <<f>> \o r
    <2>1. Tail(stack[t]) \in Seq(Frames) BY <1>1
    <2> QED BY <2>1, <1>2, TwoOnTop
  <1>5. After(s, stack') OBVIOUS
  <1> HIDE DEF r
  <1>6. /\ s[t] \in Seq(Frames) /\ Len(s[t]) = L + 1 /\ Nth(s[t], L + 1) = f
        /\ Nth(s[t], L) = g
        /\ \A d \in 1..(L - 1) : Nth(s[t], d) = Fr(t, d)
    <2>1. /\ <<f>> \o r \in Seq(Frames) /\ Len(<<f>> \o r) = Len(r) + 1
          /\ Nth(<<f>> \o r, Len(r) + 1) = f
          /\ \A d \in 1..Len(r) : Nth(<<f>> \o r, d) = Nth(r, d)
      BY <1>3, Pushed
    <2> HIDE DEF s
    <2> QED BY <2>1, <1>1, <1>3, <1>4
  <1>7. s \in [Threads -> Seq(Frames)] BY <1>2, <1>6, <1>1
  <1> HIDE DEF s
  <1>8. /\ Shape(t, L)
        /\ \A d \in Nat : Is(t, d)' <=> d \in 1..Len(s[t])
        /\ \A d \in 1..Len(s[t]) : Alike(Nth(s[t], d), Fr(t, d)')
    <2>1. /\ L - 1 <= Len(s[t]) /\ L - 1 <= Len(stack[t]) /\ Len(stack[t]) <= L
          /\ Len(s[t]) <= L + 1
      BY <1>0, <1>1, <1>6
    <2> QED BY <2>1, <1>1, <1>2, <1>5, <1>6, <1>7, ShapeOf
  <1>9. Is(t, L)' /\ Is(t, L + 1)' BY <1>1, <1>6, <1>8
  <1>10. Fr(t, L)' = g /\ Fr(t, L + 1)' = f BY <1>1, <1>6, <1>8, AlikeSame
  <1> QED BY <1>0, <1>1, <1>8, <1>9, <1>10

\* Activations at which the step is not are the same, or have been woken up.
LEMMA Apart ==
    ASSUME TypeOK, NEW t \in Threads, NEW k \in Nat, Shape(t, k),
           NEW u \in Threads, NEW d \in Nat, u # t \/ d < k
    PROVE  /\ Is(u, d)' <=> Is(u, d)
           /\ Is(u, d) =>
                /\ Fr(u, d) \in Frames /\ Fr(u, d)' \in Frames
                /\ Fr(u, d)'.of = Fr(u, d).of /\ Fr(u, d)'.why = Fr(u, d).why
                /\ Fr(u, d)'.up = Fr(u, d).up /\ Fr(u, d)'.pass = Fr(u, d).pass
                /\ Fr(u, d)'.cursor = Fr(u, d).cursor
                /\ \/ Fr(u, d)' = Fr(u, d)
                   \/ Fr(u, d).at = "parked" /\ Fr(u, d)'.at = "closing"
                   \/ Fr(u, d).at = "asleep" /\ Fr(u, d)'.at = "awake"
                /\ \A e \in Entities : Claims(Fr(u, d)', e) <=> Claims(Fr(u, d), e)
  <1>1. (Is(u, d)' <=> Is(u, d)) /\ (Is(u, d) => Alike(Fr(u, d), Fr(u, d)')) BY DEF Shape
  <1>2. ASSUME NEW f \in Frames, NEW g, Alike(f, g)
        PROVE  /\ g \in Frames
               /\ g.of = f.of /\ g.why = f.why /\ g.up = f.up /\ g.pass = f.pass
               /\ g.cursor = f.cursor
               /\ \/ g = f
                  \/ f.at = "parked" /\ g.at = "closing"
                  \/ f.at = "asleep" /\ g.at = "awake"
    BY <1>2 DEF Places, Waiting, Alone, Alike, Frames
  <1>3. ASSUME NEW f \in Frames, NEW g \in Frames, Alike(f, g)
        PROVE  \A e \in Entities : Claims(g, e) <=> Claims(f, e)
    BY <1>3, AlikeSame, SameFacts
  <1>4. Is(u, d) => Fr(u, d) \in Frames BY FrType
  <1> QED BY <1>1, <1>2, <1>3, <1>4

\* The places where activations for e are change with the step's only.
LEMMA InAtChange ==
    ASSUME TypeOK, NEW t \in Threads, NEW k \in Nat, Shape(t, k), NEW e, NEW S,
           S \intersect {"parked", "closing", "asleep", "awake", "pin"} = {}
    PROVE  /\ InAt(e, S)' =>
                \/ InAt(e, S)
                \/ Is(t, k)' /\ Fr(t, k)'.of = e /\ Fr(t, k)'.at \in S
           /\ InAt(e, S) =>
                \/ InAt(e, S)'
                \/ Is(t, k) /\ Fr(t, k).of = e /\ Fr(t, k).at \in S
           /\ Is(t, k)' /\ Fr(t, k)'.of = e /\ Fr(t, k)'.at \in S => InAt(e, S)'
           /\ Is(t, k) /\ Fr(t, k).of = e /\ Fr(t, k).at \in S => InAt(e, S)
  <1>1. \A u \in Threads, d \in Nat : u # t \/ d < k =>
           /\ Is(u, d)' <=> Is(u, d)
           /\ Is(u, d) => /\ Fr(u, d)'.of = Fr(u, d).of
                          /\ Fr(u, d)'.at \in S <=> Fr(u, d).at \in S
    BY Apart
  <1>2. \A d \in Nat : d = k \/ d < k \/ d > k OBVIOUS
  <1>3. \A d \in Nat : d > k => ~Is(t, d) BY DEF Shape
  <1>4. \A d \in Nat : d > k => ~(Is(t, d)' /\ Fr(t, d)'.at \in S)
    <2> TAKE d \in Nat
    <2> HAVE d > k
    <2>1. d = k + 1 \/ d > k + 1 OBVIOUS
    <2>2. d > k + 1 => ~Is(t, d)' BY DEF Shape
    <2>3. Is(t, k + 1)' => Fr(t, k + 1)'.at \notin S BY DEF Shape
    <2> HIDE DEF Is, Fr
    <2> QED BY <2>1, <2>2, <2>3
  <1> QED BY <1>1, <1>2, <1>3, <1>4 DEF InAt

\* Deleters, those that are about to be, and those that drop a topic change
\* with the step only.
LEMMA OthersStay ==
    ASSUME TypeOK, NEW t \in Threads, NEW k \in Nat, Shape(t, k), NEW e \in Entities
    PROVE  /\ Claimed(e) => Claimed(e)' \/ (Is(t, k) /\ Claims(Fr(t, k), e))
           /\ Taken(e) => \/ Taken(e)'
                          \/ Is(t, k) /\ Fr(t, k).at = "close" /\ Fr(t, k).up = e
           /\ ToDrop(e) => ToDrop(e)' \/ (Is(t, k) /\ Drops(Fr(t, k), e))
           /\ Is(t, k)' /\ Claims(Fr(t, k)', e) => Claimed(e)'
           /\ Is(t, k)' /\ Fr(t, k)'.at = "close" /\ Fr(t, k)'.up = e => Taken(e)'
           /\ Is(t, k)' /\ Drops(Fr(t, k)', e) => ToDrop(e)'
           /\ Is(t, k + 1)' /\ Drops(Fr(t, k + 1)', e) => ToDrop(e)'
  <1>1. \A u \in Threads, d \in Nat : u # t \/ d < k =>
           /\ Is(u, d)' <=> Is(u, d)
           /\ Is(u, d) => /\ Claims(Fr(u, d)', e) <=> Claims(Fr(u, d), e)
                          /\ Fr(u, d)'.at = "close" <=> Fr(u, d).at = "close"
                          /\ Fr(u, d)'.up = Fr(u, d).up
                          /\ Drops(Fr(u, d)', e) <=> Drops(Fr(u, d), e)
    BY Apart DEF Drops
  <1>2. \A d \in Nat : d = k \/ d < k \/ d > k OBVIOUS
  <1>3. \A d \in Nat : d > k => ~Is(t, d) BY DEF Shape
  <1>4. k + 1 \in Nat OBVIOUS
  <1>5. Claimed(e)' <=> \E u \in Threads, d \in Nat : Is(u, d)' /\ Claims(Fr(u, d)', e)
    BY DEF Claimed, Claims
  <1>6. ToDrop(e)' <=> \E u \in Threads, d \in Nat : Is(u, d)' /\ Drops(Fr(u, d)', e)
    BY DEF ToDrop, Drops
  <1>7. Taken(e)' <=> \E u \in Threads, d \in Nat :
                         Is(u, d)' /\ Fr(u, d)'.at = "close" /\ Fr(u, d)'.up = e
    BY DEF Taken
  <1>8. Claimed(e) => Claimed(e)' \/ (Is(t, k) /\ Claims(Fr(t, k), e))
    BY <1>1, <1>2, <1>3, <1>5 DEF Claimed
  <1>9. Taken(e) => \/ Taken(e)'
                    \/ Is(t, k) /\ Fr(t, k).at = "close" /\ Fr(t, k).up = e
    BY <1>1, <1>2, <1>3, <1>7 DEF Taken
  <1>10. ToDrop(e) => ToDrop(e)' \/ (Is(t, k) /\ Drops(Fr(t, k), e))
    BY <1>1, <1>2, <1>3, <1>6 DEF ToDrop
  <1> HIDE DEF Is, Fr
  <1> QED BY <1>4, <1>5, <1>6, <1>7, <1>8, <1>9, <1>10

-----------------------------------------------------------------------------
(* Counts and flags                                                         *)

\* What a step does to closing, deferred and refc.
SameLink(e) == /\ link'[e].closing = link[e].closing
               /\ link'[e].deferred = link[e].deferred
               /\ link'[e].refc = link[e].refc

\* A handle with other counts.
LEMMA Fields ==
    ASSUME NEW l \in LinkType, NEW n \in Int
    PROVE  /\ LET r == [l EXCEPT !.refc = n] IN
                 /\ r \in LinkType /\ r.refc = n
                 /\ r.closing = l.closing /\ r.deferred = l.deferred
           /\ LET r == [l EXCEPT !.pin = n] IN
                 /\ r \in LinkType /\ r.refc = l.refc
                 /\ r.closing = l.closing /\ r.deferred = l.deferred
           /\ LET r == [l EXCEPT !.closing = TRUE] IN
                 /\ r \in LinkType /\ r.refc = l.refc
                 /\ r.closing /\ r.deferred = l.deferred
           /\ LET r == [l EXCEPT !.deferred = TRUE] IN
                 /\ r \in LinkType /\ r.refc = l.refc
                 /\ r.closing = l.closing /\ r.deferred
  BY DEF LinkType

\* A pin more or less.
LEMMA PinFields ==
    ASSUME link \in [Entities -> LinkType], NEW x, NEW n \in Int,
           link' = Pinned(x) \/ link' = [link EXCEPT ![x].pin = n]
    PROVE  \A e \in Entities : SameLink(e)
  <1>1. \A e \in Entities : link[e] \in LinkType /\ link[e].pin + 1 \in Int
    BY DEF LinkType
  <1>2. CASE link' = Pinned(x)
    <2> DEFINE h(e) == [link[e] EXCEPT !.pin = link[e].pin + 1]
    <2>1. link' = [e \in Entities |-> IF e = x THEN h(e) ELSE link[e]] BY <1>2 DEF Pinned
    <2>2. \A e \in Entities : /\ h(e).closing = link[e].closing
                              /\ h(e).deferred = link[e].deferred
                              /\ h(e).refc = link[e].refc
      BY <1>1, Fields
    <2> HIDE DEF h
    <2> QED BY <2>1, <2>2 DEF SameLink
  <1>3. CASE link' = [link EXCEPT ![x].pin = n]
    <2> DEFINE h(e) == [link[e] EXCEPT !.pin = n]
    <2>1. link' = [e \in Entities |-> IF e = x THEN h(e) ELSE link[e]] BY <1>3
    <2>2. \A e \in Entities : /\ h(e).closing = link[e].closing
                              /\ h(e).deferred = link[e].deferred
                              /\ h(e).refc = link[e].refc
      BY <1>1, Fields
    <2> HIDE DEF h
    <2> QED BY <2>1, <2>2 DEF SameLink
  <1> QED BY <1>2, <1>3

\* A reference more or less, maybe with a pin.
LEMMA RefFields ==
    ASSUME link \in [Entities -> LinkType], NEW x, NEW n \in Int,
           \/ link' = [link EXCEPT ![x].refc = @ + n]
           \/ link' = [link EXCEPT ![x].refc = @ + n, ![x].pin = @ + 1]
    PROVE  \A e \in Entities :
              /\ link'[e].closing = link[e].closing
              /\ link'[e].deferred = link[e].deferred
              /\ link'[e].refc = IF e = x THEN link[e].refc + n ELSE link[e].refc
  <1>1. \A e \in Entities : /\ link[e] \in LinkType /\ link[e].refc + n \in Int
                            /\ link[e].pin + 1 \in Int
    BY DEF LinkType
  <1> DEFINE a(e) == [link[e] EXCEPT !.refc = link[e].refc + n]
             b(e) == [a(e) EXCEPT !.pin = link[e].pin + 1]
  <1>2. \A e \in Entities : /\ a(e) \in LinkType /\ a(e).closing = link[e].closing
                            /\ a(e).deferred = link[e].deferred
                            /\ a(e).refc = link[e].refc + n
    BY <1>1, Fields
  <1>3. CASE link' = [link EXCEPT ![x].refc = @ + n]
    <2>1. link' = [e \in Entities |-> IF e = x THEN a(e) ELSE link[e]] BY <1>3
    <2> HIDE DEF a
    <2> QED BY <2>1, <1>2
  <1>4. CASE link' = [link EXCEPT ![x].refc = @ + n, ![x].pin = @ + 1]
    <2>1. link' = [e \in Entities |-> IF e = x THEN b(e) ELSE link[e]] BY <1>4
    <2> HIDE DEF a
    <2>2. \A e \in Entities : /\ b(e).closing = a(e).closing
                              /\ b(e).deferred = a(e).deferred
                              /\ b(e).refc = a(e).refc
      BY <1>1, <1>2, Fields
    <2> HIDE DEF b
    <2> QED BY <2>1, <2>2, <1>2
  <1> QED BY <1>3, <1>4

\* A handle is closed, maybe with a reference less and a pin more.
LEMMA CloseFields ==
    ASSUME link \in [Entities -> LinkType], NEW x, NEW n \in Int,
           \/ link' = [link EXCEPT ![x].closing = TRUE] /\ n = 0
           \/ link' = [link EXCEPT ![x].refc = @ - n, ![x].pin = @ + 1, ![x].closing = TRUE]
    PROVE  \A e \in Entities :
              /\ link'[e].closing = IF e = x THEN TRUE ELSE link[e].closing
              /\ link'[e].deferred = link[e].deferred
              /\ link'[e].refc = IF e = x THEN link[e].refc - n ELSE link[e].refc
  <1>1. \A e \in Entities : /\ link[e] \in LinkType /\ link[e].refc - n \in Int
                            /\ link[e].pin + 1 \in Int /\ link[e].refc \in Int
    BY DEF LinkType
  <1> DEFINE a(e) == [link[e] EXCEPT !.refc = link[e].refc - n]
             b(e) == [a(e) EXCEPT !.pin = link[e].pin + 1]
             c(e) == [b(e) EXCEPT !.closing = TRUE]
             d(e) == [link[e] EXCEPT !.closing = TRUE]
  <1>2. \A e \in Entities : /\ a(e) \in LinkType /\ a(e).closing = link[e].closing
                            /\ a(e).deferred = link[e].deferred
                            /\ a(e).refc = link[e].refc - n
                            /\ d(e) \in LinkType /\ d(e).closing
                            /\ d(e).deferred = link[e].deferred
                            /\ d(e).refc = link[e].refc
    BY <1>1, Fields
  <1>3. CASE link' = [link EXCEPT ![x].closing = TRUE] /\ n = 0
    <2>1. link' = [e \in Entities |-> IF e = x THEN d(e) ELSE link[e]] BY <1>3
    <2>2. \A e \in Entities : d(e).closing = TRUE BY <1>1
    <2>3. \A e \in Entities : link[e].refc - n = link[e].refc BY <1>1, <1>3
    <2> HIDE DEF a, d
    <2>4. \A e \in Entities : link'[e] = IF e = x THEN d(e) ELSE link[e] BY <2>1
    <2> QED BY <2>2, <2>3, <2>4, <1>2
  <1>4. CASE link' = [link EXCEPT ![x].refc = @ - n, ![x].pin = @ + 1, ![x].closing = TRUE]
    <2>1. link' = [e \in Entities |-> IF e = x THEN c(e) ELSE link[e]] BY <1>4
    <2> HIDE DEF a
    <2>2. \A e \in Entities : /\ b(e) \in LinkType
                              /\ b(e).closing = a(e).closing
                              /\ b(e).deferred = a(e).deferred
                              /\ b(e).refc = a(e).refc
      BY <1>1, <1>2, Fields
    <2> HIDE DEF b
    <2>3. \A e \in Entities : /\ c(e).closing = TRUE
                              /\ c(e).deferred = b(e).deferred
                              /\ c(e).refc = b(e).refc
      BY <1>1, <2>2 DEF LinkType
    <2> HIDE DEF c
    <2> QED BY <2>1, <2>2, <2>3, <1>2
  <1> QED BY <1>3, <1>4

\* A topic is marked, and loses its own reference.
LEMMA DeferFields ==
    ASSUME link \in [Entities -> LinkType], NEW x,
           link' = [link EXCEPT ![x].refc = @ - 1, ![x].deferred = TRUE]
    PROVE  \A e \in Entities :
              /\ link'[e].closing = link[e].closing
              /\ link'[e].deferred = IF e = x THEN TRUE ELSE link[e].deferred
              /\ link'[e].refc = IF e = x THEN link[e].refc - 1 ELSE link[e].refc
  <1>1. \A e \in Entities : link[e] \in LinkType /\ link[e].refc - 1 \in Int
    BY DEF LinkType
  <1> DEFINE a(e) == [link[e] EXCEPT !.refc = link[e].refc - 1]
             b(e) == [a(e) EXCEPT !.deferred = TRUE]
  <1>2. \A e \in Entities : /\ a(e) \in LinkType /\ a(e).closing = link[e].closing
                            /\ a(e).deferred = link[e].deferred
                            /\ a(e).refc = link[e].refc - 1
    BY <1>1, Fields
  <1>3. link' = [e \in Entities |-> IF e = x THEN b(e) ELSE link[e]] OBVIOUS
  <1> HIDE DEF a
  <1>4. \A e \in Entities : /\ b(e).closing = a(e).closing
                            /\ b(e).deferred = TRUE
                            /\ b(e).refc = a(e).refc
    BY <1>1, <1>2 DEF LinkType
  <1> HIDE DEF b
  <1> QED BY <1>2, <1>3, <1>4

\* The same, one at a time.
LEMMA CloseOnly ==
    ASSUME link \in [Entities -> LinkType], NEW x,
           link' = [link EXCEPT ![x].closing = TRUE]
    PROVE  \A e \in Entities :
              /\ link'[e].closing = IF e = x THEN TRUE ELSE link[e].closing
              /\ link'[e].deferred = link[e].deferred
              /\ link'[e].refc = link[e].refc
  <1>1. /\ \A e \in Entities : link[e].refc - 0 = link[e].refc
        /\ 0 \in Int
    BY DEF LinkType
  <1>2. \A n \in Int : n = 0 => \A e \in Entities :
              /\ link'[e].closing = IF e = x THEN TRUE ELSE link[e].closing
              /\ link'[e].deferred = link[e].deferred
              /\ link'[e].refc = IF e = x THEN link[e].refc - n ELSE link[e].refc
    <2> TAKE n \in Int
    <2> HAVE n = 0
    <2>1. link' = [link EXCEPT ![x].closing = TRUE] /\ n = 0 OBVIOUS
    <2> QED BY <2>1, CloseFields
  <1> QED BY <1>1, <1>2

-----------------------------------------------------------------------------
(* What a step does to the references                                       *)

\* No writer begins or ceases to refer to a topic.
LEMMA SameReferring ==
    ASSUME \A w \in Entities : Refers(w)' <=> Refers(w), NEW e \in Entities
    PROVE  /\ Referring(e)' = Referring(e)
           /\ children'[e] = children[e] => Refs(e)' = Refs(e)
  <1>1. Referring(e)' = Referring(e) BY DEF Referring, Refers, InAt
  <1> QED BY <1>1 DEF Refs

\* A place among the others, or the step's own: where activations are does not
\* change if the step's one stays inside or outside.
LEMMA SameInAt ==
    ASSUME TypeOK, NEW t \in Threads, NEW k \in Nat, Shape(t, k), NEW e, NEW S,
           S \intersect {"parked", "closing", "asleep", "awake", "pin"} = {},
           (Is(t, k) /\ Fr(t, k).of = e /\ Fr(t, k).at \in S)
              <=> (Is(t, k)' /\ Fr(t, k)'.of = e /\ Fr(t, k)'.at \in S)
    PROVE  InAt(e, S)' <=> InAt(e, S)
  <1> HIDE DEF Is, Fr, InAt
  <1> QED BY InAtChange

\* The count keeps in step with the references: both stay, grow or shrink by
\* one, or the entity gives up its own.
LEMMA KeepRefc ==
    ASSUME TypeOK, RefcInv, freed \subseteq freed',
           link' \in [Entities -> LinkType],
           \A e \in Entities \ freed' :
              \/ /\ Refs(e)' = Refs(e)
                 /\ link'[e].refc - Own(e)' = link[e].refc - Own(e)
              \/ /\ Own(e)' = Own(e) /\ link'[e].refc = link[e].refc + 1
                 /\ \E w : w \notin Refs(e) /\ Refs(e)' = Refs(e) \union {w}
              \/ /\ Own(e)' = Own(e) /\ link'[e].refc = link[e].refc - 1
                 /\ \E w \in Refs(e) : Refs(e)' = Refs(e) \ {w}
    PROVE  RefcInv'
  <1> SUFFICES ASSUME NEW e \in Entities \ freed'
               PROVE  IsFiniteSet(Refs(e)') /\ link'[e].refc = Own(e)' + Cardinality(Refs(e)')
    BY DEF RefcInv
  <1>1. IsFiniteSet(Refs(e)) /\ link[e].refc = Own(e) + Cardinality(Refs(e))
    BY DEF RefcInv
  <1>2. Cardinality(Refs(e)) \in Nat /\ Own(e) \in {0, 1} /\ Own(e)' \in {0, 1}
    BY <1>1, FS_CardinalityType DEF Own
  <1>3. link[e].refc \in Int /\ link'[e].refc \in Int BY DEF TypeOK, LinkType
  <1> HIDE DEF Refs, Own
  <1>4. CASE /\ Refs(e)' = Refs(e)
             /\ link'[e].refc - Own(e)' = link[e].refc - Own(e)
    BY <1>1, <1>2, <1>3, <1>4
  <1>5. ASSUME Own(e)' = Own(e), link'[e].refc = link[e].refc + 1,
               NEW w, w \notin Refs(e), Refs(e)' = Refs(e) \union {w}
        PROVE  IsFiniteSet(Refs(e)') /\ link'[e].refc = Own(e)' + Cardinality(Refs(e)')
    <2>1. IsFiniteSet(Refs(e)') /\ Cardinality(Refs(e)') = Cardinality(Refs(e)) + 1
      BY <1>1, <1>5, FS_AddElement
    <2> QED BY <2>1, <1>1, <1>2, <1>5
  <1>6. ASSUME Own(e)' = Own(e), link'[e].refc = link[e].refc - 1,
               NEW w \in Refs(e), Refs(e)' = Refs(e) \ {w}
        PROVE  IsFiniteSet(Refs(e)') /\ link'[e].refc = Own(e)' + Cardinality(Refs(e)')
    <2>1. IsFiniteSet(Refs(e)') /\ Cardinality(Refs(e)') = Cardinality(Refs(e)) - 1
      BY <1>1, <1>6, FS_RemoveElement
    <2> QED BY <2>1, <1>1, <1>2, <1>6
  <1> QED BY <1>4, <1>5, <1>6

\* The step closes what it claims, and frees only what is closed.
LEMMA KeepClosed ==
    ASSUME TypeOK, ClosedInv, NEW t \in Threads, NEW k \in Nat, Shape(t, k),
           freed \subseteq freed',
           \A e \in Entities :
              /\ link[e].closing => link'[e].closing
              /\ e \in freed' => e \in freed \/ link'[e].closing
              /\ link'[e].closing => \/ link[e].closing
                                     \/ Is(t, k)' /\ Claims(Fr(t, k)', e)
              /\ Is(t, k) /\ Claims(Fr(t, k), e) =>
                    e \in freed' \/ (Is(t, k)' /\ Claims(Fr(t, k)', e))
    PROVE  ClosedInv'
  <1> HIDE DEF Is, Fr, Claimed
  <1> SUFFICES ASSUME NEW e \in Entities
               PROVE  /\ e \in freed' => link'[e].closing
                      /\ link'[e].closing => e \in freed' \/ Claimed(e)'
    BY DEF ClosedInv
  <1>1. /\ e \in freed => link[e].closing
        /\ link[e].closing => e \in freed \/ Claimed(e)
    BY DEF ClosedInv
  <1>2. /\ Claimed(e) => Claimed(e)' \/ (Is(t, k) /\ Claims(Fr(t, k), e))
        /\ Is(t, k)' /\ Claims(Fr(t, k)', e) => Claimed(e)'
    BY OthersStay
  <1> QED BY <1>1, <1>2

\* Implicit entities have children, or are about to be closed.
LEMMA KeepImplicit ==
    ASSUME TypeOK, ImplicitInv, implicit' = implicit,
           NEW t \in Threads, NEW k \in Nat, Shape(t, k),
           \A e \in Entities :
              /\ link[e].closing => link'[e].closing
              /\ e \in implicit /\ children[e] # {} =>
                    \/ children'[e] # {} \/ link'[e].closing
                    \/ Is(t, k)' /\ Fr(t, k)'.at = "close" /\ Fr(t, k)'.up = e
              /\ Is(t, k) /\ Fr(t, k).at = "close" /\ Fr(t, k).up = e =>
                    \/ link'[e].closing
                    \/ Is(t, k)' /\ Fr(t, k)'.at = "close" /\ Fr(t, k)'.up = e
    PROVE  ImplicitInv'
  <1> HIDE DEF Is, Fr, Taken
  <1> SUFFICES ASSUME NEW e \in implicit
               PROVE  link'[e].closing \/ children'[e] # {} \/ Taken(e)'
    BY DEF ImplicitInv
  <1>1. e \in Entities /\ (link[e].closing \/ children[e] # {} \/ Taken(e))
    BY DEF ImplicitInv, TypeOK
  <1>2. /\ Taken(e) => \/ Taken(e)'
                       \/ Is(t, k) /\ Fr(t, k).at = "close" /\ Fr(t, k).up = e
        /\ Is(t, k)' /\ Fr(t, k)'.at = "close" /\ Fr(t, k)'.up = e => Taken(e)'
    BY <1>1, OthersStay
  <1> QED BY <1>1, <1>2

\* A deletion for a parent begins when that is closed.
LEMMA KeepParent ==
    ASSUME TypeOK, ParentInv, NEW t \in Threads, NEW k \in Nat, Shape(t, k),
           \A e \in Entities : link[e].closing => link'[e].closing,
           Is(t, k)' /\ Fr(t, k)'.why = "parent" =>
              Is(t, k) /\ Fr(t, k).why = "parent" /\ Fr(t, k).of = Fr(t, k)'.of,
           Is(t, k + 1)' /\ Fr(t, k + 1)'.why = "parent" =>
              /\ Parent[Fr(t, k + 1)'.of] \in Entities
              /\ link'[Parent[Fr(t, k + 1)'.of]].closing
    PROVE  ParentInv'
  <1> SUFFICES ASSUME NEW u \in Threads, NEW d \in Nat, Is(u, d)', Fr(u, d)'.why = "parent"
               PROVE  /\ Parent[Fr(u, d)'.of] \in Entities
                      /\ link'[Parent[Fr(u, d)'.of]].closing
    BY DEF ParentInv
  <1>1. CASE u # t \/ d < k BY <1>1, Apart DEF ParentInv
  <1>2. CASE u = t /\ d = k BY <1>2 DEF ParentInv
  <1>3. CASE u = t /\ d = k + 1 BY <1>3
  <1>4. ~(u = t /\ d > k + 1) BY DEF Shape
  <1> QED BY <1>1, <1>2, <1>3, <1>4

\* Deleted topics have writers, or somebody is to drop them.
LEMMA KeepDefer ==
    ASSUME TypeOK, DeferInv, NEW t \in Threads, NEW k \in Nat, Shape(t, k),
           \A e \in Entities :
              /\ link[e].closing => link'[e].closing
              /\ e \in known => e \in known' \/ link'[e].closing
              /\ link'[e].deferred =>
                    \/ link[e].deferred
                    \/ e \in Topics /\ e \in known' /\ Referring(e)' # {}
              /\ link[e].deferred /\ Referring(e) # {} =>
                    Referring(e)' # {} \/ link'[e].closing \/ ToDrop(e)'
              /\ link[e].deferred /\ Is(t, k) /\ Drops(Fr(t, k), e) =>
                    Referring(e)' # {} \/ link'[e].closing \/ ToDrop(e)'
    PROVE  DeferInv'
  <1> HIDE DEF Is, Fr, ToDrop, Referring, Drops
  <1> SUFFICES ASSUME NEW e \in Entities, link'[e].deferred
               PROVE  /\ e \in Topics
                      /\ link'[e].closing \/ e \in known'
                      /\ link'[e].closing \/ Referring(e)' # {} \/ ToDrop(e)'
    BY DEF DeferInv
  <1>1. CASE link[e].deferred BY <1>1, OthersStay DEF DeferInv
  <1>2. CASE ~link[e].deferred BY <1>2
  <1> QED BY <1>1, <1>2

-----------------------------------------------------------------------------
(* Steps at which no reference comes or goes                                *)

Steady == /\ UNCHANGED <<known, children, freed>>
          /\ \A e \in Entities : SameLink(e)

Moves == {<<"creating", "locked">>, <<"locked", "pinned">>, <<"registered", "unpinned">>,
          <<"lock", "closing">>, <<"closing", "enter">>, <<"closing", "parked">>,
          <<"child", "asleep">>}

\* The innermost activation of t goes from its place to p.
Moved(t, k, p) ==
    /\ Shape(t, k) /\ k = Len(stack[t])
    /\ Is(t, k) /\ Fr(t, k) = Cur(t) /\ Cur(t) \in Frames
    /\ Is(t, k)' /\ Fr(t, k)' = [Cur(t) EXCEPT !.at = p]
    /\ ~Is(t, k + 1)'

\* The innermost activation of t ends.
Ended(t, k) ==
    /\ Shape(t, k) /\ k = Len(stack[t])
    /\ Is(t, k) /\ Fr(t, k) = Cur(t) /\ Cur(t) \in Frames
    /\ ~Is(t, k)' /\ ~Is(t, k + 1)'

\* t begins with f.
Begun(t, f) ==
    /\ Shape(t, 1) /\ ~Is(t, 1) /\ ~Is(t, 2)'
    /\ Is(t, 1)' /\ Fr(t, 1)' = f /\ f \in Frames

\* What the innermost activation does.
LEMMA MoveShape ==
    ASSUME TypeOK, NEW t \in Threads, stack[t] # <<>>, NEW p \in Places,
           After(Step(t, p), stack'),
           stack' = Step(t, p) \/ p \notin {"parked", "asleep"}
    PROVE  \E k \in Nat \ {0} : Moved(t, k, p)
  <1> DEFINE g == [Cur(t) EXCEPT !.at = p]
  <1>1. Cur(t) \in Frames
    <2>1. PICK L \in Nat : L = Len(stack[t]) BY DEF TypeOK
    <2> QED BY <2>1, Top
  <1>2. g \in Frames /\ g.at = p BY <1>1 DEF Frames
  <1>3. Step(t, p) = Goto(t, g) BY DEF Step
  <1> HIDE DEF g
  <1>4. \E k \in Nat \ {0} :
              /\ Shape(t, k) /\ k = Len(stack[t])
              /\ Is(t, k) /\ Fr(t, k) = Cur(t)
              /\ Is(t, k)' /\ Fr(t, k)' = g
              /\ ~Is(t, k + 1)'
    BY <1>2, <1>3, Goes
  <1> QED BY <1>1, <1>4 DEF Moved, g

\* It ends.
LEMMA EndShape ==
    ASSUME TypeOK, NEW t \in Threads, stack[t] # <<>>, After(Pop(t), stack')
    PROVE  \E k \in Nat \ {0} : Ended(t, k)
  <1>1. Cur(t) \in Frames
    <2>1. PICK L \in Nat : L = Len(stack[t]) BY DEF TypeOK
    <2> QED BY <2>1, Top
  <1>2. \E k \in Nat \ {0} :
              /\ Shape(t, k) /\ k = Len(stack[t])
              /\ Is(t, k) /\ Fr(t, k) = Cur(t)
              /\ ~Is(t, k)' /\ ~Is(t, k + 1)'
    BY Ends
  <1> QED BY <1>1, <1>2 DEF Ended

\* An entity is unpinned, maybe after somebody was woken up.
LEMMA UnpinShape ==
    ASSUME TypeOK, NEW e, NEW s, NEW r, Unpin(e, r),
           r = s \/ \E p : r = Woken(s, p)
    PROVE  After(s, stack') /\ \A d \in Entities : SameLink(d)
  <1>1. stack' = Unparked(r) \/ stack' = r BY DEF Unpin
  <1>2. After(s, stack') BY <1>1 DEF After
  <1>3. link \in [Entities -> LinkType] BY DEF TypeOK
  <1>4. link' = [link EXCEPT ![e].pin = link[e].pin - 1] BY DEF Unpin
  <1>5. CASE e \in Entities
    <2>1. link[e].pin - 1 \in Int BY <1>3, <1>5 DEF LinkType
    <2> QED BY <1>2, <1>3, <1>4, <2>1, PinFields
  <1>6. CASE e \notin Entities BY <1>3, <1>4, <1>6, <1>2 DEF SameLink
  <1> QED BY <1>5, <1>6

\* The actions that only move an activation.
LEMMA QuietMoves ==
    ASSUME IInv, NEW t \in Threads,
           \/ CreateLocks(t) \/ CreateUnpinsTopic(t)
           \/ CreatePinsTopic(t) /\ Open(TopicOf[Cur(t).of])
           \/ LockAndInterrupt(t) \/ CloseWait(t) \/ WaitForChild(t)
    PROVE  /\ Steady /\ ret' = ret
           /\ \E k \in Nat \ {0}, p \in Places :
                 Moved(t, k, p) /\ <<Cur(t).at, p>> \in Moves
  <1> USE DEF Places, Creating, Waiting, Alone
  <1>0. TypeOK /\ link \in [Entities -> LinkType] BY DEF IInv, Inv1, TypeOK
  <1>1. ASSUME link' = link PROVE \A e \in Entities : SameLink(e) BY <1>1 DEF SameLink
  <1>2. CASE CreateLocks(t)
    BY <1>2, <1>0, <1>1, MoveShape DEF CreateLocks, At, Cur, After, Steady, Moves
  <1>3. CASE CreateUnpinsTopic(t)
    BY <1>3, <1>0, UnpinShape, MoveShape DEF CreateUnpinsTopic, At, Cur, Steady, Moves
  <1>4. CASE CreatePinsTopic(t) /\ Open(TopicOf[Cur(t).of])
    <2>1. /\ stack[t] # <<>> /\ Cur(t).at = "locked" /\ stack' = Step(t, "pinned")
          /\ link' = Pinned(TopicOf[Cur(t).of])
          /\ UNCHANGED <<known, children, freed, ret>>
      BY <1>4 DEF CreatePinsTopic, At, Cur
    <2>2. After(Step(t, "pinned"), stack') BY <2>1 DEF After
    <2>3. \E k \in Nat \ {0} : Moved(t, k, "pinned") BY <1>0, <2>1, <2>2, MoveShape
    <2>4. \A e \in Entities : SameLink(e)
      <3>1. 0 \in Int OBVIOUS
      <3> QED BY <1>0, <2>1, <3>1, PinFields
    <2> QED BY <2>1, <2>3, <2>4 DEF Steady, Moves
  <1>5. CASE LockAndInterrupt(t)
    BY <1>5, <1>0, <1>1, MoveShape DEF LockAndInterrupt, At, Cur, After, Steady, Moves
  <1>6. CASE CloseWait(t)
    <2>1. PICK p \in {"enter", "parked"} : stack' = Step(t, p) BY <1>6 DEF CloseWait
    <2>2. stack[t] # <<>> /\ Cur(t).at = "closing"
          /\ UNCHANGED <<link, known, children, freed, ret>>
      BY <1>6 DEF CloseWait, At, Cur
    <2>3. After(Step(t, p), stack') BY <2>1 DEF After
    <2>4. \E k \in Nat \ {0} : Moved(t, k, p) BY <1>0, <2>1, <2>2, <2>3, MoveShape
    <2> QED BY <1>1, <2>1, <2>2, <2>4 DEF Steady, Moves
  <1>7. CASE WaitForChild(t)
    BY <1>7, <1>0, <1>1, MoveShape DEF WaitForChild, At, Cur, After, Steady, Moves
  <1> QED BY <1>2, <1>3, <1>4, <1>5, <1>6, <1>7

\* The actions that only end an activation.
LEMMA QuietEnds ==
    ASSUME IInv, NEW t \in Threads,
           \/ EndUse(t) \/ CreateEnds(t) \/ DeleteRefused(t)
           \/ CreatePinsTopic(t) /\ ~Open(TopicOf[Cur(t).of])
    PROVE  /\ Steady
           /\ ret' = ret \/ DeleteRefused(t)
           /\ Cur(t).at \in {"use", "unpinned", "locked"} \/ DeleteRefused(t)
           /\ \E k \in Nat \ {0} : Ended(t, k)
  <1>0. TypeOK /\ link \in [Entities -> LinkType] BY DEF IInv, Inv1, TypeOK
  <1>1. CASE EndUse(t) \/ CreateEnds(t) \/ (CreatePinsTopic(t) /\ ~Open(TopicOf[Cur(t).of]))
    <2>1. PICK e : Unpin(e, Pop(t)) BY <1>1 DEF EndUse, CreateEnds, CreatePinsTopic
    <2>2. /\ stack[t] # <<>> /\ Cur(t).at \in {"use", "unpinned", "locked"}
          /\ UNCHANGED <<known, children, freed, ret>>
      BY <1>1 DEF EndUse, CreateEnds, CreatePinsTopic, At, Cur
    <2>3. After(Pop(t), stack') /\ \A d \in Entities : SameLink(d)
      BY <1>0, <2>1, UnpinShape
    <2>4. \E k \in Nat \ {0} : Ended(t, k) BY <1>0, <2>2, <2>3, EndShape
    <2> QED BY <2>2, <2>3, <2>4 DEF Steady
  <1>2. CASE DeleteRefused(t)
    BY <1>2, <1>0, EndShape DEF DeleteRefused, At, After, Steady, SameLink
  <1> QED BY <1>1, <1>2

\* The application's calls.
LEMMA QuietStarts ==
    ASSUME IInv, NEW t \in Threads, NEW e \in Entities,
           StartDelete(t, e) \/ StartUse(t, e) \/ StartCreate(t, e)
    PROVE  /\ Steady /\ ret' = ret
           /\ \E f : /\ Begun(t, f)
                     /\ f \in {Frame(e, "user", "pin"), Frame(e, "other", "use"),
                               Frame(e, "other", "creating")}
  <1>0. TypeOK /\ link \in [Entities -> LinkType] /\ 0 \in Int BY DEF IInv, Inv1, TypeOK
  <1>1. /\ Frame(e, "user", "pin") \in Frames
        /\ Frame(e, "other", "use") \in Frames
        /\ Frame(e, "other", "creating") \in Frames
    BY DEF Frame, Frames, Reasons, Places, Creating
  <1>2. ASSUME NEW f \in Frames, stack[t] = <<>>, stack' = Push(t, f) PROVE Begun(t, f)
    BY <1>0, <1>2, Begins DEF Begun
  <1>3. CASE StartDelete(t, e) BY <1>3, <1>1, <1>2 DEF StartDelete, Steady, SameLink
  <1>4. CASE StartUse(t, e) BY <1>4, <1>0, <1>1, <1>2, PinFields DEF StartUse, Steady
  <1>5. CASE StartCreate(t, e)
    BY <1>5, <1>0, <1>1, <1>2, PinFields DEF StartCreate, Steady
  <1> QED BY <1>3, <1>4, <1>5

\* The next pass, or none.
NextPass(f) == IF f.pass = 1 THEN [f EXCEPT !.at = "enter", !.pass = 2, !.cursor = None]
                             ELSE [f EXCEPT !.at = "handle"]

\* No child remains to be deleted in this pass.
LEMMA DoneShape ==
    ASSUME IInv, NEW t \in Threads, ChildrenDone(t)
    PROVE  /\ Steady /\ ret' = ret /\ GoesOn(t) /\ Remaining(Cur(t)) = {}
           /\ NextPass(Cur(t)) \in Frames /\ Cur(t).at \in {"enter", "awake", "child"}
           /\ \E k \in Nat \ {0} :
                 /\ Shape(t, k) /\ k = Len(stack[t])
                 /\ Is(t, k) /\ Fr(t, k) = Cur(t) /\ Cur(t) \in Frames
                 /\ Is(t, k)' /\ Fr(t, k)' = NextPass(Cur(t))
                 /\ ~Is(t, k + 1)'
  <1>0. TypeOK BY DEF IInv, Inv1
  <1>1. /\ stack[t] # <<>> /\ stack' = Goto(t, NextPass(Cur(t)))
        /\ UNCHANGED <<link, known, children, freed, ret>>
        /\ GoesOn(t) /\ Remaining(Cur(t)) = {}
        /\ Cur(t).at \in {"enter", "awake", "child"}
    BY DEF ChildrenDone, GoesOn, At, Cur, NextPass
  <1>2. Cur(t) \in Frames
    <2>1. PICK L \in Nat : L = Len(stack[t]) BY <1>0 DEF TypeOK
    <2> QED BY <1>0, <1>1, <2>1, Top
  <1>3. NextPass(Cur(t)) \in Frames BY <1>2 DEF Places, Alone, Frames, NextPass
  <1> DEFINE g == NextPass(Cur(t))
  <1>4. After(Goto(t, g), stack') /\ stack' = Goto(t, g) BY <1>1 DEF After
  <1>5. g \in Frames BY <1>3
  <1> HIDE DEF g
  <1>6. \E k \in Nat \ {0} :
              /\ Shape(t, k) /\ k = Len(stack[t])
              /\ Is(t, k) /\ Fr(t, k) = Cur(t)
              /\ Is(t, k)' /\ Fr(t, k)' = g
              /\ ~Is(t, k + 1)'
    BY <1>0, <1>1, <1>4, <1>5, Goes
  <1> QED BY <1>1, <1>2, <1>3, <1>6 DEF Steady, SameLink, g

\* A child is deleted.
LEMMA ChildShape ==
    ASSUME IInv, NEW t \in Threads, DeleteChild(t)
    PROVE  /\ Steady /\ ret' = ret /\ GoesOn(t)
           /\ Cur(t).at \in {"enter", "awake", "child"}
           /\ \E k \in Nat \ {0} : \E c \in Remaining(Cur(t)) :
                 /\ \A d \in Remaining(Cur(t)) : Iid[c] <= Iid[d]
                 /\ Shape(t, k) /\ k = Len(stack[t])
                 /\ Is(t, k) /\ Fr(t, k) = Cur(t) /\ Cur(t) \in Frames
                 /\ Is(t, k)' /\ Fr(t, k)' = [Cur(t) EXCEPT !.at = "child", !.cursor = c]
                 /\ Is(t, k + 1)' /\ Fr(t, k + 1)' = Frame(c, "parent", "pin")
                 /\ c \in Entities
  <1>0. TypeOK BY DEF IInv, Inv1
  <1>1. /\ stack[t] # <<>> /\ GoesOn(t)
        /\ UNCHANGED <<link, known, children, freed, ret>>
        /\ Cur(t).at \in {"enter", "awake", "child"}
    BY DEF DeleteChild, GoesOn, At, Cur
  <1>2. PICK c \in Remaining(Cur(t)) :
           /\ \A d \in Remaining(Cur(t)) : Iid[c] <= Iid[d]
           /\ stack' = [stack EXCEPT ![t] =
                <<Frame(c, "parent", "pin"),
                  [Cur(t) EXCEPT !.at = "child", !.cursor = c]>> \o Tail(@)]
    BY DEF DeleteChild
  <1>3. Cur(t) \in Frames
    <2>1. PICK L \in Nat : L = Len(stack[t]) BY <1>0 DEF TypeOK
    <2> QED BY <1>0, <1>1, <2>1, Top
  <1>4. c \in Entities BY <1>3, <1>0, <1>2 DEF Frames, Remaining, TypeOK
  <1> DEFINE f == Frame(c, "parent", "pin")
             g == [Cur(t) EXCEPT !.at = "child", !.cursor = c]
  <1>5. f \in Frames /\ f.at = "pin" /\ g \in Frames /\ g.at = "child"
    BY <1>3, <1>4 DEF Frames, Frame, Places, Reasons, Alone
  <1>6. After([stack EXCEPT ![t] = <<f, g>> \o Tail(@)], stack') BY <1>2 DEF After
  <1> HIDE DEF f, g
  <1>7. \E k \in Nat \ {0} :
              /\ Shape(t, k) /\ k = Len(stack[t])
              /\ Is(t, k) /\ Fr(t, k) = Cur(t)
              /\ Is(t, k)' /\ Fr(t, k)' = g
              /\ Is(t, k + 1)' /\ Fr(t, k + 1)' = f
    BY <1>0, <1>1, <1>5, <1>6, Calls
  <1>8. Steady BY <1>1 DEF Steady, SameLink
  <1> QED BY <1>1, <1>2, <1>3, <1>4, <1>7, <1>8 DEF f, g

-----------------------------------------------------------------------------
(* Steps at which references come or go                                     *)

\* Steps that take an activation to another place, and nothing else with it.
LEMMA MarkMoves ==
    ASSUME IInv, NEW t \in Threads
    PROVE  /\ CreateRefersTopic(t) =>
                 Cur(t).at = "pinned" /\ \E k \in Nat \ {0} : Moved(t, k, "referred")
           /\ CreateRegisters(t) =>
                 Cur(t).at = "referred" /\ \E k \in Nat \ {0} : Moved(t, k, "registered")
           /\ PinForDelete(t) =>
                 Cur(t).at = "pin" /\ \E k \in Nat \ {0} : Moved(t, k, "lock")
           /\ DeleteHandle(t) =>
                 /\ Cur(t).at = "handle"
                 /\ \E k \in Nat \ {0} :
                       Moved(t, k, IF Parent[Cur(t).of] = None THEN "derive" ELSE "unlink")
           /\ CloseParent(t) =>
                 Cur(t).at = "close" /\ \E k \in Nat \ {0} : Moved(t, k, "derive")
           /\ DeleteDeferred(t) =>
                 Cur(t).at = "pin" /\ \E k \in Nat \ {0} : Ended(t, k)
  <1> USE DEF Places, Creating, Waiting, Leaving
  <1>0. TypeOK BY DEF IInv, Inv1
  <1>1. ASSUME NEW p \in Places \ {"parked", "asleep"}, stack[t] # <<>>,
               After(Step(t, p), stack')
        PROVE  \E k \in Nat \ {0} : Moved(t, k, p)
    BY <1>0, <1>1, MoveShape
  <1>2. ASSUME CreateRefersTopic(t)
        PROVE  Cur(t).at = "pinned" /\ \E k \in Nat \ {0} : Moved(t, k, "referred")
    BY <1>2, <1>1 DEF CreateRefersTopic, At, Cur, After
  <1>3. ASSUME CreateRegisters(t)
        PROVE  Cur(t).at = "referred" /\ \E k \in Nat \ {0} : Moved(t, k, "registered")
    BY <1>3, <1>1 DEF CreateRegisters, At, Cur, After
  <1>4. ASSUME PinForDelete(t)
        PROVE  Cur(t).at = "pin" /\ \E k \in Nat \ {0} : Moved(t, k, "lock")
    BY <1>4, <1>1 DEF PinForDelete, At, Cur, After
  <1>5. ASSUME DeleteHandle(t)
        PROVE  /\ Cur(t).at = "handle"
               /\ \E k \in Nat \ {0} :
                     Moved(t, k, IF Parent[Cur(t).of] = None THEN "derive" ELSE "unlink")
    <2> DEFINE p == IF Parent[Cur(t).of] = None THEN "derive" ELSE "unlink"
    <2>1. stack[t] # <<>> /\ Cur(t).at = "handle" /\ stack' = Step(t, p)
      BY <1>5 DEF DeleteHandle, At, Cur
    <2>2. p \in Places \ {"parked", "asleep"} OBVIOUS
    <2> HIDE DEF p
    <2>3. After(Step(t, p), stack') BY <2>1 DEF After
    <2>4. \E k \in Nat \ {0} : Moved(t, k, p) BY <1>1, <2>1, <2>2, <2>3
    <2> QED BY <2>1, <2>4 DEF p
  <1>6. ASSUME CloseParent(t)
        PROVE  Cur(t).at = "close" /\ \E k \in Nat \ {0} : Moved(t, k, "derive")
    BY <1>6, <1>1 DEF CloseParent, At, Cur, After
  <1>7. ASSUME DeleteDeferred(t)
        PROVE  Cur(t).at = "pin" /\ \E k \in Nat \ {0} : Ended(t, k)
    BY <1>7, <1>0, EndShape DEF DeleteDeferred, At, Cur, After
  <1> QED BY <1>2, <1>3, <1>4, <1>5, <1>6, <1>7

\* The child takes its parent along.
TakenUp(t, k) ==
    /\ Shape(t, k) /\ k = Len(stack[t])
    /\ Is(t, k) /\ Fr(t, k) = Cur(t) /\ Cur(t) \in Frames
    /\ Is(t, k)' /\ ~Is(t, k + 1)'
    /\ Fr(t, k)' = [Cur(t) EXCEPT !.at = "close", !.up = Parent[Cur(t).of]]

\* The child leaves its parent.
LEMMA UnlinkShape ==
    ASSUME IInv, NEW t \in Threads, Unlink(t)
    PROVE  LET p == Parent[Cur(t).of] IN
           /\ Cur(t).at = "unlink" /\ Free(p)
           /\ children' = [children EXCEPT ![p] = @ \ {Cur(t).of}]
           /\ UNCHANGED <<known, freed, ret>>
           /\ \/ /\ TakesParent(Cur(t), p)
                 /\ link' = [link EXCEPT ![p].refc = @ - 1, ![p].pin = @ + 1]
                 /\ \E k \in Nat \ {0} : TakenUp(t, k)
              \/ /\ ~TakesParent(Cur(t), p)
                 /\ link' = [link EXCEPT ![p].refc = @ - 1]
                 /\ \E k \in Nat \ {0} : Moved(t, k, "derive")
  <1> DEFINE p == Parent[Cur(t).of]
             g == [Cur(t) EXCEPT !.at = "close", !.up = p]
  <1>0. TypeOK BY DEF IInv, Inv1
  <1>1. /\ stack[t] # <<>> /\ Cur(t).at = "unlink" /\ Free(p)
        /\ children' = [children EXCEPT ![p] = @ \ {Cur(t).of}]
        /\ UNCHANGED <<known, freed, ret>>
        /\ \/ /\ TakesParent(Cur(t), p)
              /\ link' = [link EXCEPT ![p].refc = @ - 1, ![p].pin = @ + 1]
              /\ stack' = Goto(t, g)
           \/ /\ ~TakesParent(Cur(t), p)
              /\ link' = [link EXCEPT ![p].refc = @ - 1]
              /\ stack' = Woken(Step(t, "derive"), p)
    BY DEF Unlink, At, Cur
  <1>2. Cur(t) \in Frames
    <2>1. PICK L \in Nat : L = Len(stack[t]) BY <1>0 DEF TypeOK
    <2> QED BY <1>0, <1>1, <2>1, Top
  <1>3. ASSUME stack' = Goto(t, g) PROVE \E k \in Nat \ {0} : TakenUp(t, k)
    <2>1. p \in Entities \union {None} BY <1>2, EntityAssumption DEF Frames
    <2>2. g \in Frames BY <1>2, <2>1 DEF Frames, Places, Leaving
    <2>3. After(Goto(t, g), stack') /\ stack' = Goto(t, g) BY <1>3 DEF After
    <2> HIDE DEF g
    <2>4. \E k \in Nat \ {0} :
              /\ Shape(t, k) /\ k = Len(stack[t])
              /\ Is(t, k) /\ Fr(t, k) = Cur(t)
              /\ Is(t, k)' /\ Fr(t, k)' = g
              /\ ~Is(t, k + 1)'
      BY <1>0, <1>1, <2>2, <2>3, Goes
    <2> QED BY <1>2, <2>4 DEF TakenUp, g
  <1>4. ASSUME stack' = Woken(Step(t, "derive"), p)
        PROVE  \E k \in Nat \ {0} : Moved(t, k, "derive")
    BY <1>4, <1>0, <1>1, MoveShape DEF After, Places, Leaving
  <1> QED BY <1>1, <1>3, <1>4

\* The last writer begins to delete the topic.
Dropped(t, k, x) ==
    /\ Shape(t, k) /\ k = Len(stack[t])
    /\ Is(t, k) /\ Fr(t, k) = Cur(t) /\ Cur(t) \in Frames
    /\ Is(t, k)' /\ Fr(t, k)' = [Cur(t) EXCEPT !.at = "derived"]
    /\ Is(t, k + 1)' /\ Fr(t, k + 1)' = Frame(x, "ref", "pin")

\* The writer drops the topic.
LEMMA DeriveShape ==
    ASSUME IInv, NEW t \in Threads, Derive(t)
    PROVE  LET x == TopicOf[Cur(t).of] IN
           /\ Cur(t).at = "derive" /\ ret' = [ret EXCEPT ![t] = "ok"]
           /\ UNCHANGED <<known, children, freed>>
           /\ \/ /\ x = None /\ link' = link
                 /\ \E k \in Nat \ {0} : Moved(t, k, "derived")
              \/ /\ x # None /\ x \in Topics /\ link' = [link EXCEPT ![x].refc = @ - 1]
                 /\ \/ /\ link[x].refc = 1
                       /\ \E k \in Nat \ {0} : Dropped(t, k, x)
                    \/ /\ link[x].refc # 1
                       /\ \E k \in Nat \ {0} : Moved(t, k, "derived")
  <1> DEFINE x == TopicOf[Cur(t).of]
             g == [Cur(t) EXCEPT !.at = "derived"]
             s == [stack EXCEPT ![t] =
                         (IF link[x].refc = 1 THEN <<Frame(x, "ref", "pin")>>
                          ELSE <<>>) \o <<g>> \o Tail(@)]
  <1>0. TypeOK /\ "derived" \in Places BY DEF IInv, Inv1, Places, Leaving
  <1>1. /\ stack[t] # <<>> /\ Cur(t).at = "derive"
        /\ ret' = [ret EXCEPT ![t] = "ok"]
        /\ UNCHANGED <<known, children, freed>>
        /\ \/ x = None /\ stack' = Step(t, "derived") /\ link' = link
           \/ /\ x # None /\ link' = [link EXCEPT ![x].refc = @ - 1]
              /\ stack' = Unparked(s) \/ stack' = s
    BY DEF Derive, At, Cur
  <1>2. /\ Cur(t) \in Frames /\ stack[t] \in Seq(Frames)
        /\ Tail(stack[t]) \in Seq(Frames) /\ stack \in [Threads -> Seq(Frames)]
    <2>1. PICK L \in Nat : L = Len(stack[t]) BY <1>0 DEF TypeOK
    <2> HIDE DEF x, g, s
    <2>2. /\ Cur(t) \in Frames /\ stack[t] \in Seq(Frames)
          /\ stack \in [Threads -> Seq(Frames)]
      BY <1>0, <1>1, <2>1, Top
    <2>3. Tail(stack[t]) \in Seq(Frames) BY <1>1, <2>2
    <2> QED BY <2>2, <2>3
  <1>3. g \in Frames /\ g.at = "derived" BY <1>0, <1>2 DEF Frames
  <1>4. x # None => x \in Topics /\ x \in Entities BY <1>2, EntityAssumption DEF Frames
  <1>5. CASE x = None BY <1>1, <1>5, <1>0, MoveShape DEF After
  <1>6. CASE x # None /\ link[x].refc # 1
    <2>1. s = Step(t, "derived") BY <1>2, <1>3, <1>6 DEF Step, Goto
    <2> HIDE DEF s
    <2>2. After(Step(t, "derived"), stack') BY <1>1, <1>6, <2>1 DEF After
    <2>3. \E k \in Nat \ {0} : Moved(t, k, "derived") BY <1>0, <1>1, <2>2, MoveShape
    <2> QED BY <1>1, <1>4, <1>6, <2>3
  <1>7. CASE x # None /\ link[x].refc = 1
    <2> DEFINE f == Frame(x, "ref", "pin")
    <2>1. f \in Frames /\ f.at = "pin" BY <1>4, <1>7 DEF Frame, Frames, Places, Reasons
    <2>2. s = [stack EXCEPT ![t] = <<f, g>> \o Tail(@)]
      BY <1>2, <1>3, <2>1, <1>7, TwoJoined
    <2> HIDE DEF f, g, s
    <2>3. After([stack EXCEPT ![t] = <<f, g>> \o Tail(@)], stack')
      BY <1>1, <1>7, <2>2 DEF After
    <2>4. \E k \in Nat \ {0} :
              /\ Shape(t, k) /\ k = Len(stack[t])
              /\ Is(t, k) /\ Fr(t, k) = Cur(t)
              /\ Is(t, k)' /\ Fr(t, k)' = g
              /\ Is(t, k + 1)' /\ Fr(t, k + 1)' = f
      BY <1>0, <1>1, <1>3, <2>1, <2>3, Calls
    <2>5. \E k \in Nat \ {0} : Dropped(t, k, x) BY <1>2, <2>4 DEF Dropped, f, g
    <2> QED BY <1>1, <1>4, <1>7, <2>5
  <1> QED BY <1>5, <1>6, <1>7

\* An implicit parent is deleted next.
Risen(t, k) ==
    /\ Shape(t, k) /\ k = Len(stack[t])
    /\ Is(t, k) /\ Fr(t, k) = Cur(t) /\ Cur(t) \in Frames
    /\ Is(t, k)' /\ ~Is(t, k + 1)'
    /\ Fr(t, k)' = Frame(Cur(t).up, "implicit", "lock")

\* The memory is released.
LEMMA FreeShape ==
    ASSUME IInv, NEW t \in Threads, FreeEntity(t)
    PROVE  /\ Cur(t).at = "derived" /\ freed' = freed \union {Cur(t).of}
           /\ UNCHANGED <<link, known, children>> /\ ret' = [ret EXCEPT ![t] = "ok"]
           /\ \/ Cur(t).up = None /\ \E k \in Nat \ {0} : Ended(t, k)
              \/ Cur(t).up # None /\ \E k \in Nat \ {0} : Risen(t, k)
  <1> DEFINE g == Frame(Cur(t).up, "implicit", "lock")
  <1>0. TypeOK BY DEF IInv, Inv1
  <1>1. /\ stack[t] # <<>> /\ Cur(t).at = "derived" /\ freed' = freed \union {Cur(t).of}
        /\ UNCHANGED <<link, known, children>> /\ ret' = [ret EXCEPT ![t] = "ok"]
        /\ stack' = IF Cur(t).up = None THEN Pop(t) ELSE Goto(t, g)
    BY DEF FreeEntity, At, Cur
  <1>2. Cur(t) \in Frames
    <2>1. PICK L \in Nat : L = Len(stack[t]) BY <1>0 DEF TypeOK
    <2> QED BY <1>0, <1>1, <2>1, Top
  <1>3. CASE Cur(t).up = None BY <1>1, <1>3, <1>0, EndShape DEF After
  <1>4. CASE Cur(t).up # None
    <2>1. g \in Frames /\ g.at = "lock"
      BY <1>2, <1>4 DEF Frame, Frames, Places, Reasons, Waiting
    <2> HIDE DEF g
    <2>2. After(Goto(t, g), stack') BY <1>1, <1>4 DEF After
    <2>3. \E k \in Nat \ {0} :
              /\ Shape(t, k) /\ k = Len(stack[t])
              /\ Is(t, k) /\ Fr(t, k) = Cur(t)
              /\ Is(t, k)' /\ Fr(t, k)' = g
              /\ ~Is(t, k + 1)'
      BY <1>0, <1>1, <2>1, <2>2, Goes
    <2>4. \E k \in Nat \ {0} : Risen(t, k) BY <1>2, <2>3 DEF Risen, g
    <2> QED BY <1>1, <1>4, <2>4
  <1> QED BY <1>3, <1>4

-----------------------------------------------------------------------------
(* The references and their counts stay right: steps at which none comes or *)
(* goes                                                                     *)

\* The step's own activation is not at a place that counts before, nor after.
LEMMA SameLinks ==
    ASSUME TypeOK, NEW t \in Threads, NEW k \in Nat, Shape(t, k), known' = known,
           Is(t, k) => Fr(t, k).at \notin TopicPlaces,
           Is(t, k)' => Fr(t, k)'.at \notin TopicPlaces
    PROVE  \A w \in Entities : (Linked(w)' <=> Linked(w)) /\ (Refers(w)' <=> Refers(w))
  <1> SUFFICES ASSUME NEW w \in Entities
               PROVE  (Linked(w)' <=> Linked(w)) /\ (Refers(w)' <=> Refers(w))
    OBVIOUS
  <1> DEFINE U == {"unlink"}
  <1>1. /\ U \subseteq TopicPlaces
        /\ U \intersect {"parked", "closing", "asleep", "awake", "pin"} = {}
        /\ TopicPlaces \intersect {"parked", "closing", "asleep", "awake", "pin"} = {}
    BY DEF TopicPlaces
  <1>2. Linked(w)' <=> (w \in known' \/ InAt(w, U)') BY DEF Linked, InAt
  <1>3. Linked(w) <=> (w \in known \/ InAt(w, U)) BY DEF Linked
  <1>4. Refers(w)' <=> (w \in known' \/ InAt(w, TopicPlaces)') BY DEF Refers, InAt
  <1>5. Refers(w) <=> (w \in known \/ InAt(w, TopicPlaces)) BY DEF Refers
  <1> HIDE DEF U, Is, Fr, InAt, TopicPlaces, Linked, Refers
  <1>6. InAt(w, U)' <=> InAt(w, U) BY <1>1, SameInAt
  <1>7. InAt(w, TopicPlaces)' <=> InAt(w, TopicPlaces) BY <1>1, SameInAt
  <1> QED BY <1>2, <1>3, <1>4, <1>5, <1>6, <1>7

\* Nobody becomes or ceases to be a child.
LEMMA SameChildren ==
    ASSUME ChildrenInv, children' = children,
           \A c \in Entities : Linked(c)' <=> Linked(c)
    PROVE  ChildrenInv'
  <1>1. ChildrenInv' <=> \A c \in Entities : Parent[c] # None =>
                            (c \in children'[Parent[c]] <=> Linked(c)')
    BY DEF ChildrenInv, Linked, InAt
  <1> HIDE DEF Linked
  <1> QED BY <1>1 DEF ChildrenInv

\* A step that only moves, puts up or ends activations.
LEMMA Quiet ==
    ASSUME IInv, TypeOK', RInv, implicit' = implicit, Steady,
           NEW t \in Threads, NEW k \in Nat, Shape(t, k),
           Is(t, k) => Fr(t, k).at \notin TopicPlaces,
           Is(t, k)' => Fr(t, k)'.at \notin TopicPlaces,
           \A e \in Entities : Is(t, k) /\ Claims(Fr(t, k), e) =>
              Is(t, k)' /\ Claims(Fr(t, k)', e),
           Is(t, k)' /\ Fr(t, k)'.why = "parent" =>
              Is(t, k) /\ Fr(t, k).why = "parent" /\ Fr(t, k).of = Fr(t, k)'.of,
           Is(t, k + 1)' /\ Fr(t, k + 1)'.why = "parent" =>
              /\ Parent[Fr(t, k + 1)'.of] \in Entities
              /\ link[Parent[Fr(t, k + 1)'.of]].closing,
           \A e \in Entities : link[e].deferred /\ Is(t, k) /\ Drops(Fr(t, k), e) =>
              Referring(e) # {} \/ link[e].closing
    PROVE  RInv'
  <1>0. /\ TypeOK /\ ChildrenInv /\ RefcInv /\ ClosedInv
        /\ ImplicitInv /\ ParentInv /\ DeferInv
        /\ known' = known /\ children' = children /\ freed' = freed
        /\ \A e \in Entities : SameLink(e)
        /\ link' \in [Entities -> LinkType]
    BY DEF IInv, Inv1, RInv, Steady, TypeOK
  <1> HIDE DEF Is, Fr, Shape, Drops, ChildrenInv, RefcInv, ClosedInv,
               ImplicitInv, ParentInv, DeferInv
  <1>1. \A w \in Entities : (Linked(w)' <=> Linked(w)) /\ (Refers(w)' <=> Refers(w))
    BY <1>0, SameLinks
  <1>2. ChildrenInv'
    <2> HIDE DEF Linked
    <2> QED BY <1>0, <1>1, SameChildren
  <1>3. \A e \in Entities : Referring(e)' = Referring(e) /\ Refs(e)' = Refs(e)
    <2> HIDE DEF Refers, Referring, Refs
    <2> QED BY <1>0, <1>1, SameReferring
  <1>4. \A e \in Entities : /\ link'[e].closing = link[e].closing
                            /\ link'[e].deferred = link[e].deferred
                            /\ link'[e].refc = link[e].refc
    BY <1>0 DEF SameLink
  <1>5. RefcInv'
    <2>1. \A e \in Entities : Own(e)' = Own(e) BY <1>4 DEF Own
    <2>2. \A e \in Entities \ freed' :
              /\ Refs(e)' = Refs(e)
              /\ link'[e].refc - Own(e)' = link[e].refc - Own(e)
      BY <2>1, <1>3, <1>4
    <2> HIDE DEF Own, Refs
    <2> QED BY <1>0, <2>2, KeepRefc
  <1>6. ClosedInv' BY <1>0, <1>4, KeepClosed
  <1>7. "close" \in TopicPlaces BY DEF TopicPlaces
  <1>8. ImplicitInv' BY <1>0, <1>4, <1>7, KeepImplicit
  <1>9. ParentInv' BY <1>4, <1>0, KeepParent
  <1>10. DeferInv'
    <2> HIDE DEF Referring, ToDrop
    <2> QED BY <1>0, <1>3, <1>4, KeepDefer
  <1> QED BY <1>2, <1>5, <1>6, <1>8, <1>9, <1>10 DEF RInv

\* A refused deletion of a topic on behalf of its last writer is no loss: others
\* refer to it again, or somebody else deletes it.
LEMMA RefusedDrop ==
    ASSUME IInv, RInv, NEW t \in Threads, DeleteRefused(t),
           NEW e \in Entities, link[e].deferred, Cur(t).of = e
    PROVE  Referring(e) # {} \/ link[e].closing
  <1> SUFFICES ASSUME ~link[e].closing PROVE Referring(e) # {}
    OBVIOUS
  <1>1. e \in Topics /\ e \in known BY DEF RInv, DeferInv
  <1>2. link[e].refc > 0 BY <1>1 DEF DeleteRefused, Open
  <1>3. e \notin freed BY <1>1 DEF IInv, Inv2, GoneInv
  <1>4. IsFiniteSet(Refs(e)) /\ link[e].refc = Own(e) + Cardinality(Refs(e))
    BY <1>3 DEF RInv, RefcInv
  <1>5. Own(e) = 0 BY DEF Own
  <1>6. Cardinality(Refs(e)) \in Nat BY <1>4, FS_CardinalityType
  <1> HIDE DEF Refs
  <1>7. Refs(e) # {} BY <1>2, <1>4, <1>5, <1>6, FS_EmptySet
  <1>8. children[e] = {} BY <1>1, EntityAssumption DEF IInv, Inv1, TypeOK, ChildInv
  <1> QED BY <1>7, <1>8 DEF Refs

\* The application's calls, pins and locks, and the visits to the children change
\* no reference.
LEMMA QuietKeeps ==
    ASSUME IInv, IInv', RInv, implicit' = implicit, NEW t \in Threads,
           \/ \E e \in Entities : StartDelete(t, e) \/ StartUse(t, e) \/ StartCreate(t, e)
           \/ EndUse(t) \/ CreateLocks(t) \/ CreatePinsTopic(t)
           \/ CreateUnpinsTopic(t) \/ CreateEnds(t) \/ DeleteRefused(t)
           \/ LockAndInterrupt(t) \/ CloseWait(t) \/ WaitForChild(t)
           \/ DeleteChild(t) \/ ChildrenDone(t)
    PROVE  RInv'
  <1>0. TypeOK /\ TypeOK' BY DEF IInv, Inv1
  <1> USE DEF TopicPlaces, Waiting, Alone, Leaving
  <1>1. ASSUME NEW e \in Entities, StartDelete(t, e) \/ StartUse(t, e) \/ StartCreate(t, e)
        PROVE  RInv'
    <2>1. PICK f : /\ Begun(t, f)
                   /\ f \in {Frame(e, "user", "pin"), Frame(e, "other", "use"),
                             Frame(e, "other", "creating")}
      BY <1>1, QuietStarts
    <2>2. Steady BY <1>1, QuietStarts
    <2>3. /\ Shape(t, 1) /\ ~Is(t, 1) /\ ~Is(t, 2)' /\ Is(t, 1)' /\ Fr(t, 1)' = f
      BY <2>1 DEF Begun
    <2>4. f.at \notin TopicPlaces /\ f.why # "parent" BY <2>1 DEF Frame
    <2> HIDE DEF Is, Fr
    <2>5. 1 \in Nat /\ 1 + 1 = 2 OBVIOUS
    <2> QED BY <1>0, <2>2, <2>3, <2>4, <2>5, Quiet
  <1>2. ASSUME \/ CreateLocks(t) \/ CreateUnpinsTopic(t)
               \/ CreatePinsTopic(t) /\ Open(TopicOf[Cur(t).of])
               \/ LockAndInterrupt(t) \/ CloseWait(t) \/ WaitForChild(t)
        PROVE  RInv'
    <2>1. Steady /\ \E k \in Nat \ {0}, p \in Places :
                 Moved(t, k, p) /\ <<Cur(t).at, p>> \in Moves
      BY <1>2, QuietMoves
    <2>2. PICK k \in Nat \ {0}, p \in Places :
                 Moved(t, k, p) /\ <<Cur(t).at, p>> \in Moves
      BY <2>1
    <2> DEFINE f == Cur(t)
               g == [f EXCEPT !.at = p]
    <2>3. /\ Shape(t, k) /\ Is(t, k) /\ Fr(t, k) = f /\ f \in Frames
          /\ Is(t, k)' /\ Fr(t, k)' = g /\ ~Is(t, k + 1)'
      BY <2>2 DEF Moved
    <2>4. /\ g.at = p /\ g.of = f.of /\ g.why = f.why /\ g.up = f.up BY <2>3 DEF Frames
    <2>5. /\ f.at \notin TopicPlaces /\ p \notin TopicPlaces /\ f.at # "pin"
          /\ f.at \in Waiting \union Alone \union Leaving =>
                p \in Waiting \union Alone \union Leaving
      BY <2>2 DEF Moves
    <2> HIDE DEF f, g, Is, Fr
    <2>6. \A e \in Entities : Claims(f, e) => Claims(g, e) BY <2>4, <2>5 DEF Claims
    <2>7. \A e \in Entities : ~Drops(f, e) BY <2>5 DEF Drops
    <2> QED BY <1>0, <2>1, <2>3, <2>4, <2>5, <2>6, <2>7, Quiet
  <1>3. ASSUME \/ EndUse(t) \/ CreateEnds(t) \/ DeleteRefused(t)
               \/ CreatePinsTopic(t) /\ ~Open(TopicOf[Cur(t).of])
        PROVE  RInv'
    <2>1. /\ Steady
          /\ Cur(t).at \in {"use", "unpinned", "locked"} \/ DeleteRefused(t)
          /\ \E k \in Nat \ {0} : Ended(t, k)
      BY <1>3, QuietEnds
    <2>2. PICK k \in Nat \ {0} : Ended(t, k) BY <2>1
    <2>3. /\ Shape(t, k) /\ Is(t, k) /\ Fr(t, k) = Cur(t) /\ Cur(t) \in Frames
          /\ ~Is(t, k)' /\ ~Is(t, k + 1)'
      BY <2>2 DEF Ended
    <2>4. DeleteRefused(t) => Cur(t).at = "pin" BY DEF DeleteRefused, At, Cur
    <2>5. Proper(Cur(t)) BY <2>3 DEF IInv, Inv1, FrameInv
    <2>6. \A e \in Entities : ~Claims(Cur(t), e)
      BY <2>1, <2>4, <2>5, EntityAssumption DEF Claims, Proper
    <2>7. \A e \in Entities : link[e].deferred /\ Drops(Cur(t), e) =>
              Referring(e) # {} \/ link[e].closing
      <3> TAKE e \in Entities
      <3> HAVE link[e].deferred /\ Drops(Cur(t), e)
      <3>1. Cur(t).of = e /\ Cur(t).at = "pin" BY DEF Drops
      <3>2. DeleteRefused(t) BY <2>1, <3>1
      <3> QED BY <3>1, <3>2, RefusedDrop
    <2>8. Cur(t).at \notin TopicPlaces BY <2>1, <2>4
    <2> HIDE DEF Is, Fr, Cur
    <2> QED BY <1>0, <2>1, <2>3, <2>6, <2>7, <2>8, Quiet
  <1>4. ASSUME ChildrenDone(t)
        PROVE  RInv'
    <2>1. /\ Steady /\ NextPass(Cur(t)) \in Frames /\ Cur(t).at \in {"enter", "awake", "child"}
          /\ \E k \in Nat \ {0} :
                 /\ Shape(t, k) /\ k = Len(stack[t])
                 /\ Is(t, k) /\ Fr(t, k) = Cur(t) /\ Cur(t) \in Frames
                 /\ Is(t, k)' /\ Fr(t, k)' = NextPass(Cur(t))
                 /\ ~Is(t, k + 1)'
      BY <1>4, DoneShape
    <2> DEFINE f == Cur(t)
               g == NextPass(f)
    <2>2. PICK k \in Nat \ {0} :
                 /\ Shape(t, k)
                 /\ Is(t, k) /\ Fr(t, k) = f /\ f \in Frames
                 /\ Is(t, k)' /\ Fr(t, k)' = g
                 /\ ~Is(t, k + 1)'
      BY <2>1
    <2>3. g.at \in {"enter", "handle"} /\ g.of = f.of /\ g.why = f.why /\ g.up = f.up
      BY <2>2 DEF NextPass, Frames
    <2>4. f.at \in {"enter", "awake", "child"} BY <2>1
    <2> HIDE DEF f, g, Is, Fr
    <2>5. \A e \in Entities : Claims(f, e) => Claims(g, e) BY <2>3, <2>4 DEF Claims
    <2>6. \A e \in Entities : ~Drops(f, e) BY <2>4 DEF Drops
    <2>7. f.at \notin TopicPlaces /\ g.at \notin TopicPlaces BY <2>3, <2>4
    <2> QED BY <1>0, <2>1, <2>2, <2>3, <2>5, <2>6, <2>7, Quiet
  <1>5. ASSUME DeleteChild(t)
        PROVE  RInv'
    <2>1. /\ Steady /\ Cur(t).at \in {"enter", "awake", "child"}
          /\ \E k \in Nat \ {0} : \E c \in Remaining(Cur(t)) :
                 /\ \A d \in Remaining(Cur(t)) : Iid[c] <= Iid[d]
                 /\ Shape(t, k) /\ k = Len(stack[t])
                 /\ Is(t, k) /\ Fr(t, k) = Cur(t) /\ Cur(t) \in Frames
                 /\ Is(t, k)' /\ Fr(t, k)' = [Cur(t) EXCEPT !.at = "child", !.cursor = c]
                 /\ Is(t, k + 1)' /\ Fr(t, k + 1)' = Frame(c, "parent", "pin")
                 /\ c \in Entities
      BY <1>5, ChildShape
    <2> DEFINE f == Cur(t)
               g(c) == [f EXCEPT !.at = "child", !.cursor = c]
    <2>2. PICK k \in Nat \ {0}, c \in Remaining(f) :
                 /\ Shape(t, k)
                 /\ Is(t, k) /\ Fr(t, k) = f /\ f \in Frames
                 /\ Is(t, k)' /\ Fr(t, k)' = g(c)
                 /\ Is(t, k + 1)' /\ Fr(t, k + 1)' = Frame(c, "parent", "pin")
                 /\ c \in Entities
      BY <2>1
    <2>3. g(c).at = "child" /\ g(c).of = f.of /\ g(c).why = f.why /\ g(c).up = f.up
      BY <2>2 DEF Frames
    <2>4. f.at \in {"enter", "awake", "child"} BY <2>1
    <2>5. Frame(c, "parent", "pin").of = c BY DEF Frame
    <2>6. Parent[c] = f.of /\ f.of \in Entities
      BY <2>2 DEF Remaining, IInv, Inv1, ChildInv, Frames
    <2>7. link[f.of].closing
      <3>1. Fr(t, k).at \in Alone BY <2>2, <2>4
      <3> HIDE DEF f, Is, Fr
      <3> QED BY <2>2, <3>1, Exclusive
    <2> HIDE DEF f, g, Is, Fr
    <2>8. \A e \in Entities : Claims(f, e) => Claims(g(c), e) BY <2>3, <2>4 DEF Claims
    <2>9. \A e \in Entities : ~Drops(f, e) BY <2>4 DEF Drops
    <2>10. f.at \notin TopicPlaces /\ g(c).at \notin TopicPlaces BY <2>3, <2>4
    <2> QED BY <1>0, <2>1, <2>2, <2>3, <2>5, <2>6, <2>7, <2>8, <2>9, <2>10, Quiet
  <1> QED BY <1>1, <1>2, <1>3, <1>4, <1>5

-----------------------------------------------------------------------------
(* Steps at which one comes or goes                                         *)

\* Whoever has left its parent, or dropped its topic, is linked no more.
Parted ==
    \A t \in Threads, k \in Nat : \A w \in Entities :
        Is(t, k) /\ Fr(t, k).of = w /\ Fr(t, k).at \in Leaving =>
            /\ Linked(w) => Fr(t, k).at = "unlink"
            /\ Refers(w) => Fr(t, k).at \in TopicPlaces

\* Only one activation has an entity that left the hash table.
LEMMA PartedHolds == IInv => Parted
  <1> SUFFICES ASSUME IInv, NEW t \in Threads, NEW k \in Nat, NEW w \in Entities,
                      Is(t, k), Fr(t, k).of = w, Fr(t, k).at \in Leaving
               PROVE  /\ Linked(w) => Fr(t, k).at = "unlink"
                      /\ Refers(w) => Fr(t, k).at \in TopicPlaces
    BY DEF Parted
  <1>1. /\ w \notin known
        /\ \A u \in Threads, c \in Nat : Is(u, c) /\ Fr(u, c).of = w =>
                /\ Fr(u, c).at # "referred"
                /\ Fr(u, c).at \in Leaving => u = t /\ c = k
    BY DEF IInv, Inv2, GoneInv, Pends
  <1>2. /\ "unlink" \in Leaving
        /\ \A p \in TopicPlaces : p = "referred" \/ p \in Leaving
    BY DEF Leaving, TopicPlaces
  <1> HIDE DEF Is, Fr, TopicPlaces, Leaving
  <1> QED BY <1>1, <1>2 DEF Linked, Refers, InAt

\* The same after a step.
LEMMA PartedLater == IInv' => Parted'
  BY PartedHolds, PTL

\* A writer in the making is nobody's child, and refers to its topic when it
\* says so.
LEMMA Unlisted ==
    ASSUME IInv, NEW t \in Threads, NEW k \in Nat, Is(t, k), Pends(Fr(t, k))
    PROVE  /\ Fr(t, k).of \notin known /\ ~Linked(Fr(t, k).of)
           /\ Refers(Fr(t, k).of) => Fr(t, k).at = "referred"
  <1> DEFINE w == Fr(t, k).of
  <1>1. /\ w \notin known
        /\ \A u \in Threads, c \in Nat :
                Is(u, c) /\ Pends(Fr(u, c)) /\ Fr(u, c).of = w => u = t /\ c = k
    BY DEF IInv, Inv2, PendingInv
  <1>2. \A u \in Threads, c \in Nat : Is(u, c) /\ Fr(u, c).at \in Leaving => Fr(u, c).of # w
    BY DEF IInv, Inv2, GoneInv
  <1>3. /\ "unlink" \in Leaving
        /\ \A p \in TopicPlaces : p = "referred" \/ p \in Leaving
        /\ \A f : f.at = "referred" => Pends(f)
    BY DEF Leaving, TopicPlaces, Pends
  <1> HIDE DEF Is, Fr, TopicPlaces, Leaving, Pends
  <1> QED BY <1>1, <1>2, <1>3 DEF Linked, Refers, InAt

\* The other entities are as linked as they were.
LEMMA OtherLinks ==
    ASSUME TypeOK, NEW t \in Threads, NEW k \in Nat, Shape(t, k), NEW w \in Entities,
           w \in known' <=> w \in known,
           Is(t, k) => Fr(t, k).of # w,
           Is(t, k)' => Fr(t, k)'.of # w
    PROVE  (Linked(w)' <=> Linked(w)) /\ (Refers(w)' <=> Refers(w))
  <1> DEFINE U == {"unlink"}
  <1>1. /\ U \intersect {"parked", "closing", "asleep", "awake", "pin"} = {}
        /\ TopicPlaces \intersect {"parked", "closing", "asleep", "awake", "pin"} = {}
    BY DEF TopicPlaces
  <1>2. Linked(w)' <=> (w \in known' \/ InAt(w, U)') BY DEF Linked, InAt
  <1>3. Linked(w) <=> (w \in known \/ InAt(w, U)) BY DEF Linked
  <1>4. Refers(w)' <=> (w \in known' \/ InAt(w, TopicPlaces)') BY DEF Refers, InAt
  <1>5. Refers(w) <=> (w \in known \/ InAt(w, TopicPlaces)) BY DEF Refers
  <1> HIDE DEF U, Is, Fr, InAt, TopicPlaces, Linked, Refers
  <1>6. InAt(w, U)' <=> InAt(w, U) BY <1>1, SameInAt
  <1>7. InAt(w, TopicPlaces)' <=> InAt(w, TopicPlaces) BY <1>1, SameInAt
  <1> QED BY <1>2, <1>3, <1>4, <1>5, <1>6, <1>7

\* The step's own entity.
LEMMA OwnLinks ==
    ASSUME TypeOK, NEW t \in Threads, NEW k \in Nat, Shape(t, k), NEW w \in Entities
    PROVE  /\ w \in known => Linked(w) /\ Refers(w)
           /\ w \in known' => Linked(w)' /\ Refers(w)'
           /\ Is(t, k) /\ Fr(t, k).of = w /\ Fr(t, k).at = "unlink" => Linked(w)
           /\ Is(t, k)' /\ Fr(t, k)'.of = w /\ Fr(t, k)'.at = "unlink" => Linked(w)'
           /\ Is(t, k) /\ Fr(t, k).of = w /\ Fr(t, k).at \in TopicPlaces => Refers(w)
           /\ Is(t, k)' /\ Fr(t, k)'.of = w /\ Fr(t, k)'.at \in TopicPlaces => Refers(w)'
  <1> DEFINE U == {"unlink"}
  <1>1. /\ U \intersect {"parked", "closing", "asleep", "awake", "pin"} = {}
        /\ TopicPlaces \intersect {"parked", "closing", "asleep", "awake", "pin"} = {}
    BY DEF TopicPlaces
  <1>2. Linked(w)' <=> (w \in known' \/ InAt(w, U)') BY DEF Linked, InAt
  <1>3. Linked(w) <=> (w \in known \/ InAt(w, U)) BY DEF Linked
  <1>4. Refers(w)' <=> (w \in known' \/ InAt(w, TopicPlaces)') BY DEF Refers, InAt
  <1>5. Refers(w) <=> (w \in known \/ InAt(w, TopicPlaces)) BY DEF Refers
  <1> HIDE DEF Is, Fr, InAt, TopicPlaces, Linked, Refers
  <1>6. /\ Is(t, k) /\ Fr(t, k).of = w /\ Fr(t, k).at \in U => InAt(w, U)
        /\ Is(t, k)' /\ Fr(t, k)'.of = w /\ Fr(t, k)'.at \in U => InAt(w, U)'
    <2> HIDE DEF U
    <2> QED BY <1>1, InAtChange
  <1>7. /\ Is(t, k) /\ Fr(t, k).of = w /\ Fr(t, k).at \in TopicPlaces => InAt(w, TopicPlaces)
        /\ Is(t, k)' /\ Fr(t, k)'.of = w /\ Fr(t, k)'.at \in TopicPlaces => InAt(w, TopicPlaces)'
    BY <1>1, InAtChange
  <1> QED BY <1>2, <1>3, <1>4, <1>5, <1>6, <1>7

\* Writers refer to topics, and to nothing else, and topics have no children.
LEMMA KindsOfRefs ==
    ASSUME IInv, NEW e \in Entities
    PROVE  /\ e \in Topics => children[e] = {} /\ Refs(e) = Referring(e)
           /\ e \notin Topics => Referring(e) = {} /\ Refs(e) = children[e]
  <1>1. children[e] \subseteq Entities /\ \A c \in children[e] : Parent[c] = e
    BY DEF IInv, Inv1, TypeOK, ChildInv
  <1>2. e \in Topics => children[e] = {} BY <1>1, EntityAssumption
  <1>3. e \notin Topics => Referring(e) = {} BY EntityAssumption DEF Referring
  <1> QED BY <1>2, <1>3 DEF Refs

\* What is counted for an entity that can be found.
LEMMA Counted ==
    ASSUME IInv, RInv, NEW e \in Entities, e \in known
    PROVE  /\ IsFiniteSet(Refs(e)) /\ Cardinality(Refs(e)) \in Nat
           /\ link[e].refc = Own(e) + Cardinality(Refs(e))
           /\ link[e].refc > Own(e) <=> Refs(e) # {}
           /\ \A w : Refs(e) = {w} => link[e].refc = Own(e) + 1
  <1>1. e \notin freed BY DEF IInv, Inv2, GoneInv
  <1>2. IsFiniteSet(Refs(e)) /\ link[e].refc = Own(e) + Cardinality(Refs(e))
    BY <1>1 DEF RInv, RefcInv
  <1>3. Cardinality(Refs(e)) \in Nat /\ Own(e) \in {0, 1}
    BY <1>2, FS_CardinalityType DEF Own
  <1> HIDE DEF Refs, Own
  <1>4. Cardinality(Refs(e)) = 0 <=> Refs(e) = {} BY <1>2, FS_EmptySet
  <1>5. ASSUME NEW w, Refs(e) = {w} PROVE link[e].refc = Own(e) + 1
    BY <1>2, <1>5, FS_Singleton
  <1>6. link[e].refc > Own(e) <=> Refs(e) # {} BY <1>2, <1>3, <1>4
  <1> QED BY <1>2, <1>3, <1>5, <1>6

\* An activation before and after it moves.
Moving(t, k, f, g) ==
    /\ Shape(t, k) /\ k = Len(stack[t])
    /\ Is(t, k) /\ Fr(t, k) = f /\ f = Cur(t)
    /\ Is(t, k)' /\ Fr(t, k)' = g /\ ~Is(t, k + 1)'
    /\ f.of \in Entities /\ Proper(f)
    /\ g.of = f.of /\ g.why = f.why /\ g.up = f.up

\* It keeps all but its place.
LEMMA MovedFrames ==
    ASSUME IInv, NEW t \in Threads, NEW k \in Nat, NEW p \in Places, Moved(t, k, p)
    PROVE  \E f, g \in Frames : Moving(t, k, f, g) /\ g.at = p
  <1>1. PICK f \in Frames : f = Cur(t) BY DEF Moved
  <1>2. PICK g \in Frames : g = [Cur(t) EXCEPT !.at = p] BY DEF Moved, Frames
  <1>3. /\ Shape(t, k) /\ k = Len(stack[t])
        /\ Is(t, k) /\ Fr(t, k) = f /\ Is(t, k)' /\ ~Is(t, k + 1)'
    BY <1>1 DEF Moved
  <1>4. Fr(t, k)' = g BY <1>2 DEF Moved
  <1>5. g.at = p /\ g.of = f.of /\ g.why = f.why /\ g.up = f.up /\ f.of \in Entities
    BY <1>1, <1>2 DEF Frames
  <1>6. Proper(f) BY <1>3 DEF IInv, Inv1, FrameInv
  <1> HIDE DEF Is, Fr, Cur
  <1> QED BY <1>1, <1>3, <1>4, <1>5, <1>6 DEF Moving

\* A new writer counts as a reference to its topic,
LEMMA RefersCounts ==
    ASSUME IInv, IInv', RInv, implicit' = implicit, NEW t \in Threads, CreateRefersTopic(t)
    PROVE  RInv'
  <1>0. /\ TypeOK /\ TypeOK' /\ ChildrenInv /\ RefcInv /\ ClosedInv
        /\ ImplicitInv /\ ParentInv /\ DeferInv
        /\ link \in [Entities -> LinkType] /\ link' \in [Entities -> LinkType]
        /\ freed \subseteq freed'
    BY DEF IInv, Inv1, RInv, TypeOK, CreateRefersTopic
  <1>1. PICK k \in Nat, f \in Frames, g \in Frames :
           Moving(t, k, f, g) /\ f.at = "pinned" /\ g.at = "referred"
    BY MarkMoves, MovedFrames DEF Places, Creating, Moving
  <1>2. PICK w \in Entities : w = f.of BY <1>1 DEF Moving
  <1>3. PICK x : x = TopicOf[w] OBVIOUS
  <1>4. /\ link' = [link EXCEPT ![x].refc = @ + 1]
        /\ known' = known /\ children' = children /\ freed' = freed
    BY <1>1, <1>2, <1>3 DEF CreateRefersTopic, Moving
  <1>5. /\ Shape(t, k) /\ Is(t, k) /\ Fr(t, k) = f
        /\ Is(t, k)' /\ Fr(t, k)' = g /\ ~Is(t, k + 1)'
        /\ g.of = w /\ g.why = f.why /\ g.up = f.up
        /\ \A e \in Entities : ~Claims(f, e) /\ ~Drops(f, e)
    BY <1>1, <1>2, EntityAssumption
       DEF Moving, Claims, Drops, Proper, Waiting, Alone, Leaving
  <1>6. w \notin known /\ ~Linked(w) /\ ~Refers(w) BY <1>1, <1>2, <1>5, Unlisted DEF Pends
  <1>7. \A e \in Entities :
              /\ link'[e].closing = link[e].closing
              /\ link'[e].deferred = link[e].deferred
              /\ link'[e].refc = IF e = x THEN link[e].refc + 1 ELSE link[e].refc
    BY <1>0, <1>4, RefFields
  <1> HIDE DEF Is, Fr, Shape, RefcInv, ClosedInv, ImplicitInv, ParentInv, DeferInv
  <1>8. Refers(w)' /\ (Linked(w)' <=> Linked(w))
    <2>1. Refers(w)'
      <3>1. "referred" \in TopicPlaces BY DEF TopicPlaces
      <3> HIDE DEF Refers
      <3> QED BY <3>1, <1>0, <1>1, <1>2, <1>5, OwnLinks
    <2>2. Linked(w)' <=> Linked(w)
      <3>1. {"unlink"} \intersect {"parked", "closing", "asleep", "awake", "pin"} = {}
        OBVIOUS
      <3>2. InAt(w, {"unlink"})' <=> InAt(w, {"unlink"})
        <4> HIDE DEF InAt
        <4> QED BY <3>1, <1>0, <1>1, <1>5, SameInAt
      <3>3. Linked(w)' <=> (w \in known' \/ InAt(w, {"unlink"})') BY DEF Linked, InAt
      <3> QED BY <3>2, <3>3, <1>4 DEF Linked
    <2> QED BY <2>1, <2>2
  <1>9. \A c \in Entities : c # w => (Linked(c)' <=> Linked(c)) /\ (Refers(c)' <=> Refers(c))
    <2> HIDE DEF Linked, Refers
    <2> QED BY <1>0, <1>2, <1>4, <1>5, OtherLinks
  <1>10. ChildrenInv'
    <2> HIDE DEF Linked, Refers
    <2>1. \A c \in Entities : Linked(c)' <=> Linked(c) BY <1>8, <1>9
    <2> QED BY <2>1, <1>0, <1>4, SameChildren
  <1>11. \A e \in Entities :
            /\ e # x => Referring(e)' = Referring(e)
            /\ e = x => w \notin Referring(e) /\ Referring(e)' = Referring(e) \union {w}
    <2> TAKE e \in Entities
    <2>1. Referring(e)' = {c \in Entities : TopicOf[c] = e /\ Refers(c)'}
      BY DEF Referring, Refers, InAt
    <2> HIDE DEF Refers
    <2> QED BY <2>1, <1>3, <1>6, <1>8, <1>9 DEF Referring
  <1>12. RefcInv'
    <2>1. \A e \in Entities : Own(e)' = Own(e) BY <1>7 DEF Own
    <2>2. ASSUME NEW e \in Entities, e # x
          PROVE  Refs(e)' = Refs(e) /\ link'[e].refc - Own(e)' = link[e].refc - Own(e)
      <3> HIDE DEF Own, Referring
      <3> QED BY <2>1, <2>2, <1>4, <1>7, <1>11 DEF Refs
    <2>3. ASSUME NEW e \in Entities, e = x
          PROVE  /\ Own(e)' = Own(e) /\ link'[e].refc = link[e].refc + 1
                 /\ w \notin Refs(e) /\ Refs(e)' = Refs(e) \union {w}
      <3>1. e \in Topics BY <2>3, <1>3, EntityAssumption
      <3>2. children[e] = {} BY <3>1, KindsOfRefs
      <3> HIDE DEF Own, Referring
      <3> QED BY <3>2, <2>1, <2>3, <1>4, <1>7, <1>11 DEF Refs
    <2> HIDE DEF Own, Refs
    <2>4. \A e \in Entities \ freed' :
              \/ /\ Refs(e)' = Refs(e)
                 /\ link'[e].refc - Own(e)' = link[e].refc - Own(e)
              \/ /\ Own(e)' = Own(e) /\ link'[e].refc = link[e].refc + 1
                 /\ \E c : c \notin Refs(e) /\ Refs(e)' = Refs(e) \union {c}
      BY <2>2, <2>3
    <2> QED BY <1>0, <2>4, KeepRefc
  <1>13. ClosedInv' BY <1>0, <1>4, <1>5, <1>7, KeepClosed
  <1>14. ImplicitInv' BY <1>0, <1>1, <1>4, <1>5, <1>7, KeepImplicit
  <1>15. ParentInv' BY <1>0, <1>2, <1>5, <1>7, KeepParent
  <1>16. DeferInv'
    <2>1. \A e \in Entities : Referring(e) # {} => Referring(e)' # {}
      <3> HIDE DEF Referring
      <3> QED BY <1>11
    <2> HIDE DEF Referring, ToDrop, Drops
    <2>2. \A e \in Entities :
              /\ link[e].closing => link'[e].closing
              /\ e \in known => e \in known' \/ link'[e].closing
              /\ link'[e].deferred =>
                    \/ link[e].deferred
                    \/ e \in Topics /\ e \in known' /\ Referring(e)' # {}
              /\ link[e].deferred /\ Referring(e) # {} =>
                    Referring(e)' # {} \/ link'[e].closing \/ ToDrop(e)'
      BY <1>4, <1>7, <2>1
    <2>3. \A e \in Entities : ~Drops(Fr(t, k), e) BY <1>5
    <2> QED BY <1>0, <1>5, <2>2, <2>3, KeepDefer
  <1> QED BY <1>10, <1>12, <1>13, <1>14, <1>15, <1>16 DEF RInv

\* A step within a place that counts, or from the hash table to one, is no loss.
LEMMA StaysReferring ==
    ASSUME TypeOK, NEW t \in Threads, NEW k \in Nat, NEW f \in Frames, NEW g \in Frames,
           Moving(t, k, f, g),
           \A c \in Entities : c # f.of => (c \in known' <=> c \in known),
           f.of \in known \/ f.at \in TopicPlaces,
           f.of \in known' \/ g.at \in TopicPlaces
    PROVE  \A w \in Entities : Refers(w)' <=> Refers(w)
  <1>1. PICK w \in Entities : w = f.of BY DEF Moving
  <1>2. /\ Shape(t, k) /\ Is(t, k) /\ Fr(t, k) = f /\ Is(t, k)' /\ Fr(t, k)' = g
        /\ g.of = w
    BY <1>1 DEF Moving
  <1> HIDE DEF Is, Fr, Shape, Refers, Linked, TopicPlaces
  <1>3. Refers(w) /\ Refers(w)' BY <1>1, <1>2, OwnLinks
  <1>4. \A c \in Entities : c # w => (Refers(c)' <=> Refers(c)) BY <1>1, <1>2, OtherLinks
  <1> QED BY <1>3, <1>4

\* Only a step to or from the place where a child leaves its parent matters to
\* the children.
LEMMA StaysLinked ==
    ASSUME TypeOK, NEW t \in Threads, NEW k \in Nat, NEW f \in Frames, NEW g \in Frames,
           Moving(t, k, f, g), known' = known, f.at # "unlink", g.at # "unlink"
    PROVE  \A w \in Entities : Linked(w)' <=> Linked(w)
  <1> SUFFICES ASSUME NEW w \in Entities PROVE Linked(w)' <=> Linked(w)
    OBVIOUS
  <1>1. {"unlink"} \intersect {"parked", "closing", "asleep", "awake", "pin"} = {} OBVIOUS
  <1>2. Shape(t, k) /\ Fr(t, k).at # "unlink" /\ Fr(t, k)'.at # "unlink" BY DEF Moving
  <1>3. InAt(w, {"unlink"})' <=> InAt(w, {"unlink"})
    <2> HIDE DEF InAt, Is, Fr
    <2> QED BY <1>1, <1>2, SameInAt
  <1>4. Linked(w)' <=> (w \in known' \/ InAt(w, {"unlink"})') BY DEF Linked, InAt
  <1> QED BY <1>3, <1>4 DEF Linked

\* The last writer's deletion of the topic is not lost, when no writer goes.
LEMMA SameDefer ==
    ASSUME TypeOK, DeferInv, NEW t \in Threads, NEW k \in Nat, Shape(t, k),
           \A e \in Entities :
              /\ Referring(e)' = Referring(e)
              /\ link[e].closing => link'[e].closing
              /\ e \in known => e \in known' \/ link'[e].closing
              /\ link'[e].deferred => link[e].deferred
              /\ link[e].deferred /\ Is(t, k) /\ Drops(Fr(t, k), e) => link'[e].closing
    PROVE  DeferInv'
  <1> HIDE DEF Referring, ToDrop, Drops, Shape, Is, Fr, DeferInv
  <1> QED BY KeepDefer

\* The deletion of a parent closes it, under its m_mutex.
LEMMA CloseCounts ==
    ASSUME IInv, IInv', RInv, implicit' = implicit, NEW t \in Threads, CloseParent(t)
    PROVE  RInv'
  <1>0. /\ TypeOK /\ TypeOK' /\ ChildrenInv /\ RefcInv /\ ClosedInv
        /\ ImplicitInv /\ ParentInv /\ DeferInv
        /\ link \in [Entities -> LinkType] /\ link' \in [Entities -> LinkType]
        /\ freed \subseteq freed'
    BY DEF IInv, Inv1, RInv, TypeOK, CloseParent
  <1>1. PICK k \in Nat, f \in Frames, g \in Frames :
           Moving(t, k, f, g) /\ f.at = "close" /\ g.at = "derive"
    BY MarkMoves, MovedFrames DEF Places, Leaving, Moving
  <1>2. PICK p \in implicit : p = f.up BY <1>1 DEF Moving, Proper
  <1>3. /\ link' = [link EXCEPT ![p].closing = TRUE]
        /\ known' = known /\ children' = children /\ freed' = freed
    BY <1>1, <1>2 DEF CloseParent, Moving
  <1>4. /\ Shape(t, k) /\ Is(t, k) /\ Fr(t, k) = f
        /\ Is(t, k)' /\ Fr(t, k)' = g /\ ~Is(t, k + 1)'
        /\ g.of = f.of /\ g.why = f.why /\ g.up = f.up
        /\ \A e \in Entities : ~Drops(f, e) /\ (Claims(f, e) => Claims(g, e))
        /\ Claims(g, p)
    BY <1>1, <1>2 DEF Moving, Claims, Drops, Waiting, Alone, Leaving
  <1>5. \A e \in Entities :
              /\ link'[e].closing = IF e = p THEN TRUE ELSE link[e].closing
              /\ link'[e].deferred = link[e].deferred
              /\ link'[e].refc = link[e].refc
    BY <1>0, <1>3, CloseOnly
  <1> HIDE DEF Is, Fr, Shape, RefcInv, ClosedInv, ImplicitInv, ParentInv, DeferInv
  <1>6. \A w \in Entities : Refers(w)' <=> Refers(w)
    <2>1. f.at \in TopicPlaces /\ g.at \in TopicPlaces BY <1>1 DEF TopicPlaces
    <2> HIDE DEF Refers
    <2> QED BY <1>0, <1>1, <1>3, <2>1, StaysReferring
  <1>7. ChildrenInv'
    <2> HIDE DEF Linked
    <2>1. \A w \in Entities : Linked(w)' <=> Linked(w) BY <1>0, <1>1, <1>3, StaysLinked
    <2> QED BY <2>1, <1>0, <1>3, SameChildren
  <1>8. \A e \in Entities : Referring(e)' = Referring(e) /\ Refs(e)' = Refs(e)
    <2> HIDE DEF Refers, Referring, Refs
    <2> QED BY <1>3, <1>6, SameReferring
  <1>9. RefcInv'
    <2>1. \A e \in Entities : Own(e)' = Own(e) BY <1>2, <1>5 DEF Own
    <2> HIDE DEF Own, Refs
    <2>2. \A e \in Entities \ freed' :
              /\ Refs(e)' = Refs(e)
              /\ link'[e].refc - Own(e)' = link[e].refc - Own(e)
      BY <2>1, <1>5, <1>8
    <2> QED BY <1>0, <2>2, KeepRefc
  <1>10. \A e \in Entities :
            /\ link[e].closing => link'[e].closing
            /\ link'[e].closing => link[e].closing \/ e = p
    BY <1>5
  <1>11. ClosedInv'
    <2> HIDE DEF Claims
    <2> QED BY <1>0, <1>3, <1>4, <1>10, KeepClosed
  <1>12. ImplicitInv'
    <2>1. link'[p].closing /\ p \in Entities BY <1>0, <1>2, <1>5 DEF TypeOK
    <2> QED BY <1>0, <1>1, <1>2, <1>3, <1>4, <1>10, <2>1, KeepImplicit
  <1>13. ParentInv' BY <1>0, <1>4, <1>10, KeepParent
  <1>14. DeferInv'
    <2> HIDE DEF Referring, Drops
    <2> QED BY <1>0, <1>3, <1>4, <1>5, <1>8, <1>10, SameDefer
  <1> QED BY <1>7, <1>9, <1>11, <1>12, <1>13, <1>14 DEF RInv

\* An entity whose deletion begins has no reference of its own any more.
LEMMA PinCounts ==
    ASSUME IInv, IInv', RInv, implicit' = implicit, NEW t \in Threads, PinForDelete(t)
    PROVE  RInv'
  <1>0. /\ TypeOK /\ TypeOK' /\ ChildrenInv /\ RefcInv /\ ClosedInv
        /\ ImplicitInv /\ ParentInv /\ DeferInv
        /\ link \in [Entities -> LinkType] /\ link' \in [Entities -> LinkType]
        /\ freed \subseteq freed'
    BY DEF IInv, Inv1, RInv, TypeOK, PinForDelete
  <1>1. PICK k \in Nat, f \in Frames, g \in Frames :
           Moving(t, k, f, g) /\ f.at = "pin" /\ g.at = "lock"
    BY MarkMoves, MovedFrames DEF Places, Waiting, Moving
  <1>2. PICK p \in Entities : p = f.of BY <1>1 DEF Moving
  <1>3. PICK n \in {0, 1} : n = IF p \in implicit \/ link[p].deferred THEN 0 ELSE 1
    OBVIOUS
  <1>4. /\ link' = [link EXCEPT ![p].refc = @ - n, ![p].pin = @ + 1, ![p].closing = TRUE]
        /\ ~link[p].closing
        /\ known' = known /\ children' = children /\ freed' = freed
    BY <1>1, <1>2, <1>3 DEF PinForDelete, Moving, Open
  <1>5. /\ Shape(t, k) /\ Is(t, k) /\ Fr(t, k) = f
        /\ Is(t, k)' /\ Fr(t, k)' = g /\ ~Is(t, k + 1)'
        /\ g.of = f.of /\ g.why = f.why /\ g.up = f.up
        /\ \A e \in Entities : /\ Drops(f, e) => e = p
                               /\ Claims(f, e) => Claims(g, e)
        /\ Claims(g, p)
    BY <1>1, <1>2 DEF Moving, Claims, Drops, Waiting, Alone, Leaving
  <1>6. \A e \in Entities :
              /\ link'[e].closing = IF e = p THEN TRUE ELSE link[e].closing
              /\ link'[e].deferred = link[e].deferred
              /\ link'[e].refc = IF e = p THEN link[e].refc - n ELSE link[e].refc
    <2>1. n \in Int OBVIOUS
    <2>2. link' = [link EXCEPT ![p].refc = @ - n, ![p].pin = @ + 1, ![p].closing = TRUE]
      BY <1>4
    <2> QED BY <1>0, <2>1, <2>2, CloseFields
  <1> HIDE DEF Is, Fr, Shape, RefcInv, ClosedInv, ImplicitInv, ParentInv, DeferInv
  <1>7. \A w \in Entities : (Linked(w)' <=> Linked(w)) /\ (Refers(w)' <=> Refers(w))
    <2>1. f.at \notin TopicPlaces /\ g.at \notin TopicPlaces BY <1>1 DEF TopicPlaces
    <2> HIDE DEF Refers, Linked
    <2> QED BY <1>0, <1>4, <1>5, <2>1, SameLinks
  <1>8. ChildrenInv'
    <2> HIDE DEF Linked
    <2> QED BY <1>7, <1>0, <1>4, SameChildren
  <1>9. \A e \in Entities : Referring(e)' = Referring(e) /\ Refs(e)' = Refs(e)
    <2> HIDE DEF Refers, Referring, Refs
    <2> QED BY <1>4, <1>7, SameReferring
  <1>10. RefcInv'
    <2>1. \A e \in Entities : e # p => Own(e)' = Own(e) BY <1>6 DEF Own
    <2>2. \A e \in Entities : e = p => Own(e)' = 0 /\ Own(e) = n
      BY <1>3, <1>4, <1>6 DEF Own
    <2>3. \A e \in Entities : link[e].refc \in Int BY <1>0 DEF LinkType
    <2> HIDE DEF Own, Refs
    <2>4. \A e \in Entities \ freed' :
              /\ Refs(e)' = Refs(e)
              /\ link'[e].refc - Own(e)' = link[e].refc - Own(e)
      <3> TAKE e \in Entities \ freed'
      <3>1. CASE e = p
        <4>1. link'[e].refc = link[e].refc - n /\ link[e].refc \in Int /\ n \in Int
          <5>1. n \in Int OBVIOUS
          <5>2. link[e].refc \in Int BY <2>3
          <5>3. link'[e].refc = link[e].refc - n BY <3>1, <1>6
          <5> QED BY <5>1, <5>2, <5>3
        <4>2. Own(e)' = 0 /\ Own(e) = n BY <3>1, <2>2
        <4>3. link'[e].refc - Own(e)' = link[e].refc - Own(e) BY <4>1, <4>2
        <4> QED BY <4>3, <1>9
      <3>2. CASE e # p BY <3>2, <2>1, <2>3, <1>6, <1>9
      <3> QED BY <3>1, <3>2
    <2> QED BY <1>0, <2>4, KeepRefc
  <1>11. \A e \in Entities :
            /\ link[e].closing => link'[e].closing
            /\ link'[e].closing => link[e].closing \/ e = p
            /\ e = p => link'[e].closing
    BY <1>6
  <1>12. ClosedInv'
    <2> HIDE DEF Claims
    <2> QED BY <1>0, <1>4, <1>5, <1>11, KeepClosed
  <1>13. ImplicitInv' BY <1>0, <1>1, <1>4, <1>5, <1>11, KeepImplicit
  <1>14. ParentInv' BY <1>0, <1>5, <1>11, KeepParent
  <1>15. DeferInv'
    <2> HIDE DEF Referring, Drops
    <2> QED BY <1>0, <1>4, <1>5, <1>6, <1>9, <1>11, SameDefer
  <1> QED BY <1>8, <1>10, <1>12, <1>13, <1>14, <1>15 DEF RInv

\* An activation and its end.
Ending(t, k, f) ==
    /\ Shape(t, k) /\ k = Len(stack[t])
    /\ Is(t, k) /\ Fr(t, k) = f /\ f = Cur(t)
    /\ ~Is(t, k)' /\ ~Is(t, k + 1)'
    /\ f.of \in Entities /\ Proper(f)

\* It is one of the stack's.
LEMMA EndedFrame ==
    ASSUME IInv, NEW t \in Threads, NEW k \in Nat, Ended(t, k)
    PROVE  \E f \in Frames : Ending(t, k, f)
  <1>1. PICK f \in Frames : f = Cur(t) BY DEF Ended
  <1>2. /\ Shape(t, k) /\ k = Len(stack[t])
        /\ Is(t, k) /\ Fr(t, k) = f /\ ~Is(t, k)' /\ ~Is(t, k + 1)'
    BY <1>1 DEF Ended
  <1>3. f.of \in Entities BY DEF Frames
  <1>4. Proper(f) BY <1>2 DEF IInv, Inv1, FrameInv
  <1> HIDE DEF Is, Fr, Cur
  <1> QED BY <1>1, <1>2, <1>3, <1>4 DEF Ending

\* A topic to which writers refer loses its own reference.
LEMMA DeferredCounts ==
    ASSUME IInv, IInv', RInv, implicit' = implicit, NEW t \in Threads, DeleteDeferred(t)
    PROVE  RInv'
  <1>0. /\ TypeOK /\ TypeOK' /\ ChildrenInv /\ RefcInv /\ ClosedInv
        /\ ImplicitInv /\ ParentInv /\ DeferInv
        /\ link \in [Entities -> LinkType] /\ link' \in [Entities -> LinkType]
        /\ freed \subseteq freed'
    BY DEF IInv, Inv1, RInv, TypeOK, DeleteDeferred
  <1>1. PICK k \in Nat, f \in Frames : Ending(t, k, f) /\ f.at = "pin"
    BY MarkMoves, EndedFrame DEF Ending
  <1>2. PICK p \in Entities : p = f.of BY <1>1 DEF Ending
  <1>3. /\ link' = [link EXCEPT ![p].refc = @ - 1, ![p].deferred = TRUE]
        /\ ~link[p].closing /\ ~link[p].deferred /\ p \in Topics /\ p \in known
        /\ link[p].refc > 1
        /\ known' = known /\ children' = children /\ freed' = freed
    BY <1>1, <1>2 DEF DeleteDeferred, Ending, Open
  <1>4. /\ Shape(t, k) /\ Is(t, k) /\ Fr(t, k) = f
        /\ ~Is(t, k)' /\ ~Is(t, k + 1)'
        /\ \A e \in Entities : /\ Drops(f, e) => e = p
                               /\ ~Claims(f, e)
    BY <1>1, <1>2, EntityAssumption
       DEF Ending, Proper, Claims, Drops, Waiting, Alone, Leaving
  <1>5. \A e \in Entities :
              /\ link'[e].closing = link[e].closing
              /\ link'[e].deferred = IF e = p THEN TRUE ELSE link[e].deferred
              /\ link'[e].refc = IF e = p THEN link[e].refc - 1 ELSE link[e].refc
    BY <1>0, <1>3, DeferFields
  <1> HIDE DEF Is, Fr, Shape, RefcInv, ClosedInv, ImplicitInv, ParentInv, DeferInv
  <1>6. \A w \in Entities : (Linked(w)' <=> Linked(w)) /\ (Refers(w)' <=> Refers(w))
    <2>1. f.at \notin TopicPlaces BY <1>1 DEF TopicPlaces
    <2> HIDE DEF Refers, Linked
    <2> QED BY <1>0, <1>3, <1>4, <2>1, SameLinks
  <1>7. ChildrenInv'
    <2> HIDE DEF Linked
    <2> QED BY <1>6, <1>0, <1>3, SameChildren
  <1>8. \A e \in Entities : Referring(e)' = Referring(e) /\ Refs(e)' = Refs(e)
    <2> HIDE DEF Refers, Referring, Refs
    <2> QED BY <1>3, <1>6, SameReferring
  <1>9. p \notin implicit BY <1>0, <1>3 DEF TypeOK
  <1>10. RefcInv'
    <2>1. \A e \in Entities : e # p => Own(e)' = Own(e) BY <1>5 DEF Own
    <2>2. \A e \in Entities : e = p => Own(e)' = 0 /\ Own(e) = 1
      BY <1>3, <1>5, <1>9 DEF Own
    <2>3. \A e \in Entities : link[e].refc \in Int BY <1>0 DEF LinkType
    <2> HIDE DEF Own, Refs
    <2>4. \A e \in Entities \ freed' :
              /\ Refs(e)' = Refs(e)
              /\ link'[e].refc - Own(e)' = link[e].refc - Own(e)
      <3> TAKE e \in Entities \ freed'
      <3>1. CASE e = p
        <4>1. link'[e].refc = link[e].refc - 1 BY <3>1, <1>5
        <4>2. Own(e)' = 0 /\ Own(e) = 1 BY <3>1, <2>2
        <4>3. link'[e].refc - Own(e)' = link[e].refc - Own(e) BY <4>1, <4>2, <2>3
        <4> QED BY <4>3, <1>8
      <3>2. CASE e # p BY <3>2, <2>1, <1>5, <1>8
      <3> QED BY <3>1, <3>2
    <2> QED BY <1>0, <2>4, KeepRefc
  <1>11. \A e \in Entities :
            /\ link[e].closing => link'[e].closing
            /\ link'[e].closing => link[e].closing
    BY <1>5
  <1>12. ClosedInv'
    <2> HIDE DEF Claims
    <2> QED BY <1>0, <1>3, <1>4, <1>11, KeepClosed
  <1>13. ImplicitInv' BY <1>0, <1>1, <1>3, <1>4, <1>11, KeepImplicit
  <1>14. ParentInv' BY <1>0, <1>4, <1>11, KeepParent
  <1>15. DeferInv'
    <2>1. Referring(p) # {}
      <3>1. Own(p) = 1 BY <1>3, <1>9 DEF Own
      <3>2. Refs(p) # {}
        <4> HIDE DEF Refs, Own
        <4> QED BY <3>1, <1>0, <1>3, Counted
      <3> HIDE DEF Refs, Referring
      <3> QED BY <3>2, <1>3, KindsOfRefs
    <2>2. \A e \in Entities :
              /\ link[e].closing => link'[e].closing
              /\ e \in known => e \in known' \/ link'[e].closing
              /\ link'[e].deferred =>
                    \/ link[e].deferred
                    \/ e \in Topics /\ e \in known' /\ Referring(e)' # {}
              /\ link[e].deferred /\ Referring(e) # {} =>
                    Referring(e)' # {} \/ link'[e].closing \/ ToDrop(e)'
              /\ ~(link[e].deferred /\ Drops(f, e))
      <3> HIDE DEF Referring, Drops, ToDrop
      <3> TAKE e \in Entities
      <3>1. CASE e = p BY <3>1, <1>3, <1>5, <1>8, <2>1
      <3>2. CASE e # p BY <3>2, <1>3, <1>4, <1>5, <1>8
      <3> QED BY <3>1, <3>2
    <2> HIDE DEF Referring, Drops, ToDrop
    <2> QED BY <1>0, <1>4, <2>2, KeepDefer
  <1> QED BY <1>7, <1>10, <1>12, <1>13, <1>14, <1>15 DEF RInv

\* The handle goes, but who had it still refers to its parent and topic.
LEMMA HandleCounts ==
    ASSUME IInv, IInv', RInv, implicit' = implicit, NEW t \in Threads, DeleteHandle(t)
    PROVE  RInv'
  <1>0. /\ TypeOK /\ TypeOK' /\ ChildrenInv /\ RefcInv /\ ClosedInv
        /\ ImplicitInv /\ ParentInv /\ DeferInv
        /\ link' \in [Entities -> LinkType] /\ freed \subseteq freed'
    BY DEF IInv, Inv1, RInv, TypeOK, DeleteHandle
  <1>1. PICK k \in Nat, f \in Frames, g \in Frames :
           /\ Moving(t, k, f, g) /\ f.at = "handle"
           /\ g.at = IF Parent[f.of] = None THEN "derive" ELSE "unlink"
    <2>1. "derive" \in Places /\ "unlink" \in Places BY DEF Places, Leaving
    <2>2. /\ Cur(t).at = "handle"
          /\ \E k \in Nat \ {0}, p \in Places :
                /\ Moved(t, k, p)
                /\ p = IF Parent[Cur(t).of] = None THEN "derive" ELSE "unlink"
      BY <2>1, MarkMoves
    <2> HIDE DEF Moved, Cur
    <2> QED BY <2>2, MovedFrames DEF Moving
  <1>2. PICK w \in Entities : w = f.of BY <1>1 DEF Moving
  <1>3. /\ link' = link /\ known' = known \ {w} /\ children' = children /\ freed' = freed
    BY <1>1, <1>2 DEF DeleteHandle, Moving
  <1>4. /\ Shape(t, k) /\ Is(t, k) /\ Fr(t, k) = f
        /\ Is(t, k)' /\ Fr(t, k)' = g /\ ~Is(t, k + 1)'
        /\ g.of = w /\ g.why = f.why /\ g.up = f.up
        /\ \A e \in Entities : ~Drops(f, e) /\ (Claims(f, e) => Claims(g, e))
    BY <1>1, <1>2 DEF Moving, Claims, Drops, Waiting, Alone, Leaving
  <1>5. w \in known /\ link[w].closing
    <2>1. Is(t, k) /\ Fr(t, k).at \in Alone /\ Fr(t, k).of = w
      BY <1>1, <1>2, <1>4 DEF Alone
    <2> HIDE DEF Is, Fr
    <2> QED BY <2>1, Exclusive
  <1> HIDE DEF Is, Fr, Shape, RefcInv, ClosedInv, ImplicitInv, ParentInv, DeferInv
  <1>6. \A c \in Entities : Refers(c)' <=> Refers(c)
    <2>1. g.at \in TopicPlaces /\ f.of \in known BY <1>1, <1>2, <1>5 DEF TopicPlaces
    <2>2. \A c \in Entities : c # f.of => (c \in known' <=> c \in known) BY <1>2, <1>3
    <2> HIDE DEF Refers
    <2> QED BY <1>0, <1>1, <2>1, <2>2, StaysReferring
  <1>7. ChildrenInv'
    <2> HIDE DEF Linked
    <2>1. \A c \in Entities : c # w => (Linked(c)' <=> Linked(c))
      BY <1>0, <1>2, <1>3, <1>4, OtherLinks
    <2>2. Linked(w) /\ (Parent[w] # None => Linked(w)')
      BY <1>0, <1>1, <1>2, <1>4, <1>5, OwnLinks
    <2>3. \A c \in Entities : Parent[c] # None => (Linked(c)' <=> Linked(c)) BY <2>1, <2>2
    <2>4. ChildrenInv' <=> \A c \in Entities : Parent[c] # None =>
                            (c \in children'[Parent[c]] <=> Linked(c)')
      BY DEF ChildrenInv, Linked, InAt
    <2> QED BY <2>3, <2>4, <1>0, <1>3 DEF ChildrenInv
  <1>8. \A e \in Entities : Referring(e)' = Referring(e) /\ Refs(e)' = Refs(e)
    <2> HIDE DEF Refers, Referring, Refs
    <2> QED BY <1>3, <1>6, SameReferring
  <1>9. RefcInv'
    <2>1. \A e \in Entities : Own(e)' = Own(e) BY <1>3 DEF Own
    <2> HIDE DEF Own, Refs
    <2>2. \A e \in Entities \ freed' :
              /\ Refs(e)' = Refs(e)
              /\ link'[e].refc - Own(e)' = link[e].refc - Own(e)
      BY <2>1, <1>3, <1>8
    <2> QED BY <1>0, <2>2, KeepRefc
  <1>10. ClosedInv'
    <2> HIDE DEF Claims
    <2> QED BY <1>0, <1>3, <1>4, KeepClosed
  <1>11. ImplicitInv' BY <1>0, <1>1, <1>3, <1>4, KeepImplicit
  <1>12. ParentInv' BY <1>0, <1>2, <1>3, <1>4, KeepParent
  <1>13. DeferInv'
    <2>1. \A e \in Entities : e \in known => e \in known' \/ link'[e].closing
      BY <1>3, <1>5
    <2> HIDE DEF Referring, Drops
    <2> QED BY <1>0, <1>3, <1>4, <1>8, <2>1, SameDefer
  <1> QED BY <1>7, <1>9, <1>10, <1>11, <1>12, <1>13 DEF RInv

\* Nobody refers to an entity because of its memory.
LEMMA FreeCounts ==
    ASSUME IInv, IInv', RInv, implicit' = implicit, NEW t \in Threads, FreeEntity(t)
    PROVE  RInv'
  <1>0. /\ TypeOK /\ TypeOK' /\ ChildrenInv /\ RefcInv /\ ClosedInv
        /\ ImplicitInv /\ ParentInv /\ DeferInv
        /\ link' \in [Entities -> LinkType] /\ freed \subseteq freed'
    BY DEF IInv, Inv1, RInv, TypeOK, FreeEntity
  <1>1. PICK f \in Frames : f = Cur(t) BY FreeShape DEF Ended, Risen
  <1>2. PICK w \in Entities : w = f.of BY DEF Frames
  <1>3. /\ link' = link /\ known' = known /\ children' = children
        /\ freed' = freed \union {w} /\ f.at = "derived"
    BY <1>1, <1>2, FreeShape
  <1>4. PICK k \in Nat :
           /\ Shape(t, k) /\ Is(t, k) /\ Fr(t, k) = f /\ ~Is(t, k + 1)'
           /\ \/ f.up = None /\ ~Is(t, k)'
              \/ f.up # None /\ Is(t, k)' /\ Fr(t, k)' = Frame(f.up, "implicit", "lock")
    <2>1. /\ Cur(t) = f
          /\ \/ Cur(t).up = None /\ \E k \in Nat \ {0} : Ended(t, k)
             \/ Cur(t).up # None /\ \E k \in Nat \ {0} : Risen(t, k)
      BY <1>1, FreeShape
    <2>2. ASSUME f.up = None, NEW k \in Nat \ {0}, Ended(t, k)
          PROVE  Shape(t, k) /\ Is(t, k) /\ Fr(t, k) = f /\ ~Is(t, k + 1)' /\ ~Is(t, k)'
      BY <2>1, <2>2 DEF Ended
    <2>3. ASSUME f.up # None, NEW k \in Nat \ {0}, Risen(t, k)
          PROVE  /\ Shape(t, k) /\ Is(t, k) /\ Fr(t, k) = f /\ ~Is(t, k + 1)'
                 /\ Is(t, k)' /\ Fr(t, k)' = Frame(f.up, "implicit", "lock")
      BY <2>1, <2>3 DEF Risen
    <2> HIDE DEF Cur, Is, Fr, Shape, Ended, Risen
    <2>4. CASE f.up = None BY <2>1, <2>2, <2>4
    <2>5. CASE f.up # None BY <2>1, <2>3, <2>5
    <2> QED BY <2>4, <2>5
  <1>5. link[w].closing BY <1>2, <1>3, <1>4 DEF Claims, Leaving, IInv, Inv3, ClosingInv
  <1>6. \A e \in Entities : ~Drops(f, e) BY <1>3 DEF Drops
  <1>7. /\ Is(t, k)' => /\ Fr(t, k)'.at = "lock" /\ Fr(t, k)'.why = "implicit"
                        /\ \A e \in Entities : e = f.up => Claims(Fr(t, k)', e)
        /\ Is(t, k)' <=> f.up # None
    <2> DEFINE g == Frame(f.up, "implicit", "lock")
    <2>1. /\ g.at = "lock" /\ g.why = "implicit" /\ g.of = f.up BY DEF Frame
    <2> HIDE DEF g, Is, Fr
    <2>2. \A e \in Entities : e = f.up => Claims(g, e) BY <2>1 DEF Claims, Waiting
    <2>3. Is(t, k)' => Fr(t, k)' = g BY <1>4 DEF g
    <2>4. Is(t, k)' <=> f.up # None BY <1>4
    <2> HIDE DEF Claims
    <2> QED BY <2>1, <2>2, <2>3, <2>4
  <1> HIDE DEF Is, Fr, Shape, RefcInv, ClosedInv, ImplicitInv, ParentInv, DeferInv
  <1>8. \A c \in Entities : (Linked(c)' <=> Linked(c)) /\ (Refers(c)' <=> Refers(c))
    <2>1. Fr(t, k).at \notin TopicPlaces /\ (Is(t, k)' => Fr(t, k)'.at \notin TopicPlaces)
      BY <1>3, <1>4, <1>7 DEF TopicPlaces
    <2> HIDE DEF Refers, Linked
    <2> QED BY <1>0, <1>3, <1>4, <2>1, SameLinks
  <1>9. ChildrenInv'
    <2> HIDE DEF Linked
    <2> QED BY <1>8, <1>0, <1>3, SameChildren
  <1>10. \A e \in Entities : Referring(e)' = Referring(e) /\ Refs(e)' = Refs(e)
    <2> HIDE DEF Refers, Referring, Refs
    <2> QED BY <1>3, <1>8, SameReferring
  <1>11. RefcInv'
    <2>1. \A e \in Entities : Own(e)' = Own(e) BY <1>3 DEF Own
    <2> HIDE DEF Own, Refs
    <2>2. \A e \in Entities \ freed' :
              /\ Refs(e)' = Refs(e)
              /\ link'[e].refc - Own(e)' = link[e].refc - Own(e)
      BY <2>1, <1>3, <1>10
    <2> QED BY <1>0, <2>2, KeepRefc
  <1>12. ClosedInv'
    <2>1. \A e \in Entities : Claims(f, e) =>
              e \in freed' \/ (Is(t, k)' /\ Claims(Fr(t, k)', e))
      <3> TAKE e \in Entities
      <3> HAVE Claims(f, e)
      <3>1. e = w \/ e = f.up BY <1>2 DEF Claims
      <3>2. e # None BY EntityAssumption
      <3> HIDE DEF Claims
      <3> QED BY <3>1, <3>2, <1>3, <1>7
    <2> HIDE DEF Claims
    <2> QED BY <1>0, <1>3, <1>4, <1>5, <2>1, KeepClosed
  <1>13. ImplicitInv' BY <1>0, <1>3, <1>4, KeepImplicit
  <1>14. ParentInv' BY <1>0, <1>3, <1>4, <1>7, KeepParent
  <1>15. DeferInv'
    <2> HIDE DEF Referring, Drops
    <2> QED BY <1>0, <1>3, <1>4, <1>6, <1>10, SameDefer
  <1> QED BY <1>9, <1>11, <1>12, <1>13, <1>14, <1>15 DEF RInv

\* A registered writer is one of the publisher's children.
LEMMA RegistersCounts ==
    ASSUME IInv, IInv', RInv, implicit' = implicit, NEW t \in Threads, CreateRegisters(t)
    PROVE  RInv'
  <1>0. /\ TypeOK /\ TypeOK' /\ ChildrenInv /\ RefcInv /\ ClosedInv
        /\ ImplicitInv /\ ParentInv /\ DeferInv
        /\ link \in [Entities -> LinkType] /\ link' \in [Entities -> LinkType]
        /\ children \in [Entities -> SUBSET Entities]
        /\ freed \subseteq freed'
    BY DEF IInv, Inv1, RInv, TypeOK, CreateRegisters
  <1>1. PICK k \in Nat, f \in Frames, g \in Frames :
           Moving(t, k, f, g) /\ f.at = "referred" /\ g.at = "registered"
    BY MarkMoves, MovedFrames DEF Places, Creating, Moving
  <1>2. PICK w \in Entities : w = f.of BY <1>1 DEF Moving
  <1>3. PICK p \in Entities : p = Parent[w] BY <1>1, <1>2 DEF Moving, Proper, Creating
  <1>4. /\ link' = [link EXCEPT ![p].refc = @ + 1]
        /\ known' = known \union {w} /\ freed' = freed
        /\ children' = [children EXCEPT ![p] = @ \union {w}]
    BY <1>1, <1>2, <1>3 DEF CreateRegisters, Moving
  <1>5. /\ Shape(t, k) /\ Is(t, k) /\ Fr(t, k) = f
        /\ Is(t, k)' /\ Fr(t, k)' = g /\ ~Is(t, k + 1)'
        /\ g.of = w /\ g.why = f.why /\ g.up = f.up
        /\ \A e \in Entities : ~Claims(f, e) /\ ~Drops(f, e)
    BY <1>1, <1>2, EntityAssumption
       DEF Moving, Claims, Drops, Proper, Waiting, Alone, Leaving
  <1>6. w \notin known /\ ~Linked(w) BY <1>1, <1>2, <1>5, Unlisted DEF Pends
  <1>7. \A e \in Entities :
              /\ link'[e].closing = link[e].closing
              /\ link'[e].deferred = link[e].deferred
              /\ link'[e].refc = IF e = p THEN link[e].refc + 1 ELSE link[e].refc
    BY <1>0, <1>4, RefFields
  <1>8. \A e \in Entities : children'[e] = IF e = p THEN children[e] \union {w} ELSE children[e]
    BY <1>0, <1>4
  <1> HIDE DEF Is, Fr, Shape, RefcInv, ClosedInv, ImplicitInv, ParentInv, DeferInv
  <1>9. \A c \in Entities : Refers(c)' <=> Refers(c)
    <2>1. f.at \in TopicPlaces /\ f.of \in known' BY <1>1, <1>2, <1>4 DEF TopicPlaces
    <2>2. \A c \in Entities : c # f.of => (c \in known' <=> c \in known) BY <1>2, <1>4
    <2> HIDE DEF Refers
    <2> QED BY <1>0, <1>1, <2>1, <2>2, StaysReferring
  <1>10. ChildrenInv'
    <2> HIDE DEF Linked
    <2>1. \A c \in Entities : c # w => (Linked(c)' <=> Linked(c))
      BY <1>0, <1>2, <1>4, <1>5, OtherLinks
    <2>2. Linked(w)' BY <1>0, <1>4, <1>5, OwnLinks
    <2>3. ChildrenInv' <=> \A c \in Entities : Parent[c] # None =>
                            (c \in children'[Parent[c]] <=> Linked(c)')
      BY DEF ChildrenInv, Linked, InAt
    <2>4. \A c \in Entities : Parent[c] # None => Parent[c] \in Entities
      BY EntityAssumption
    <2> QED BY <2>1, <2>2, <2>3, <2>4, <1>0, <1>3, <1>8 DEF ChildrenInv
  <1>11. \A e \in Entities : Referring(e)' = Referring(e)
    <2> HIDE DEF Refers, Referring, Refs
    <2> QED BY <1>9, SameReferring
  <1>12. RefcInv'
    <2>1. \A e \in Entities : Own(e)' = Own(e) BY <1>7 DEF Own
    <2>2. ASSUME NEW e \in Entities, e # p
          PROVE  Refs(e)' = Refs(e) /\ link'[e].refc - Own(e)' = link[e].refc - Own(e)
      <3> HIDE DEF Own, Referring
      <3> QED BY <2>1, <2>2, <1>7, <1>8, <1>11 DEF Refs
    <2>3. ASSUME NEW e \in Entities, e = p
          PROVE  /\ Own(e)' = Own(e) /\ link'[e].refc = link[e].refc + 1
                 /\ w \notin Refs(e) /\ Refs(e)' = Refs(e) \union {w}
      <3>1. w \notin children[e]
        BY <2>3, <1>0, <1>3, <1>6, EntityAssumption DEF ChildrenInv
      <3>2. e \notin Topics BY <2>3, <1>3, EntityAssumption
      <3> HIDE DEF Own, Referring
      <3>3. Referring(e) = {} BY <3>2, KindsOfRefs
      <3> QED BY <3>1, <3>3, <2>1, <2>3, <1>7, <1>8, <1>11 DEF Refs
    <2> HIDE DEF Own, Refs
    <2>4. \A e \in Entities \ freed' :
              \/ /\ Refs(e)' = Refs(e)
                 /\ link'[e].refc - Own(e)' = link[e].refc - Own(e)
              \/ /\ Own(e)' = Own(e) /\ link'[e].refc = link[e].refc + 1
                 /\ \E c : c \notin Refs(e) /\ Refs(e)' = Refs(e) \union {c}
      BY <2>2, <2>3
    <2> QED BY <1>0, <2>4, KeepRefc
  <1>13. ClosedInv' BY <1>0, <1>4, <1>5, <1>7, KeepClosed
  <1>14. ImplicitInv' BY <1>8, <1>0, <1>1, <1>5, <1>7, KeepImplicit
  <1>15. ParentInv' BY <1>0, <1>2, <1>5, <1>7, KeepParent
  <1>16. DeferInv'
    <2>1. \A e \in Entities : e \in known => e \in known' BY <1>4
    <2>2. \A e \in Entities : ~Drops(Fr(t, k), e) BY <1>5
    <2> HIDE DEF Referring, Drops
    <2> QED BY <1>0, <1>5, <1>7, <1>11, <2>1, <2>2, SameDefer
  <1> QED BY <1>10, <1>12, <1>13, <1>14, <1>15, <1>16 DEF RInv

\* A child that leaves an open implicit parent without taking it along leaves
\* others behind.
LEMMA OthersRemain ==
    ASSUME IInv, RInv, NEW t \in Threads, NEW k \in Nat, Is(t, k),
           NEW p \in implicit, NEW w \in children[p], Fr(t, k).of = w, Parent[w] = p,
           ~link[p].closing, ~TakesParent(Fr(t, k), p)
    PROVE  children[p] \ {w} # {}
  <1>1. p \in Entities /\ p \in known /\ p \notin Topics
    BY DEF IInv, Inv1, TypeOK, Inv2, OpenInv
  <1>2. Fr(t, k).why # "parent" BY DEF RInv, ParentInv
  <1>3. link[p].refc # 1 BY <1>2 DEF TakesParent
  <1>4. Own(p) = 0 BY DEF Own
  <1> HIDE DEF Refs, Own
  <1>5. Refs(p) = children[p] BY <1>1, KindsOfRefs
  <1> SUFFICES ASSUME children[p] \ {w} = {} PROVE FALSE
    OBVIOUS
  <1>6. Refs(p) = {w} BY <1>5
  <1>7. link[p].refc = Own(p) + 1 BY <1>1, <1>6, Counted
  <1> QED BY <1>3, <1>4, <1>7

\* The activation of a child that leaves its parent, before and after.
LEMMA LeaveFrames ==
    ASSUME IInv, NEW t \in Threads, Unlink(t)
    PROVE  \E k \in Nat, f \in Frames, g \in Frames, w \in Entities :
              /\ f = Cur(t) /\ w = f.of /\ f.at = "unlink"
              /\ Shape(t, k) /\ Is(t, k) /\ Fr(t, k) = f /\ ~Is(t, k + 1)'
              /\ Is(t, k)' /\ Fr(t, k)' = g
              /\ g.of = w /\ g.why = f.why
              /\ \/ TakesParent(f, Parent[w]) /\ g.at = "close" /\ g.up = Parent[w]
                 \/ ~TakesParent(f, Parent[w]) /\ g.at = "derive" /\ g.up = f.up
  <1>1. PICK f \in Frames : f = Cur(t) BY UnlinkShape DEF Moved, TakenUp
  <1>2. PICK w \in Entities : w = f.of BY DEF Frames
  <1>3. PICK p : p = Parent[w] OBVIOUS
  <1>4. TypeOK /\ f.at = "unlink" BY <1>1, UnlinkShape DEF IInv, Inv1
  <1>5. PICK k \in Nat, g \in Frames :
           /\ Shape(t, k) /\ Is(t, k) /\ Fr(t, k) = f /\ ~Is(t, k + 1)'
           /\ Is(t, k)' /\ Fr(t, k)' = g
           /\ g.of = w /\ g.why = f.why
           /\ \/ TakesParent(f, p) /\ g.at = "close" /\ g.up = p
              \/ ~TakesParent(f, p) /\ g.at = "derive" /\ g.up = f.up
    <2>1. /\ Cur(t) = f /\ Parent[Cur(t).of] = p
          /\ \/ TakesParent(Cur(t), p) /\ \E k \in Nat \ {0} : TakenUp(t, k)
             \/ ~TakesParent(Cur(t), p) /\ \E k \in Nat \ {0} : Moved(t, k, "derive")
      BY <1>1, <1>2, <1>3, UnlinkShape
    <2>2. CASE TakesParent(f, p)
      <3>1. PICK k \in Nat \ {0} : TakenUp(t, k) BY <2>1, <2>2
      <3>2. p \in Entities BY <2>2, <1>4 DEF TakesParent, TypeOK
      <3>3. PICK g \in Frames : g = [f EXCEPT !.at = "close", !.up = p]
        BY <3>2 DEF Frames, Places, Leaving
      <3>4. g.of = w /\ g.why = f.why /\ g.at = "close" /\ g.up = p
        BY <3>3, <1>2 DEF Frames
      <3>5. /\ Shape(t, k) /\ Is(t, k) /\ Fr(t, k) = f /\ ~Is(t, k + 1)'
            /\ Is(t, k)'
        BY <3>1, <2>1 DEF TakenUp
      <3>6. Fr(t, k)' = g BY <3>1, <3>3, <2>1 DEF TakenUp
      <3> HIDE DEF Is, Fr, Shape, TakesParent
      <3> QED BY <2>2, <3>4, <3>5, <3>6
    <2>3. CASE ~TakesParent(f, p)
      <3>1. PICK k \in Nat \ {0} : Moved(t, k, "derive") BY <2>1, <2>3
      <3>2. "derive" \in Places BY DEF Places, Leaving
      <3>3. PICK g \in Frames, h \in Frames : Moving(t, k, h, g) /\ g.at = "derive"
        BY <3>1, <3>2, MovedFrames
      <3>4. /\ Shape(t, k) /\ Is(t, k) /\ Fr(t, k) = f /\ ~Is(t, k + 1)'
            /\ Is(t, k)' /\ Fr(t, k)' = g /\ g.of = w /\ g.why = f.why /\ g.up = f.up
        BY <3>3, <1>1, <1>2 DEF Moving
      <3> HIDE DEF Is, Fr, Shape, TakesParent
      <3> QED BY <2>3, <3>3, <3>4
    <2> QED BY <2>2, <2>3
  <1> QED
    <2> HIDE DEF Is, Fr, Shape, TakesParent
    <2> QED BY <1>1, <1>2, <1>3, <1>4, <1>5

\* A reference less, and maybe a pin more.
LEMMA LeaveFields ==
    ASSUME link \in [Entities -> LinkType], NEW p,
           \/ link' = [link EXCEPT ![p].refc = @ - 1]
           \/ link' = [link EXCEPT ![p].refc = @ - 1, ![p].pin = @ + 1]
    PROVE  \A e \in Entities :
              /\ link'[e].closing = link[e].closing
              /\ link'[e].deferred = link[e].deferred
              /\ link'[e].refc = IF e = p THEN link[e].refc - 1 ELSE link[e].refc
  <1>1. \A e \in Entities : link[e].refc + (-1) = link[e].refc - 1 BY DEF LinkType
  <1>2. \/ link' = [link EXCEPT ![p].refc = @ + (-1)]
        \/ link' = [link EXCEPT ![p].refc = @ + (-1), ![p].pin = @ + 1]
    <2>1. p \in Entities => link[p].refc + (-1) = link[p].refc - 1 BY <1>1
    <2>2. CASE p \in Entities BY <2>1, <2>2
    <2>3. CASE p \notin Entities BY <2>3
    <2> QED BY <2>2, <2>3
  <1>3. -1 \in Int OBVIOUS
  <1>4. \A n \in Int : n = -1 =>
           \A e \in Entities :
            /\ link'[e].closing = link[e].closing
            /\ link'[e].deferred = link[e].deferred
            /\ link'[e].refc = IF e = p THEN link[e].refc + n ELSE link[e].refc
    <2> TAKE n \in Int
    <2> HAVE n = -1
    <2>1. \/ link' = [link EXCEPT ![p].refc = @ + n]
          \/ link' = [link EXCEPT ![p].refc = @ + n, ![p].pin = @ + 1]
      BY <1>2
    <2> QED BY <2>1, RefFields
  <1> QED BY <1>1, <1>3, <1>4

\* A child that leaves is one of its parent's references less.
LEMMA UnlinkCounts ==
    ASSUME IInv, IInv', RInv, implicit' = implicit, NEW t \in Threads, Unlink(t)
    PROVE  RInv'
  <1>0. /\ TypeOK /\ TypeOK' /\ ChildrenInv /\ RefcInv /\ ClosedInv
        /\ ImplicitInv /\ ParentInv /\ DeferInv
        /\ link \in [Entities -> LinkType] /\ link' \in [Entities -> LinkType]
        /\ children \in [Entities -> SUBSET Entities]
        /\ freed \subseteq freed'
    BY DEF IInv, Inv1, RInv, TypeOK, Unlink
  <1>1. PICK k \in Nat, f \in Frames, g \in Frames, w \in Entities :
              /\ f = Cur(t) /\ w = f.of /\ f.at = "unlink"
              /\ Shape(t, k) /\ Is(t, k) /\ Fr(t, k) = f /\ ~Is(t, k + 1)'
              /\ Is(t, k)' /\ Fr(t, k)' = g
              /\ g.of = w /\ g.why = f.why
              /\ \/ TakesParent(f, Parent[w]) /\ g.at = "close" /\ g.up = Parent[w]
                 \/ ~TakesParent(f, Parent[w]) /\ g.at = "derive" /\ g.up = f.up
    BY LeaveFrames
  <1>2. w = f.of BY <1>1
  <1>3. PICK p : p = Parent[w] OBVIOUS
  <1>4. /\ f.at = "unlink" /\ known' = known /\ freed' = freed
        /\ children' = [children EXCEPT ![p] = @ \ {w}]
        /\ \/ link' = [link EXCEPT ![p].refc = @ - 1]
           \/ link' = [link EXCEPT ![p].refc = @ - 1, ![p].pin = @ + 1]
    BY <1>1, <1>2, <1>3, UnlinkShape
  <1>5. /\ Shape(t, k) /\ Is(t, k) /\ Fr(t, k) = f /\ ~Is(t, k + 1)'
        /\ Is(t, k)' /\ Fr(t, k)' = g
        /\ g.of = w /\ g.why = f.why
        /\ \/ TakesParent(f, p) /\ g.at = "close" /\ g.up = p
           \/ ~TakesParent(f, p) /\ g.at = "derive" /\ g.up = f.up
    BY <1>1, <1>3
  <1>6. /\ \A e \in Entities : ~Drops(f, e) /\ (Claims(f, e) => Claims(g, e))
        /\ g.at \in {"close", "derive"} /\ g.at \in TopicPlaces /\ f.at \in TopicPlaces
        /\ g.at \in Leaving
    <2>1. Proper(f) BY <1>5 DEF IInv, Inv1, FrameInv
    <2>2. f.up = None BY <2>1, <1>4 DEF Proper
    <2> QED
      BY <2>2, <1>2, <1>4, <1>5, EntityAssumption DEF Claims, Drops, Waiting, Alone, Leaving, TopicPlaces
  <1>7. \A e \in Entities :
              /\ link'[e].closing = link[e].closing
              /\ link'[e].deferred = link[e].deferred
              /\ link'[e].refc = IF e = p THEN link[e].refc - 1 ELSE link[e].refc
    BY <1>0, <1>4, LeaveFields
  <1>8. \A e \in Entities : children'[e] = IF e = p THEN children[e] \ {w} ELSE children[e]
    BY <1>0, <1>4
  <1> HIDE DEF Is, Fr, Shape, RefcInv, ClosedInv, ImplicitInv, ParentInv, DeferInv
  <1>9. \A c \in Entities : c # w => (Linked(c)' <=> Linked(c)) /\ (Refers(c)' <=> Refers(c))
    <2> HIDE DEF Linked, Refers
    <2> QED BY <1>0, <1>2, <1>4, <1>5, OtherLinks
  <1>10. Linked(w) /\ Refers(w) /\ Refers(w)'
    <2> HIDE DEF Linked, Refers
    <2> QED BY <1>0, <1>2, <1>4, <1>5, <1>6, OwnLinks
  <1>11. ~Linked(w)'
    <2>1. Parted' BY PartedLater
    <2> HIDE DEF Linked, Refers
    <2> QED BY <2>1, <1>5, <1>6 DEF Parted
  <1>12. \A c \in Entities : Refers(c)' <=> Refers(c)
    <2> HIDE DEF Refers
    <2> QED BY <1>9, <1>10
  <1>13. ChildrenInv'
    <2>1. ChildrenInv' <=> \A c \in Entities : Parent[c] # None =>
                            (c \in children'[Parent[c]] <=> Linked(c)')
      BY DEF ChildrenInv, Linked, InAt
    <2>2. \A c \in Entities : Parent[c] # None => Parent[c] \in Entities
      BY EntityAssumption
    <2> HIDE DEF Linked
    <2> QED BY <2>1, <2>2, <1>0, <1>3, <1>8, <1>9, <1>11 DEF ChildrenInv
  <1>14. \A e \in Entities : Referring(e)' = Referring(e)
    <2> HIDE DEF Refers, Referring, Refs
    <2> QED BY <1>12, SameReferring
  <1>15. p \in Entities => w \in children[p] /\ p \notin Topics /\ p # None
    BY <1>0, <1>3, <1>10, EntityAssumption DEF ChildrenInv
  <1>16. RefcInv'
    <2>1. \A e \in Entities : Own(e)' = Own(e) BY <1>7 DEF Own
    <2>2. ASSUME NEW e \in Entities, e # p
          PROVE  Refs(e)' = Refs(e) /\ link'[e].refc - Own(e)' = link[e].refc - Own(e)
      <3> HIDE DEF Own, Referring
      <3> QED BY <2>1, <2>2, <1>7, <1>8, <1>14 DEF Refs
    <2>3. ASSUME NEW e \in Entities, e = p
          PROVE  /\ Own(e)' = Own(e) /\ link'[e].refc = link[e].refc - 1
                 /\ w \in Refs(e) /\ Refs(e)' = Refs(e) \ {w}
      <3> HIDE DEF Own, Referring
      <3>1. Referring(e) = {} BY <2>3, <1>15, KindsOfRefs
      <3> QED
        <4>1. Own(e)' = Own(e) /\ link'[e].refc = link[e].refc - 1 BY <2>1, <2>3, <1>7
        <4>2. /\ w \in children[e] /\ children'[e] = children[e] \ {w}
              /\ Referring(e)' = {}
          BY <3>1, <2>3, <1>8, <1>14, <1>15
        <4>3. Refs(e) = children[e] /\ Refs(e)' = children'[e] BY <3>1, <4>2 DEF Refs
        <4> HIDE DEF Refs
        <4> QED BY <4>1, <4>2, <4>3
    <2> HIDE DEF Own, Refs
    <2>4. \A e \in Entities \ freed' :
              \/ /\ Refs(e)' = Refs(e)
                 /\ link'[e].refc - Own(e)' = link[e].refc - Own(e)
              \/ /\ Own(e)' = Own(e) /\ link'[e].refc = link[e].refc - 1
                 /\ \E c \in Refs(e) : Refs(e)' = Refs(e) \ {c}
      BY <2>2, <2>3
    <2> QED BY <1>0, <2>4, KeepRefc
  <1>17. ClosedInv'
    <2> HIDE DEF Claims
    <2> QED BY <1>0, <1>4, <1>5, <1>6, <1>7, KeepClosed
  <1>18. ImplicitInv'
    <2>1. \A e \in Entities : e \in implicit /\ children[e] # {} =>
                    \/ children'[e] # {} \/ link'[e].closing
                    \/ Is(t, k)' /\ Fr(t, k)'.at = "close" /\ Fr(t, k)'.up = e
      <3> TAKE e \in Entities
      <3> HAVE e \in implicit /\ children[e] # {}
      <3>1. CASE e # p BY <3>1, <1>8
      <3>2. CASE e = p /\ (link[p].closing \/ TakesParent(f, p))
        BY <3>2, <1>5, <1>7 DEF TakesParent
      <3>3. CASE e = p /\ ~link[p].closing /\ ~TakesParent(f, p)
        <4>1. children[p] \ {w} # {} BY <3>3, <1>2, <1>3, <1>5, <1>15, OthersRemain
        <4> QED BY <3>3, <4>1, <1>8
      <3> QED BY <3>1, <3>2, <3>3
    <2> QED BY <1>0, <1>4, <1>5, <1>7, <2>1, KeepImplicit
  <1>19. ParentInv' BY <1>0, <1>2, <1>5, <1>7, KeepParent
  <1>20. DeferInv'
    <2>1. \A e \in Entities : ~Drops(Fr(t, k), e) BY <1>5, <1>6
    <2> HIDE DEF Referring, Drops
    <2> QED BY <1>0, <1>4, <1>5, <1>7, <1>14, <2>1, SameDefer
  <1> QED BY <1>13, <1>16, <1>17, <1>18, <1>19, <1>20 DEF RInv

\* A reference less, in the form of the actions.
LEMMA LessFields ==
    ASSUME link \in [Entities -> LinkType], NEW x, link' = [link EXCEPT ![x].refc = @ - 1]
    PROVE  \A e \in Entities :
              /\ link'[e].closing = link[e].closing
              /\ link'[e].deferred = link[e].deferred
              /\ link'[e].refc = IF e = x THEN link[e].refc - 1 ELSE link[e].refc
  <1>1. \A e \in Entities : link[e].refc + (-1) = link[e].refc - 1 BY DEF LinkType
  <1>2. link' = [link EXCEPT ![x].refc = @ + (-1)]
    <2>1. x \in Entities => link[x].refc + (-1) = link[x].refc - 1 BY <1>1
    <2>2. CASE x \in Entities BY <2>1, <2>2
    <2>3. CASE x \notin Entities BY <2>3
    <2> QED BY <2>2, <2>3
  <1>3. -1 \in Int OBVIOUS
  <1>4. \A n \in Int : n = -1 =>
             \A e \in Entities :
              /\ link'[e].closing = link[e].closing
              /\ link'[e].deferred = link[e].deferred
              /\ link'[e].refc = IF e = x THEN link[e].refc + n ELSE link[e].refc
    <2> TAKE n \in Int
    <2> HAVE n = -1
    <2>1. \/ link' = [link EXCEPT ![x].refc = @ + n]
          \/ link' = [link EXCEPT ![x].refc = @ + n, ![x].pin = @ + 1]
      BY <1>2
    <2> QED BY <2>1, RefFields
  <1> QED BY <1>1, <1>3, <1>4

\* A writer that is not the last one of a deleted topic leaves others behind.
LEMMA OthersRefer ==
    ASSUME IInv, RInv, NEW x \in Topics, NEW w \in Referring(x),
           link[x].deferred, ~link[x].closing, link[x].refc # 1
    PROVE  Referring(x) \ {w} # {}
  <1>1. x \in Entities /\ x \in known BY EntityAssumption DEF RInv, DeferInv
  <1>2. Own(x) = 0 BY DEF Own
  <1> HIDE DEF Refs, Own, Referring
  <1>3. Refs(x) = Referring(x) BY <1>1, KindsOfRefs
  <1> SUFFICES ASSUME Referring(x) \ {w} = {} PROVE FALSE
    OBVIOUS
  <1>4. Refs(x) = {w} BY <1>3
  <1>5. link[x].refc = Own(x) + 1 BY <1>1, <1>4, Counted
  <1> QED BY <1>2, <1>5

\* What the activation does when the writer drops its topic.
LEMMA DropFrames ==
    ASSUME IInv, NEW t \in Threads, Derive(t)
    PROVE  \E k \in Nat, f \in Frames, g \in Frames, w \in Entities :
              /\ Shape(t, k) /\ k = Len(stack[t])
              /\ Is(t, k) /\ Fr(t, k) = f /\ f = Cur(t) /\ f.of = w /\ f.at = "derive"
              /\ Is(t, k)' /\ Fr(t, k)' = g
              /\ g.of = w /\ g.why = f.why /\ g.up = f.up /\ g.at = "derived"
              /\ \/ ~Is(t, k + 1)' /\ (TopicOf[w] = None \/ link[TopicOf[w]].refc # 1)
                 \/ /\ TopicOf[w] # None /\ link[TopicOf[w]].refc = 1
                    /\ Is(t, k + 1)' /\ Fr(t, k + 1)' = Frame(TopicOf[w], "ref", "pin")
  <1>1. PICK f \in Frames : f = Cur(t) BY DeriveShape DEF Moved, Dropped
  <1>2. PICK w \in Entities : w = f.of BY DEF Frames
  <1>3. PICK x : x = TopicOf[w] OBVIOUS
  <1>4. /\ Cur(t) = f /\ TopicOf[Cur(t).of] = x /\ Cur(t).at = "derive"
        /\ \/ /\ x = None \/ link[x].refc # 1
              /\ \E k \in Nat \ {0} : Moved(t, k, "derived")
           \/ /\ x # None /\ link[x].refc = 1
              /\ \E k \in Nat \ {0} : Dropped(t, k, x)
    BY <1>1, <1>2, <1>3, DeriveShape
  <1>5. "derived" \in Places BY DEF Places, Leaving
  <1>6. ASSUME x = None \/ link[x].refc # 1, NEW k \in Nat \ {0}, Moved(t, k, "derived")
        PROVE  \E g \in Frames :
                  /\ Shape(t, k) /\ k = Len(stack[t]) /\ Is(t, k) /\ Fr(t, k) = f
                  /\ Is(t, k)' /\ Fr(t, k)' = g /\ ~Is(t, k + 1)'
                  /\ g.of = w /\ g.why = f.why /\ g.up = f.up /\ g.at = "derived"
    <2>1. PICK g \in Frames, h \in Frames : Moving(t, k, h, g) /\ g.at = "derived"
      BY <1>5, <1>6, MovedFrames
    <2> QED BY <2>1, <1>1, <1>2 DEF Moving
  <1>7. ASSUME x # None, link[x].refc = 1, NEW k \in Nat \ {0}, Dropped(t, k, x)
        PROVE  \E g \in Frames :
                  /\ Shape(t, k) /\ k = Len(stack[t]) /\ Is(t, k) /\ Fr(t, k) = f
                  /\ Is(t, k)' /\ Fr(t, k)' = g
                  /\ Is(t, k + 1)' /\ Fr(t, k + 1)' = Frame(x, "ref", "pin")
                  /\ g.of = w /\ g.why = f.why /\ g.up = f.up /\ g.at = "derived"
    <2>1. PICK g \in Frames : g = [f EXCEPT !.at = "derived"] BY <1>5 DEF Frames
    <2>2. g.of = w /\ g.why = f.why /\ g.up = f.up /\ g.at = "derived"
      BY <2>1, <1>2 DEF Frames
    <2>3. /\ Shape(t, k) /\ k = Len(stack[t]) /\ Is(t, k) /\ Fr(t, k) = f /\ Is(t, k)'
          /\ Is(t, k + 1)' /\ Fr(t, k + 1)' = Frame(x, "ref", "pin")
      BY <1>4, <1>7 DEF Dropped
    <2>4. Fr(t, k)' = g BY <2>1, <1>4, <1>7 DEF Dropped
    <2> HIDE DEF Is, Fr, Shape
    <2> QED BY <2>2, <2>3, <2>4
  <1> HIDE DEF Is, Fr, Shape, Moved, Dropped, Cur
  <1>8. CASE x = None \/ link[x].refc # 1
    <2>1. PICK k \in Nat \ {0} : Moved(t, k, "derived") BY <1>4, <1>8
    <2> QED BY <2>1, <1>2, <1>3, <1>4, <1>6, <1>8
  <1>9. CASE x # None /\ link[x].refc = 1
    <2>1. PICK k \in Nat \ {0} : Dropped(t, k, x) BY <1>4, <1>9
    <2> QED BY <2>1, <1>2, <1>3, <1>4, <1>7, <1>9
  <1> QED BY <1>8, <1>9

\* A writer that drops its topic is one of the topic's references less, and the
\* last one takes the deleted topic along.
LEMMA DeriveCounts ==
    ASSUME IInv, IInv', RInv, implicit' = implicit, NEW t \in Threads, Derive(t)
    PROVE  RInv'
  <1>0. /\ TypeOK /\ TypeOK' /\ ChildrenInv /\ RefcInv /\ ClosedInv
        /\ ImplicitInv /\ ParentInv /\ DeferInv
        /\ link \in [Entities -> LinkType] /\ link' \in [Entities -> LinkType]
        /\ freed \subseteq freed'
        /\ known' = known /\ freed' = freed /\ children' = children
    BY DEF IInv, Inv1, RInv, TypeOK, Derive
  <1>1. PICK k \in Nat, f \in Frames, g \in Frames, w \in Entities :
              /\ Shape(t, k) /\ k = Len(stack[t])
              /\ Is(t, k) /\ Fr(t, k) = f /\ f = Cur(t) /\ f.of = w /\ f.at = "derive"
              /\ Is(t, k)' /\ Fr(t, k)' = g
              /\ g.of = w /\ g.why = f.why /\ g.up = f.up /\ g.at = "derived"
              /\ \/ ~Is(t, k + 1)' /\ (TopicOf[w] = None \/ link[TopicOf[w]].refc # 1)
                 \/ /\ TopicOf[w] # None /\ link[TopicOf[w]].refc = 1
                    /\ Is(t, k + 1)' /\ Fr(t, k + 1)' = Frame(TopicOf[w], "ref", "pin")
    BY DropFrames
  <1>2. PICK x : x = TopicOf[w] OBVIOUS
  <1>3. /\ x = None => link' = link
        /\ x # None => link' = [link EXCEPT ![x].refc = @ - 1]
        /\ x # None => x \in Topics /\ x \in Entities
    BY <1>1, <1>2, EntityAssumption DEF Derive
  <1>4. \A e \in Entities : ~Drops(f, e) /\ (Claims(f, e) => Claims(g, e))
    BY <1>1 DEF Claims, Drops, Waiting, Alone, Leaving
  <1>5. \A e \in Entities :
              /\ link'[e].closing = link[e].closing
              /\ link'[e].deferred = link[e].deferred
              /\ link'[e].refc = IF e = x THEN link[e].refc - 1 ELSE link[e].refc
    <2>1. CASE x = None BY <2>1, <1>3, EntityAssumption
    <2>2. CASE x # None BY <2>2, <1>0, <1>3, LessFields
    <2> QED BY <2>1, <2>2
  <1>6. f.at \in TopicPlaces /\ g.at \notin TopicPlaces /\ g.at \in Leaving
    BY <1>1 DEF TopicPlaces, Leaving
  <1> HIDE DEF Is, Fr, Shape, RefcInv, ClosedInv, ImplicitInv, ParentInv, DeferInv
  <1>7. \A c \in Entities : c # w => (Linked(c)' <=> Linked(c)) /\ (Refers(c)' <=> Refers(c))
    <2> HIDE DEF Linked, Refers
    <2> QED BY <1>0, <1>1, OtherLinks
  <1>8. Refers(w)
    <2> HIDE DEF Linked, Refers
    <2> QED BY <1>0, <1>1, <1>6, OwnLinks
  <1>9. ~Refers(w)' /\ (Linked(w)' <=> Linked(w))
    <2>1. Parted /\ Parted' BY PartedHolds, PartedLater
    <2>2. f.at \in Leaving /\ f.at # "unlink" /\ g.at # "unlink" BY <1>1 DEF Leaving
    <2> HIDE DEF Linked, Refers
    <2> QED BY <2>1, <2>2, <1>1, <1>6 DEF Parted
  <1>10. ChildrenInv'
    <2> HIDE DEF Linked, Refers
    <2>1. \A c \in Entities : Linked(c)' <=> Linked(c) BY <1>7, <1>9
    <2> QED BY <2>1, <1>0, SameChildren
  <1>11. \A e \in Entities :
            /\ e # x => Referring(e)' = Referring(e)
            /\ e = x => w \in Referring(e) /\ Referring(e)' = Referring(e) \ {w}
    <2> TAKE e \in Entities
    <2>1. Referring(e)' = {c \in Entities : TopicOf[c] = e /\ Refers(c)'}
      BY DEF Referring, Refers, InAt
    <2> HIDE DEF Refers
    <2> QED BY <2>1, <1>2, <1>7, <1>8, <1>9 DEF Referring
  <1>12. RefcInv'
    <2>1. \A e \in Entities : Own(e)' = Own(e) BY <1>5 DEF Own
    <2>2. ASSUME NEW e \in Entities, e # x
          PROVE  Refs(e)' = Refs(e) /\ link'[e].refc - Own(e)' = link[e].refc - Own(e)
      <3> HIDE DEF Own, Referring
      <3> QED BY <2>1, <2>2, <1>0, <1>5, <1>11 DEF Refs
    <2>3. ASSUME NEW e \in Entities, e = x
          PROVE  /\ Own(e)' = Own(e) /\ link'[e].refc = link[e].refc - 1
                 /\ w \in Refs(e) /\ Refs(e)' = Refs(e) \ {w}
      <3>1. Own(e)' = Own(e) /\ link'[e].refc = link[e].refc - 1 BY <2>1, <2>3, <1>5
      <3>2. e \in Topics BY <2>3, <1>3, EntityAssumption
      <3>3. w \in Referring(e) /\ Referring(e)' = Referring(e) \ {w} BY <2>3, <1>11
      <3>4. children[e] = {} /\ children'[e] = {} BY <3>2, <1>0, KindsOfRefs
      <3>5. Refs(e) = Referring(e) /\ Refs(e)' = Referring(e)' BY <3>4 DEF Refs
      <3> HIDE DEF Own, Referring, Refs
      <3> QED BY <3>1, <3>3, <3>5
    <2> HIDE DEF Own, Refs
    <2>4. \A e \in Entities \ freed' :
              \/ /\ Refs(e)' = Refs(e)
                 /\ link'[e].refc - Own(e)' = link[e].refc - Own(e)
              \/ /\ Own(e)' = Own(e) /\ link'[e].refc = link[e].refc - 1
                 /\ \E c \in Refs(e) : Refs(e)' = Refs(e) \ {c}
      BY <2>2, <2>3
    <2> QED BY <1>0, <2>4, KeepRefc
  <1>13. ClosedInv'
    <2> HIDE DEF Claims
    <2> QED BY <1>0, <1>1, <1>4, <1>5, KeepClosed
  <1>14. ImplicitInv' BY <1>0, <1>1, <1>5, KeepImplicit
  <1>15. ParentInv' BY <1>1, <1>0, <1>5, KeepParent DEF Frame
  <1>16. DeferInv'
    <2>1. ASSUME NEW e \in Entities, link[e].deferred, Referring(e) # {}
          PROVE  Referring(e)' # {} \/ link'[e].closing \/ ToDrop(e)'
      <3> HIDE DEF ToDrop, Referring
      <3>1. CASE e # x BY <3>1, <2>1, <1>11
      <3>2. CASE e = x /\ link[e].closing BY <3>2, <1>5
      <3>3. CASE e = x /\ link[e].refc = 1
        <4>1. Is(t, k + 1)' /\ Fr(t, k + 1)' = Frame(e, "ref", "pin")
          BY <3>3, <1>1, <1>2, EntityAssumption
        <4>2. Drops(Frame(e, "ref", "pin"), e) BY DEF Drops, Frame
        <4>3. Is(t, k + 1)' /\ Drops(Fr(t, k + 1)', e) => ToDrop(e)'
          <5> HIDE DEF Drops
          <5> QED BY <1>0, <1>1, OthersStay
        <4> QED BY <4>1, <4>2, <4>3
      <3>4. CASE e = x /\ ~link[e].closing /\ link[e].refc # 1
        BY <3>4, <1>3, <1>11, <2>1, EntityAssumption, OthersRefer
      <3> QED BY <3>1, <3>2, <3>3, <3>4
    <2>2. \A e \in Entities :
              /\ link[e].closing => link'[e].closing
              /\ e \in known => e \in known' \/ link'[e].closing
              /\ link'[e].deferred =>
                    \/ link[e].deferred
                    \/ e \in Topics /\ e \in known' /\ Referring(e)' # {}
              /\ link[e].deferred /\ Referring(e) # {} =>
                    Referring(e)' # {} \/ link'[e].closing \/ ToDrop(e)'
              /\ ~Drops(Fr(t, k), e)
      <3> HIDE DEF ToDrop, Referring, Drops
      <3> QED BY <2>1, <1>0, <1>1, <1>4, <1>5
    <2> HIDE DEF Referring, ToDrop, Drops
    <2> QED BY <1>0, <1>1, <2>2, KeepDefer
  <1> QED BY <1>10, <1>12, <1>13, <1>14, <1>15, <1>16 DEF RInv

-----------------------------------------------------------------------------
(* The counts are always right                                              *)

\* To begin with everybody is counted where it belongs.
LEMMA InitRInv == Init => RInv
  <1> SUFFICES ASSUME Init PROVE RInv
    OBVIOUS
  <1>1. PICK s \in Scenes :
           /\ implicit = s.implicit
           /\ link = [e \in Entities |->
                        [closing |-> e \notin s.present \union s.unborn,
                         deferred |-> FALSE, pin |-> 0,
                         refc |-> Cardinality({c \in s.present : e \in {Parent[c], TopicOf[c]}})
                                  + IF e \in s.implicit THEN 0 ELSE 1]]
           /\ known = s.present
           /\ children = [e \in Entities |-> {c \in s.present : Parent[c] = e}]
           /\ freed = Entities \ (s.present \union s.unborn)
           /\ stack = [t \in Threads |-> <<>>]
    BY DEF Init
  <1>2. /\ s.present \subseteq Entities /\ IsFiniteSet(s.present)
        /\ s.implicit \subseteq s.present
        /\ \A e \in s.implicit : \E c \in s.present : Parent[c] = e
    BY EntityAssumption
  <1>3. \A t \in Threads, d \in Nat : ~Is(t, d) BY <1>1 DEF Is
  <1> DEFINE kids(e) == {c \in s.present : e \in {Parent[c], TopicOf[c]}}
             n(e) == Cardinality(kids(e)) + IF e \in s.implicit THEN 0 ELSE 1
             b(e) == e \notin s.present \union s.unborn
  <1>4. \A e \in Entities : /\ link[e].closing = b(e) /\ link[e].deferred = FALSE
                            /\ link[e].refc = n(e)
    <2>1. link = [e \in Entities |->
                    [closing |-> b(e), deferred |-> FALSE, pin |-> 0, refc |-> n(e)]]
      BY <1>1
    <2> HIDE DEF b, n
    <2>2. \A e \in Entities :
             link[e] = [closing |-> b(e), deferred |-> FALSE, pin |-> 0, refc |-> n(e)]
      BY <2>1
    <2> TAKE e \in Entities
    <2> DEFINE r == [closing |-> b(e), deferred |-> FALSE, pin |-> 0, refc |-> n(e)]
    <2>3. r.closing = b(e) /\ r.deferred = FALSE /\ r.refc = n(e) OBVIOUS
    <2>4. link[e] = r BY <2>2
    <2> HIDE DEF r
    <2> QED BY <2>3, <2>4
  <1>5. \A e \in Entities : (Linked(e) <=> e \in s.present) /\ (Refers(e) <=> e \in s.present)
    BY <1>1, <1>3 DEF Linked, Refers, InAt
  <1>6. ChildrenInv
    <2> HIDE DEF Linked
    <2>1. \A c \in Entities : Parent[c] # None => Parent[c] \in Entities
      BY EntityAssumption
    <2> QED BY <2>1, <1>1, <1>5 DEF ChildrenInv
  <1>7. RefcInv
    <2> SUFFICES ASSUME NEW e \in Entities \ freed
                 PROVE  IsFiniteSet(Refs(e)) /\ link[e].refc = Own(e) + Cardinality(Refs(e))
      BY DEF RefcInv
    <2>1. Refs(e) = kids(e)
      <3>1. children[e] = {c \in s.present : Parent[c] = e} BY <1>1
      <3>2. Referring(e) = {c \in s.present : TopicOf[c] = e}
        <4> HIDE DEF Refers
        <4> QED BY <1>2, <1>5 DEF Referring
      <3> QED BY <3>1, <3>2 DEF Refs
    <2>2. IsFiniteSet(kids(e)) /\ Cardinality(kids(e)) \in Nat
      <3>1. kids(e) \subseteq s.present OBVIOUS
      <3> HIDE DEF kids
      <3> QED BY <3>1, <1>2, FS_Subset, FS_CardinalityType
    <2>3. ~link[e].closing BY <1>1, <1>4
    <2>4. Own(e) = IF e \in s.implicit THEN 0 ELSE 1 BY <2>3, <1>1, <1>4 DEF Own
    <2>5. link[e].refc = Cardinality(kids(e)) + Own(e) BY <2>4, <1>4
    <2>6. Own(e) \in Nat BY <2>4
    <2> HIDE DEF kids, Own, Refs
    <2> QED BY <2>1, <2>2, <2>5, <2>6
  <1>8. ClosedInv
    <2> HIDE DEF n
    <2> QED BY <1>1, <1>4 DEF ClosedInv
  <1>9. ImplicitInv BY <1>1, <1>2 DEF ImplicitInv
  <1>10. ParentInv BY <1>3 DEF ParentInv
  <1>11. DeferInv BY <1>4 DEF DeferInv
  <1> QED BY <1>6, <1>7, <1>8, <1>9, <1>10, <1>11 DEF RInv

\* They stay so while nothing happens.
LEMMA StutterCounts ==
    ASSUME IInv, RInv, implicit' = implicit, UNCHANGED vars
    PROVE  RInv'
  <1>1. /\ link' = link /\ known' = known /\ children' = children
        /\ freed' = freed /\ stack' = stack
    BY DEF vars
  <1>2. \A c : (Linked(c)' <=> Linked(c)) /\ (Refers(c)' <=> Refers(c))
    BY <1>1 DEF Linked, Refers, InAt, Is, Fr
  <1>3. \A e : Referring(e)' = Referring(e)
    <2> TAKE e
    <2>1. Referring(e)' = {c \in Entities : TopicOf[c] = e /\ Refers(c)'}
      BY DEF Referring, Refers, InAt
    <2> HIDE DEF Refers
    <2> QED BY <2>1, <1>2 DEF Referring
  <1>4. ChildrenInv'
    <2>1. \A c \in Entities : Linked(c)' <=> Linked(c) BY <1>2
    <2> HIDE DEF Linked, ChildrenInv
    <2>2. ChildrenInv BY DEF RInv
    <2> QED BY <2>1, <2>2, <1>1, SameChildren
  <1>5. RefcInv'
    <2>1. \A e : Refs(e)' = Refs(e) /\ Own(e)' = Own(e) BY <1>1, <1>3 DEF Refs, Own
    <2>2. RefcInv' <=> \A e \in Entities \ freed' :
             IsFiniteSet(Refs(e)') /\ link'[e].refc = Own(e)' + Cardinality(Refs(e)')
      BY DEF RefcInv
    <2> HIDE DEF Refs, Own
    <2> QED BY <2>1, <2>2, <1>1 DEF RInv, RefcInv
  <1>6. ClosedInv' /\ ImplicitInv' /\ ParentInv'
    BY <1>1 DEF RInv, ClosedInv, ImplicitInv, ParentInv, Claimed, Taken, Claims, Is, Fr
  <1>7. DeferInv'
    <2>1. \A e : ToDrop(e)' <=> ToDrop(e) BY <1>1 DEF ToDrop, Drops, Is, Fr
    <2>2. DeferInv' <=> \A e \in Entities : link'[e].deferred =>
             /\ e \in Topics
             /\ link'[e].closing \/ e \in known'
             /\ link'[e].closing \/ Referring(e)' # {} \/ ToDrop(e)'
      BY DEF DeferInv
    <2> HIDE DEF ToDrop, Referring
    <2> QED BY <2>1, <2>2, <1>1, <1>3 DEF RInv, DeferInv
  <1> QED BY <1>4, <1>5, <1>6, <1>7 DEF RInv

\* Every step keeps the counts right.
LEMMA NextCounts ==
    ASSUME IInv, RInv, implicit' = implicit, Next
    PROVE  RInv'
  <1>0. IInv' BY NextKeeps
  <1>1. PICK t \in Threads :
           \/ Operate(t) \/ Delete(t)
           \/ \E e \in Entities : StartDelete(t, e) \/ StartUse(t, e)
           \/ \E w \in unborn : StartCreate(t, w)
    BY DEF Next
  <1>2. CASE Operate(t)
    BY <1>0, <1>2, QuietKeeps, RefersCounts, RegistersCounts DEF Operate
  <1>3. CASE Delete(t)
    <2>1. CASE \/ DeleteRefused(t) \/ LockAndInterrupt(t) \/ CloseWait(t)
               \/ WaitForChild(t) \/ DeleteChild(t) \/ ChildrenDone(t)
      BY <2>1, <1>0, QuietKeeps
    <2>2. CASE DeleteDeferred(t) \/ PinForDelete(t)
      BY <2>2, <1>0, DeferredCounts, PinCounts
    <2>3. CASE DeleteHandle(t) \/ Unlink(t) \/ CloseParent(t)
      BY <2>3, <1>0, HandleCounts, UnlinkCounts, CloseCounts
    <2>4. CASE Derive(t) \/ FreeEntity(t) BY <2>4, <1>0, DeriveCounts, FreeCounts
    <2> QED BY <1>3, <2>1, <2>2, <2>3, <2>4 DEF Delete
  <1>4. CASE \E e \in Entities : StartDelete(t, e) \/ StartUse(t, e)
    BY <1>0, <1>4, QuietKeeps
  <1>5. CASE \E w \in unborn : StartCreate(t, w)
    BY <1>0, <1>5, QuietKeeps DEF IInv, Inv1, TypeOK
  <1> QED BY <1>1, <1>2, <1>3, <1>4, <1>5

\* What the reference count of a handle stands for (cnt_flags, children and
\* dds_entity_add_ref): until an entity is freed, its children, the writers that
\* have not dropped it, and its own reference.
THEOREM RefcCounts == Spec => [](IInv /\ RInv)
  <1>1. Init => IInv /\ RInv BY InitIInv, InitRInv
  <1>2. IInv /\ RInv /\ [Next /\ UNCHANGED implicit]_<<implicit, vars>> => (IInv /\ RInv)'
    <2> SUFFICES ASSUME IInv, RInv, [Next /\ UNCHANGED implicit]_<<implicit, vars>>
                 PROVE  IInv' /\ RInv'
      OBVIOUS
    <2>1. CASE Next /\ UNCHANGED implicit BY <2>1, NextKeeps, NextCounts
    <2>2. CASE UNCHANGED <<implicit, vars>> BY <2>2, StutterKeeps, StutterCounts
    <2> QED BY <2>1, <2>2
  <1> QED BY <1>1, <1>2, PTL DEF Spec

\* No deletion is forgotten: when no call is in progress an entity is either
\* there or freed, with no pins left; an implicit publisher is there only if it
\* has a child, and a topic that was deleted only if a writer refers to it.
THEOREM NothingIsHalfDeleted == Spec => []NothingHalfDeleted
  <1>1. IInv /\ RInv => NothingHalfDeleted
    <2> SUFFICES ASSUME IInv, RInv, \A t \in Threads : stack[t] = <<>>,
                        NEW e \in Entities, e \in known \union freed \/ link[e].closing
                 PROVE  /\ e \in known <=> e \notin freed
                        /\ e \in freed <=> link[e].closing
                        /\ e \in known => link[e].pin = 0
                        /\ e \in known /\ e \in implicit => children[e] # {}
                        /\ e \in known /\ link[e].deferred =>
                              \E w \in known : TopicOf[w] = e
      BY DEF NothingHalfDeleted
    <2>1. \A t \in Threads, d \in Nat : ~Is(t, d) BY DEF Is
    <2>2. e \in freed <=> link[e].closing BY <2>1 DEF RInv, ClosedInv, Claimed
    <2>3. e \in known <=> e \notin freed BY <2>2 DEF IInv, Inv2, GoneInv
    <2>4. e \in known => link[e].pin = 0
      BY <2>1, FS_EmptySet DEF Pins, Held, IInv, Inv2, PinInv
    <2>5. e \in known /\ e \in implicit => children[e] # {}
      BY <2>1, <2>2, <2>3 DEF RInv, ImplicitInv, Taken
    <2>6. e \in known /\ link[e].deferred => \E w \in known : TopicOf[w] = e
      <3> HAVE e \in known /\ link[e].deferred
      <3>1. Referring(e) # {}
        <4>1. ~ToDrop(e) BY <2>1 DEF ToDrop
        <4> HIDE DEF Referring, ToDrop
        <4> QED BY <4>1, <2>2, <2>3 DEF RInv, DeferInv
      <3> QED BY <3>1, <2>1 DEF Referring, Refers, InAt
    <2> QED BY <2>2, <2>3, <2>4, <2>5, <2>6
  <1> QED BY <1>1, RefcCounts, PTL

-----------------------------------------------------------------------------
(* What holds but for the known limits                                      *)

\* The three steps that dds_delete does not expect, excluded.  A deletion that
\* waits for a child wakes up when that is gone; a writer comes to refer to no
\* topic that is being deleted; and nobody but the last writer deletes a topic
\* that this is to delete.
Orderly ==
    /\ \A t \in Threads : At(t, "asleep") /\ At(t, "awake")' =>
          Cur(t).cursor \notin children'[Cur(t).of]
    /\ \A t \in Threads : CreateRefersTopic(t) =>
          ~link[TopicOf[Cur(t).of]].closing /\ ~ToDrop(TopicOf[Cur(t).of])
    /\ \A t \in Threads : PinForDelete(t) /\ Cur(t).why # "ref" => ~ToDrop(Cur(t).of)

\* The visit of the children is still to come to c.
Ahead(f, c) == \/ f.cursor = None \/ Iid[c] > Iid[f.cursor]
               \/ c = f.cursor /\ f.at \in {"child", "asleep"}

\* The children that are left, S, are still to be visited; after the first pass
\* they are topics.
Visited(f, S) ==
    /\ f.at \in Waiting \union {"pin"} => f.pass = 1 /\ f.cursor = None
    /\ f.at \in Alone => \A c \in S : Ahead(f, c) \/ (f.pass = 1 /\ c \in Topics)
    /\ f.at \in Alone /\ f.pass # 1 => S \subseteq Topics
    /\ f.at = "handle" => S = {}

VisitInv == \A t \in Threads, d \in Nat : \A e \in Entities :
    Is(t, d) /\ Fr(t, d).of = e => Visited(Fr(t, d), children[e])

\* Who is referred to can be found, and no writer refers to a topic that is
\* being deleted.
KnownInv == \A e \in Entities : /\ Refs(e) # {} => e \in known
                                /\ link[e].closing => Referring(e) = {}

\* A topic that is to be dropped has been deleted, and nobody else will drop it.
DropInv == \A x \in Entities : \A t \in Threads, d \in Nat :
    Is(t, d) /\ Drops(Fr(t, d), x) =>
        /\ link[x].deferred /\ ~link[x].closing /\ Referring(x) = {}
        /\ \A u \in Threads, c \in Nat : Is(u, c) /\ Drops(Fr(u, c), x) => u = t /\ c = d

\* A writer stays with its publisher while that is locked for it.
NewInv == \A t \in Threads, d \in Nat : \A w \in Entities :
    Is(t, d) /\ Fr(t, d).of = w /\ Fr(t, d).at \in {"registered", "unpinned"} =>
        w \in children[Parent[w]]

\* Dropping a topic deletes it.
CallInv == \A t \in Threads, d \in Nat : Is(t, d) /\ Fr(t, d).at = "derived" =>
    /\ ~Is(t, d + 1) => ret[t] = "ok"
    /\ Is(t, d + 1) /\ Fr(t, d + 1).at = "pin" => Fr(t, d + 1).why = "ref"

UInv == VisitInv /\ KnownInv /\ DropInv /\ NewInv /\ CallInv

\* What sleeps is on top.
LEMMA OnTop ==
    ASSUME TypeOK, NEW t \in Threads, NEW d \in Nat, Is(t, d),
           d < Len(stack[t]) => Fr(t, d).at \in {"child", "derived"},
           Fr(t, d).at \notin {"child", "derived"}
    PROVE  stack[t] # <<>> /\ Fr(t, d) = Cur(t)
  <1>1. PICK L \in Nat : L = Len(stack[t]) BY DEF TypeOK
  <1>2. d = L /\ L # 0 BY <1>1 DEF Is
  <1>3. stack[t] # <<>> BY <1>1, <1>2 DEF TypeOK
  <1>4. Fr(t, L) = Cur(t) BY <1>1, <1>3, Top
  <1> QED BY <1>2, <1>3, <1>4

\* The sleepers are on top.
Topped == \A t \in Threads, d \in Nat : Is(t, d) /\ Fr(t, d).at \in {"asleep", "awake"} =>
              stack[t] # <<>> /\ Fr(t, d) = Cur(t) /\ At(t, Fr(t, d).at)

\* Only the innermost activation of a thread sleeps.
LEMMA ToppedHolds == IInv => Topped
  <1> SUFFICES ASSUME IInv, NEW t \in Threads, NEW d \in Nat, Is(t, d),
                      Fr(t, d).at \in {"asleep", "awake"}
               PROVE  stack[t] # <<>> /\ Fr(t, d) = Cur(t) /\ At(t, Fr(t, d).at)
    BY DEF Topped
  <1>1. /\ TypeOK /\ Fr(t, d).at \notin {"child", "derived"}
        /\ d < Len(stack[t]) => Fr(t, d).at \in {"child", "derived"}
    BY DEF IInv, Inv1, StackInv
  <1>2. stack[t] # <<>> /\ Fr(t, d) = Cur(t) BY <1>1, OnTop
  <1> QED BY <1>2 DEF At, Cur

\* The same after a step.
LEMMA ToppedLater == IInv' => Topped'
  BY ToppedHolds, PTL

\* The visits of the others go on, those of sleepers that wake up too.
LEMMA KeepVisit ==
    ASSUME IInv, IInv', VisitInv, NEW t \in Threads, NEW k \in Nat, Shape(t, k),
           \A u \in Threads : At(u, "asleep") /\ At(u, "awake")' =>
              Cur(u).cursor \notin children'[Cur(u).of],
           \A e \in Entities :
              \/ children'[e] \subseteq children[e]
              \/ \A u \in Threads, d \in Nat :
                    Is(u, d) /\ Fr(u, d).at \in Alone => Fr(u, d).of # e,
           \A e \in Entities : Is(t, k)' /\ Fr(t, k)'.of = e => Visited(Fr(t, k)', children'[e]),
           Is(t, k + 1)' => Fr(t, k + 1)'.pass = 1 /\ Fr(t, k + 1)'.cursor = None
    PROVE  VisitInv'
  <1> SUFFICES ASSUME NEW u \in Threads, NEW d \in Nat, NEW e \in Entities,
                      Is(u, d)', Fr(u, d)'.of = e
               PROVE  Visited(Fr(u, d)', children'[e])
    BY DEF VisitInv, Visited
  <1>1. CASE u = t /\ d = k BY <1>1
  <1>2. CASE u = t /\ d = k + 1 BY <1>2 DEF Shape, Visited, Alone
  <1>3. CASE u # t \/ d < k
    <2>0. TypeOK BY DEF IInv, Inv1
    <2>1. PICK f \in Frames, g \in Frames :
             /\ Is(u, d) /\ Fr(u, d) = f /\ Fr(u, d)' = g
             /\ g.of = f.of /\ g.pass = f.pass /\ g.cursor = f.cursor
             /\ \/ g = f
                \/ f.at = "parked" /\ g.at = "closing"
                \/ f.at = "asleep" /\ g.at = "awake"
      BY <1>3, <2>0, Apart
    <2>2. Visited(f, children[e]) BY <2>1 DEF VisitInv
    <2>3. f.at \in Alone => children'[e] \subseteq children[e] BY <2>1
    <2>4. f.at = "asleep" /\ g.at = "awake" => f.cursor \notin children'[e]
      <3> HAVE f.at = "asleep" /\ g.at = "awake"
      <3>1. Topped /\ Topped' BY ToppedHolds, ToppedLater
      <3>2. f = Cur(u) /\ At(u, "asleep") BY <3>1, <2>1 DEF Topped
      <3>3. At(u, "awake")' BY <3>1, <2>1 DEF At, Topped, Cur
      <3> QED BY <3>2, <3>3, <2>1
    <2>5. CASE f.at \in Alone
      BY <2>1, <2>5, <2>4, <2>2, <2>3 DEF Alone, Waiting, Ahead, Visited
    <2>6. CASE f.at \notin Alone BY <2>1, <2>6, <2>2 DEF Alone, Waiting, Visited
    <2> QED BY <2>1, <2>5, <2>6
  <1>4. ~(u = t /\ d > k + 1) BY DEF Shape
  <1> QED BY <1>1, <1>2, <1>3, <1>4

\* References are to what can be found.
LEMMA KeepKnown ==
    ASSUME KnownInv,
           \A e \in Entities :
              /\ children'[e] # {} => children[e] # {} \/ e \in known'
              /\ \/ Referring(e)' \subseteq Referring(e)
                 \/ e \in known' /\ ~link'[e].closing
              /\ e \in known => e \in known' \/ Refs(e)' = {}
              /\ link'[e].closing => link[e].closing \/ Referring(e)' = {}
    PROVE  KnownInv'
  <1> SUFFICES ASSUME NEW e \in Entities
               PROVE  /\ Refs(e)' # {} => e \in known'
                      /\ link'[e].closing => Referring(e)' = {}
    BY DEF KnownInv
  <1>1. /\ Refs(e) # {} => e \in known
        /\ link[e].closing => Referring(e) = {}
    BY DEF KnownInv
  <1>2. Refs(e) = children[e] \union Referring(e) /\ Refs(e)' = children'[e] \union Referring(e)'
    BY DEF Refs
  <1> HIDE DEF Refs, Referring
  <1> QED BY <1>1, <1>2

\* The topics to be dropped remain those of the others, or a new one comes.
LEMMA KeepDrop ==
    ASSUME TypeOK, DropInv, NEW t \in Threads, NEW k \in Nat, Shape(t, k),
           \A x \in Entities :
              /\ link[x].deferred => link'[x].deferred
              /\ link'[x].closing => \/ link[x].closing \/ ~ToDrop(x)
                                     \/ Is(t, k) /\ Drops(Fr(t, k), x)
              /\ Referring(x)' \subseteq Referring(x) \/ ~ToDrop(x)
              /\ Is(t, k)' => ~Drops(Fr(t, k)', x)
              /\ Is(t, k + 1)' /\ Drops(Fr(t, k + 1)', x) =>
                    /\ ~ToDrop(x)
                    /\ link'[x].deferred /\ ~link'[x].closing /\ Referring(x)' = {}
    PROVE  DropInv'
  <1>1. DropInv' <=> \A x \in Entities : \A u \in Threads, d \in Nat :
            Is(u, d)' /\ Drops(Fr(u, d)', x) =>
              /\ link'[x].deferred /\ ~link'[x].closing /\ Referring(x)' = {}
              /\ \A v \in Threads, c \in Nat : Is(v, c)' /\ Drops(Fr(v, c)', x) => v = u /\ c = d
    BY DEF DropInv, Drops
  <1> SUFFICES ASSUME NEW x \in Entities
               PROVE  \A u \in Threads, d \in Nat :
            Is(u, d)' /\ Drops(Fr(u, d)', x) =>
              /\ link'[x].deferred /\ ~link'[x].closing /\ Referring(x)' = {}
              /\ \A v \in Threads, c \in Nat : Is(v, c)' /\ Drops(Fr(v, c)', x) => v = u /\ c = d
    BY <1>1
  <1>2. \A u \in Threads, d \in Nat : u # t \/ d < k =>
           (Is(u, d)' /\ Drops(Fr(u, d)', x) => Is(u, d) /\ Drops(Fr(u, d), x))
    BY Apart DEF Drops
  <1>3. \A d \in Nat : d > k + 1 => ~Is(t, d)' BY DEF Shape
  <1>4. \A d \in Nat : d < k \/ d = k \/ d = k + 1 \/ d > k + 1 OBVIOUS
  <1>5. ToDrop(x) <=> \E u \in Threads, d \in Nat : Is(u, d) /\ Drops(Fr(u, d), x)
    BY DEF ToDrop
  <1> HIDE DEF Is, Fr, Shape, Drops, Referring, ToDrop
  <1>6. \A u \in Threads, d \in Nat : Is(u, d)' /\ Drops(Fr(u, d)', x) =>
           \/ u = t /\ d = k + 1
           \/ (u # t \/ d # k) /\ Is(u, d) /\ Drops(Fr(u, d), x)
    BY <1>2, <1>3, <1>4
  <1>7. CASE Is(t, k + 1)' /\ Drops(Fr(t, k + 1)', x) BY <1>5, <1>6, <1>7
  <1>8. CASE ~(Is(t, k + 1)' /\ Drops(Fr(t, k + 1)', x))
    <2>1. \A u \in Threads, d \in Nat : Is(u, d)' /\ Drops(Fr(u, d)', x) =>
             (u # t \/ d # k) /\ Is(u, d) /\ Drops(Fr(u, d), x)
      BY <1>6, <1>8
    <2>2. ASSUME NEW u \in Threads, NEW d \in Nat, Is(u, d)' /\ Drops(Fr(u, d)', x)
          PROVE  link'[x].deferred /\ ~link'[x].closing /\ Referring(x)' = {}
      BY <2>1, <2>2, <1>5 DEF DropInv
    <2> QED BY <2>1, <2>2 DEF DropInv
  <1> QED BY <1>7, <1>8

\* Nobody takes a child from a publisher that is locked.
LEMMA KeepNew ==
    ASSUME IInv, NewInv, NEW t \in Threads, NEW k \in Nat, Shape(t, k),
           \A p \in Entities : children[p] \subseteq children'[p] \/ mutex[p] = None,
           \A w \in Entities :
              Is(t, k)' /\ Fr(t, k)'.of = w /\ Fr(t, k)'.at \in {"registered", "unpinned"} =>
                 w \in children'[Parent[w]]
    PROVE  NewInv'
  <1> SUFFICES ASSUME NEW u \in Threads, NEW d \in Nat, NEW w \in Entities,
                      Is(u, d)', Fr(u, d)'.of = w, Fr(u, d)'.at \in {"registered", "unpinned"}
               PROVE  w \in children'[Parent[w]]
    BY DEF NewInv
  <1>0. TypeOK BY DEF IInv, Inv1
  <1>1. CASE u = t /\ d = k BY <1>1
  <1>2. CASE u # t \/ d < k
    <2>1. Is(u, d) /\ Fr(u, d).of = w /\ Fr(u, d).at \in {"registered", "unpinned"}
      BY <1>0, <1>2, Apart
    <2>2. w \in children[Parent[w]] BY <2>1 DEF NewInv
    <2>3. mutex[Parent[w]] = u /\ u # None
      BY <2>1, EntityAssumption DEF IInv, Inv3, MutexInv, Creating
    <2>4. Parent[w] \in Entities BY <2>1 DEF IInv, Inv1, FrameInv, Proper, Creating
    <2> QED BY <2>2, <2>3, <2>4
  <1>3. ~(u = t /\ d = k + 1) /\ ~(u = t /\ d > k + 1) BY DEF Shape
  <1> QED BY <1>1, <1>2, <1>3

\* A call for a topic that is to be dropped returns "ok".
LEMMA KeepCall ==
    ASSUME TypeOK, CallInv, NEW t \in Threads, NEW k \in Nat, Shape(t, k),
           Is(t, k) \/ k = 1,
           \A u \in Threads : u # t => ret'[u] = ret[u],
           Is(t, k)' => Fr(t, k)'.at # "pin" \/ k = 1,
           ~Is(t, k)' => ret'[t] = "ok" \/ ~Is(t, k - 1) \/ Fr(t, k - 1).at # "derived",
           Is(t, k)' /\ Fr(t, k)'.at = "derived" =>
              /\ ~Is(t, k + 1)' => ret'[t] = "ok"
              /\ Is(t, k + 1)' => Fr(t, k + 1)'.why = "ref"
    PROVE  CallInv'
  <1> SUFFICES ASSUME NEW u \in Threads, NEW d \in Nat, Is(u, d)', Fr(u, d)'.at = "derived"
               PROVE  /\ ~Is(u, d + 1)' => ret'[u] = "ok"
                      /\ Is(u, d + 1)' /\ Fr(u, d + 1)'.at = "pin" => Fr(u, d + 1)'.why = "ref"
    BY DEF CallInv
  <1>0. d + 1 \in Nat /\ ~Is(u, 0) BY DEF Is
  <1>1. CASE u = t /\ d = k BY <1>1
  <1>2. CASE u = t /\ d > k BY <1>2 DEF Shape
  <1>3. CASE u # t \/ d < k
    <2>1. Is(u, d) /\ Fr(u, d).at = "derived" BY <1>3, Apart
    <2>2. /\ ~Is(u, d + 1) => ret[u] = "ok"
          /\ Is(u, d + 1) /\ Fr(u, d + 1).at = "pin" => Fr(u, d + 1).why = "ref"
      BY <2>1 DEF CallInv
    <2>3. CASE u # t BY <1>0, <2>3, <2>2, Apart
    <2>4. CASE u = t /\ d + 1 < k
      <3>1. /\ Is(u, d + 1)' <=> Is(u, d + 1)
            /\ Is(u, d + 1) => /\ Fr(u, d + 1)'.why = Fr(u, d + 1).why
                               /\ Fr(u, d + 1)'.at = "pin" => Fr(u, d + 1).at = "pin"
        BY <1>0, <2>4, Apart
      <3>2. Is(u, d + 1)
        <4>1. PICK L \in Nat : L = Len(stack[t]) BY DEF TypeOK
        <4>2. d \in 1..L /\ (k \in 1..L \/ k = 1) BY <2>1, <2>4, <4>1 DEF Is
        <4>3. d + 1 \in 1..L BY <2>4, <4>2
        <4> QED BY <2>4, <4>1, <4>3 DEF Is
      <3> QED
        <4> HIDE DEF Is, Fr
        <4> QED BY <3>1, <3>2, <2>2
    <2>5. CASE u = t /\ d + 1 = k BY <1>0, <2>1, <2>5
    <2> QED BY <1>3, <2>3, <2>4, <2>5
  <1>4. d = k \/ d > k \/ d < k OBVIOUS
  <1> QED BY <1>1, <1>2, <1>3, <1>4

\* A step that keeps the hash table brings no writer to refer to a topic, unless
\* it makes its own do so.
LEMMA NoNewReferences ==
    ASSUME TypeOK, NEW t \in Threads, NEW k \in Nat, Shape(t, k), known' \subseteq known,
           \A w \in Entities :
              Is(t, k)' /\ Fr(t, k)'.of = w /\ Fr(t, k)'.at \in TopicPlaces => Refers(w)
    PROVE  \A e \in Entities : Referring(e)' \subseteq Referring(e)
  <1> SUFFICES ASSUME NEW e \in Entities, NEW w \in Entities, TopicOf[w] = e, Refers(w)'
               PROVE  Refers(w)
    BY DEF Referring
  <1>1. CASE w \in known' BY <1>1 DEF Refers
  <1>2. CASE InAt(w, TopicPlaces)'
    <2>1. TopicPlaces \intersect {"parked", "closing", "asleep", "awake", "pin"} = {}
      BY DEF TopicPlaces
    <2>2. \/ InAt(w, TopicPlaces)
          \/ Is(t, k)' /\ Fr(t, k)'.of = w /\ Fr(t, k)'.at \in TopicPlaces
      <3> HIDE DEF TopicPlaces
      <3> QED BY <1>2, <2>1, InAtChange
    <2>3. InAt(w, TopicPlaces) => Refers(w) BY DEF Refers
    <2> QED BY <2>2, <2>3
  <1> QED BY <1>1, <1>2 DEF Refers

\* A step that closes no handle, and leaves the hash table and the children.
LEMMA CalmOrder ==
    ASSUME IInv, IInv', UInv, Orderly, known' = known, children' = children,
           \A e \in Entities : /\ link'[e].closing = link[e].closing
                               /\ link[e].deferred => link'[e].deferred,
           NEW t \in Threads, NEW k \in Nat,
           Shape(t, k), Is(t, k) \/ k = 1,
           \A u \in Threads : u # t => ret'[u] = ret[u],
           ~Is(t, k)' => ret'[t] = "ok" \/ ~Is(t, k - 1) \/ Fr(t, k - 1).at # "derived",
           \A e \in Entities : Is(t, k)' /\ Fr(t, k)'.of = e => Visited(Fr(t, k)', children[e]),
           Is(t, k)' => /\ Fr(t, k)'.at \notin TopicPlaces \union {"derived"}
                        /\ Fr(t, k)'.at = "pin" => k = 1 /\ Fr(t, k)'.why # "ref",
           \A w \in Entities :
              Is(t, k)' /\ Fr(t, k)'.of = w /\ Fr(t, k)'.at \in {"registered", "unpinned"} =>
                 w \in children[Parent[w]],
           Is(t, k + 1)' => /\ Fr(t, k + 1)'.pass = 1 /\ Fr(t, k + 1)'.cursor = None
                            /\ Fr(t, k + 1)'.why # "ref"
    PROVE  UInv'
  <1>1. /\ TypeOK /\ VisitInv /\ KnownInv /\ DropInv /\ NewInv /\ CallInv
    BY DEF IInv, Inv1, UInv
  <1>2. \A u \in Threads : At(u, "asleep") /\ At(u, "awake")' =>
              Cur(u).cursor \notin children'[Cur(u).of]
    BY DEF Orderly
  <1>3. \A e \in Entities : Referring(e)' \subseteq Referring(e) BY <1>1, NoNewReferences
  <1> HIDE DEF Is, Fr, Shape, Visited, Drops, Referring, Refs, ToDrop, TopicPlaces,
               TypeOK, VisitInv, KnownInv, DropInv, NewInv, CallInv, IInv
  <1>4. VisitInv' BY <1>1, <1>2, KeepVisit
  <1>5. KnownInv' BY <1>1, <1>3, KeepKnown
  <1>6. DropInv' BY <1>1, <1>3, KeepDrop DEF Drops
  <1>7. NewInv' BY <1>1, KeepNew
  <1>8. CallInv' BY <1>1, KeepCall
  <1> QED BY <1>4, <1>5, <1>6, <1>7, <1>8 DEF UInv

\* A step that changes neither the handles, the hash table nor the children.
LEMMA QuietOrder ==
    ASSUME IInv, IInv', UInv, Orderly, Steady, NEW t \in Threads, NEW k \in Nat,
           Shape(t, k), Is(t, k) \/ k = 1,
           \A u \in Threads : u # t => ret'[u] = ret[u],
           ~Is(t, k)' => ret'[t] = "ok" \/ ~Is(t, k - 1) \/ Fr(t, k - 1).at # "derived",
           \A e \in Entities : Is(t, k)' /\ Fr(t, k)'.of = e => Visited(Fr(t, k)', children[e]),
           Is(t, k)' => /\ Fr(t, k)'.at \notin TopicPlaces \union {"derived"}
                        /\ Fr(t, k)'.at = "pin" => k = 1 /\ Fr(t, k)'.why # "ref",
           \A w \in Entities :
              Is(t, k)' /\ Fr(t, k)'.of = w /\ Fr(t, k)'.at \in {"registered", "unpinned"} =>
                 w \in children[Parent[w]],
           Is(t, k + 1)' => /\ Fr(t, k + 1)'.pass = 1 /\ Fr(t, k + 1)'.cursor = None
                            /\ Fr(t, k + 1)'.why # "ref"
    PROVE  UInv'
  <1>1. /\ known' = known /\ children' = children
        /\ \A e \in Entities : /\ link'[e].closing = link[e].closing
                               /\ link[e].deferred => link'[e].deferred
    BY DEF Steady, SameLink
  <1> HIDE DEF Is, Fr, Shape, Visited, TopicPlaces
  <1> QED BY <1>1, CalmOrder

\* Calls begin with the first pass, and not on behalf of a last writer.
LEMMA StartsOrder ==
    ASSUME IInv, IInv', UInv, Orderly, NEW t \in Threads, NEW e \in Entities,
           StartDelete(t, e) \/ StartUse(t, e) \/ StartCreate(t, e)
    PROVE  UInv'
  <1>1. PICK f : /\ Begun(t, f)
                 /\ f \in {Frame(e, "user", "pin"), Frame(e, "other", "use"),
                           Frame(e, "other", "creating")}
    BY QuietStarts
  <1>2. /\ f.at \in {"pin", "use", "creating"} /\ f.why \in {"user", "other"}
        /\ f.pass = 1 /\ f.cursor = None
    BY <1>1 DEF Frame
  <1>3. /\ Steady /\ ret' = ret
        /\ Shape(t, 1) /\ Is(t, 1)' /\ Fr(t, 1)' = f /\ ~Is(t, 1 + 1)'
    BY <1>1, QuietStarts DEF Begun
  <1>4. \A c : Visited(f, c) BY <1>2 DEF Visited, Alone
  <1>5. f.at \notin TopicPlaces \union {"derived"} /\ f.at \notin {"registered", "unpinned"}
    BY <1>2 DEF TopicPlaces
  <1> HIDE DEF Is, Fr, Shape, Visited, TopicPlaces
  <1>6. /\ \A c \in Entities : Is(t, 1)' /\ Fr(t, 1)'.of = c => Visited(Fr(t, 1)', children[c])
        /\ Is(t, 1)' => /\ Fr(t, 1)'.at \notin TopicPlaces \union {"derived"}
                        /\ Fr(t, 1)'.at = "pin" => 1 = 1 /\ Fr(t, 1)'.why # "ref"
        /\ Fr(t, 1)'.at \notin {"registered", "unpinned"}
    BY <1>2, <1>3, <1>4, <1>5
  <1> QED BY <1>3, <1>6, QuietOrder

\* A move is to a place that the visit allows.
LEMMA MovesOrder ==
    ASSUME IInv, IInv', UInv, Orderly, NEW t \in Threads,
           \/ CreateLocks(t) \/ CreateUnpinsTopic(t)
           \/ CreatePinsTopic(t) /\ Open(TopicOf[Cur(t).of])
           \/ LockAndInterrupt(t) \/ CloseWait(t) \/ WaitForChild(t)
    PROVE  UInv'
  <1>1. PICK k \in Nat \ {0}, p \in Places : Moved(t, k, p) /\ <<Cur(t).at, p>> \in Moves
    BY QuietMoves
  <1>2. Steady /\ ret' = ret BY QuietMoves
  <1>3. PICK f \in Frames, g \in Frames :
           /\ f = Cur(t) /\ g = [f EXCEPT !.at = p] /\ Shape(t, k)
           /\ Is(t, k) /\ Fr(t, k) = f /\ Is(t, k)' /\ Fr(t, k)' = g /\ ~Is(t, k + 1)'
    BY <1>1 DEF Moved, Frames
  <1>4. /\ g.of = f.of /\ g.pass = f.pass /\ g.cursor = f.cursor /\ g.at = p
        /\ <<f.at, p>> \in Moves
    BY <1>1, <1>3 DEF Frames
  <1>5. \A e \in Entities : f.of = e => Visited(f, children[e]) BY <1>3 DEF UInv, VisitInv
  <1>6. \A e \in Entities : g.of = e => Visited(g, children[e])
    <2> SUFFICES ASSUME NEW e \in Entities, g.of = e PROVE Visited(g, children[e])
      OBVIOUS
    <2>1. Visited(f, children[e]) BY <1>4, <1>5
    <2>2. CASE f.at \in Waiting /\ p \in Waiting
      BY <1>4, <2>1, <2>2 DEF Visited, Waiting, Alone
    <2>3. CASE p = "enter" /\ f.at = "closing"
      BY <1>4, <2>1, <2>3 DEF Visited, Waiting, Ahead
    <2>4. CASE p = "asleep" /\ f.at = "child"
      BY <1>4, <2>1, <2>4 DEF Visited, Waiting, Alone, Ahead
    <2>5. CASE p \in {"locked", "pinned", "unpinned"}
      BY <1>4, <2>5 DEF Visited, Waiting, Alone
    <2> QED BY <1>4, <2>2, <2>3, <2>4, <2>5 DEF Moves, Waiting
  <1>7. /\ p \notin TopicPlaces \union {"derived", "pin"}
        /\ p \in {"registered", "unpinned"} => f.at = "registered"
    BY <1>4 DEF TopicPlaces, Moves
  <1>8. \A w \in Entities : f.at = "registered" /\ f.of = w => w \in children[Parent[w]]
    BY <1>3 DEF UInv, NewInv
  <1> HIDE DEF Is, Fr, Shape, Visited, TopicPlaces
  <1>9. \A w \in Entities :
              Is(t, k)' /\ Fr(t, k)'.of = w /\ Fr(t, k)'.at \in {"registered", "unpinned"} =>
                 w \in children[Parent[w]]
    BY <1>3, <1>4, <1>7, <1>8
  <1>10. \A e \in Entities : Is(t, k)' /\ Fr(t, k)'.of = e => Visited(Fr(t, k)', children[e])
    BY <1>3, <1>6
  <1>11. Is(t, k)' => /\ Fr(t, k)'.at \notin TopicPlaces \union {"derived"}
                      /\ Fr(t, k)'.at = "pin" => k = 1 /\ Fr(t, k)'.why # "ref"
    BY <1>3, <1>4, <1>7
  <1> QED BY <1>2, <1>3, <1>9, <1>10, <1>11, QuietOrder

\* Refusing to delete a topic on behalf of its last writer is not what happens.
LEMMA EndsOrder ==
    ASSUME IInv, IInv', RInv, UInv, Orderly, NEW t \in Threads,
           \/ EndUse(t) \/ CreateEnds(t) \/ DeleteRefused(t)
           \/ CreatePinsTopic(t) /\ ~Open(TopicOf[Cur(t).of])
    PROVE  UInv'
  <1>1. PICK k \in Nat \ {0} : Ended(t, k) BY QuietEnds
  <1>2. /\ Steady
        /\ ret' = ret \/ DeleteRefused(t)
        /\ Cur(t).at \in {"use", "unpinned", "locked"} \/ DeleteRefused(t)
    BY QuietEnds
  <1>3. PICK f \in Frames :
           /\ f = Cur(t) /\ Shape(t, k) /\ k = Len(stack[t])
           /\ Is(t, k) /\ Fr(t, k) = f /\ ~Is(t, k)' /\ ~Is(t, k + 1)'
    BY <1>1 DEF Ended
  <1>4. \A u \in Threads : u # t => ret'[u] = ret[u]
    BY <1>2 DEF DeleteRefused, IInv, Inv1, TypeOK
  <1>5. ~Is(t, k - 1) \/ Fr(t, k - 1).at # "derived"
    <2> SUFFICES ASSUME Is(t, k - 1), Fr(t, k - 1).at = "derived" PROVE FALSE
      OBVIOUS
    <2>1. k # 1 /\ k - 1 \in Nat /\ (k - 1) + 1 = k BY DEF Is
    <2>2. CASE f.at \in {"use", "unpinned", "locked"}
      BY <1>3, <2>2, <2>1 DEF IInv, Inv1, FrameInv, Proper, Creating, StackInv
    <2>3. CASE DeleteRefused(t)
      <3>1. f.at = "pin" BY <1>3, <2>3 DEF DeleteRefused, At, Cur
      <3>2. f.why = "ref"
        <4>1. \A d \in Nat : d = k - 1 => (Fr(t, d + 1).at = "pin" => Fr(t, d + 1).why = "ref")
          <5> SUFFICES ASSUME NEW d \in Nat, d = k - 1
                       PROVE  Fr(t, d + 1).at = "pin" => Fr(t, d + 1).why = "ref"
            OBVIOUS
          <5>1. d + 1 = k /\ Is(t, d) /\ Fr(t, d).at = "derived" BY <2>1
          <5>2. Is(t, d + 1) BY <1>3, <5>1
          <5> QED BY <5>1, <5>2 DEF UInv, CallInv
        <4> QED BY <1>3, <2>1, <3>1, <4>1
      <3>3. PICK e \in Entities : e = f.of BY DEF Frames
      <3>4. Drops(Fr(t, k), e) BY <1>3, <3>1, <3>2, <3>3 DEF Drops
      <3>5. link[e].deferred /\ ~link[e].closing /\ Referring(e) = {}
        BY <1>3, <3>4 DEF UInv, DropInv
      <3>6. Cur(t).of = e BY <1>3, <3>3
      <3> QED BY <2>3, <3>5, <3>6, RefusedDrop
    <2> QED BY <1>2, <1>3, <2>2, <2>3
  <1> HIDE DEF Is, Fr, Shape, Visited, TopicPlaces
  <1>6. /\ k \in Nat /\ Shape(t, k) /\ (Is(t, k) \/ k = 1)
        /\ ~Is(t, k)' => ret'[t] = "ok" \/ ~Is(t, k - 1) \/ Fr(t, k - 1).at # "derived"
        /\ ~Is(t, k)' /\ ~Is(t, k + 1)'
    BY <1>3, <1>5
  <1>7. /\ \A e \in Entities : Is(t, k)' /\ Fr(t, k)'.of = e => Visited(Fr(t, k)', children[e])
        /\ \A w \in Entities :
              Is(t, k)' /\ Fr(t, k)'.of = w /\ Fr(t, k)'.at \in {"registered", "unpinned"} =>
                 w \in children[Parent[w]]
    BY <1>6
  <1>8. /\ Is(t, k)' => /\ Fr(t, k)'.at \notin TopicPlaces \union {"derived"}
                        /\ Fr(t, k)'.at = "pin" => k = 1 /\ Fr(t, k)'.why # "ref"
        /\ Is(t, k + 1)' => /\ Fr(t, k + 1)'.pass = 1 /\ Fr(t, k + 1)'.cursor = None
                            /\ Fr(t, k + 1)'.why # "ref"
    BY <1>6
  <1>9. Steady BY <1>2
  <1> QED BY <1>4, <1>6, <1>7, <1>8, <1>9, QuietOrder

\* What the visit is still to come to remains, once the last child it came to is
\* gone.
LEMMA AheadRemains ==
    ASSUME IInv, UInv, NEW t \in Threads, GoesOn(t), NEW e \in Entities, Cur(t).of = e,
           NEW c \in children[e], Cur(t).pass = 1 => c \notin Topics
    PROVE  c \in Remaining(Cur(t))
  <1>0. TypeOK /\ stack[t] # <<>> /\ Cur(t).at \in {"enter", "awake", "child"}
    BY DEF GoesOn, At, Cur, IInv, Inv1
  <1>1. PICK k \in Nat, f \in Frames : Is(t, k) /\ Fr(t, k) = f /\ f = Cur(t) BY <1>0, Top
  <1>2. Visited(f, children[e]) BY <1>1 DEF UInv, VisitInv
  <1>3. Ahead(f, c) BY <1>0, <1>1, <1>2 DEF Visited, Alone
  <1>4. c = f.cursor => f.at # "child" BY <1>1 DEF GoesOn, At, Cur
  <1>5. c = f.cursor => f.at # "asleep" BY <1>0, <1>1
  <1>6. f.cursor # None => Iid[c] > Iid[f.cursor] BY <1>3, <1>4, <1>5 DEF Ahead
  <1> QED BY <1>1, <1>6 DEF Remaining

\* After the second pass no child is left.
LEMMA DoneOrder ==
    ASSUME IInv, IInv', UInv, Orderly, NEW t \in Threads, ChildrenDone(t)
    PROVE  UInv'
  <1>1. /\ Steady /\ ret' = ret /\ GoesOn(t) /\ Remaining(Cur(t)) = {}
        /\ Cur(t).at \in {"enter", "awake", "child"}
    BY DoneShape
  <1>2. PICK k \in Nat, f \in Frames, g \in Frames :
           /\ f = Cur(t) /\ g = NextPass(f) /\ Shape(t, k)
           /\ Is(t, k) /\ Fr(t, k) = f /\ Is(t, k)' /\ Fr(t, k)' = g /\ ~Is(t, k + 1)'
    BY DoneShape
  <1>3. /\ g.of = f.of
        /\ f.pass = 1 => g.at = "enter" /\ g.cursor = None
        /\ f.pass # 1 => g.at = "handle"
    BY <1>2 DEF NextPass, Frames
  <1>4. \A e \in Entities : g.of = e => Visited(g, children[e])
    <2> SUFFICES ASSUME NEW e \in Entities, g.of = e PROVE Visited(g, children[e])
      OBVIOUS
    <2>1. CASE f.pass = 1
      BY <1>1, <1>2, <1>3, <2>1, AheadRemains DEF Visited, Ahead, Waiting
    <2>2. CASE f.pass # 1 BY <1>1, <1>2, <1>3, <2>2, AheadRemains DEF Visited, Waiting
    <2> QED BY <2>1, <2>2
  <1>5. g.at \notin TopicPlaces \union {"derived", "pin", "registered", "unpinned"}
    BY <1>3 DEF TopicPlaces
  <1> HIDE DEF Is, Fr, Shape, Visited, TopicPlaces
  <1>6. \A e \in Entities : Is(t, k)' /\ Fr(t, k)'.of = e => Visited(Fr(t, k)', children[e])
    BY <1>2, <1>4
  <1>7. Is(t, k)' => /\ Fr(t, k)'.at \notin TopicPlaces \union {"derived"}
                     /\ Fr(t, k)'.at = "pin" => k = 1 /\ Fr(t, k)'.why # "ref"
    BY <1>2, <1>5
  <1>8. Fr(t, k)'.at \notin {"registered", "unpinned"} BY <1>2, <1>5
  <1> QED BY <1>1, <1>2, <1>6, <1>7, <1>8, QuietOrder

\* The visit comes to the children in the order of their instance ids, and leaves
\* none out.
LEMMA ChildOrder ==
    ASSUME IInv, IInv', UInv, Orderly, NEW t \in Threads, DeleteChild(t)
    PROVE  UInv'
  <1>1. /\ Steady /\ ret' = ret /\ GoesOn(t)
        /\ Cur(t).at \in {"enter", "awake", "child"}
    BY ChildShape
  <1>2. PICK k \in Nat, c \in Remaining(Cur(t)), f \in Frames, g \in Frames :
           /\ f = Cur(t) /\ g = [f EXCEPT !.at = "child", !.cursor = c] /\ Shape(t, k)
           /\ \A d \in Remaining(Cur(t)) : Iid[c] <= Iid[d]
           /\ Is(t, k) /\ Fr(t, k) = f /\ Is(t, k)' /\ Fr(t, k)' = g
           /\ Is(t, k + 1)' /\ Fr(t, k + 1)' = Frame(c, "parent", "pin")
           /\ c \in Entities
    <2>1. PICK k \in Nat \ {0}, c \in Remaining(Cur(t)) :
             /\ \A d \in Remaining(Cur(t)) : Iid[c] <= Iid[d]
             /\ Shape(t, k) /\ Is(t, k) /\ Fr(t, k) = Cur(t) /\ Cur(t) \in Frames
             /\ Is(t, k)' /\ Fr(t, k)' = [Cur(t) EXCEPT !.at = "child", !.cursor = c]
             /\ Is(t, k + 1)' /\ Fr(t, k + 1)' = Frame(c, "parent", "pin")
             /\ c \in Entities
      BY ChildShape
    <2>2. [Cur(t) EXCEPT !.at = "child", !.cursor = c] \in Frames
      BY <2>1 DEF Frames, Places, Alone
    <2> HIDE DEF Is, Fr, Shape, Frame, Frames, Remaining, Cur
    <2> QED BY <2>1, <2>2
  <1>3. g.of = f.of /\ g.at = "child" /\ g.cursor = c /\ g.pass = f.pass
    BY <1>2 DEF Frames
  <1>4. \A e \in Entities : g.of = e => Visited(g, children[e])
    <2> SUFFICES ASSUME NEW e \in Entities, g.of = e PROVE Visited(g, children[e])
      OBVIOUS
    <2>1. ASSUME NEW d \in children[e], ~(f.pass = 1 /\ d \in Topics)
          PROVE  Ahead(g, d)
      <3>1. d \in Remaining(Cur(t)) /\ d \in Entities
        BY <1>1, <1>2, <1>3, <2>1, AheadRemains DEF IInv, Inv1, TypeOK
      <3>2. Iid[c] <= Iid[d] /\ Iid[c] \in Nat /\ Iid[d] \in Nat
        BY <1>2, <3>1, EntityAssumption
      <3>3. d = c \/ Iid[d] # Iid[c] BY <1>2, <3>1, EntityAssumption
      <3> QED BY <1>3, <3>2, <3>3 DEF Ahead
    <2>2. f.pass # 1 => children[e] \subseteq Topics
      BY <1>1, <1>2, <1>3 DEF UInv, VisitInv, Visited, Alone
    <2> QED BY <1>3, <2>1, <2>2 DEF Visited, Waiting
  <1>5. g.at \notin TopicPlaces \union {"derived", "pin", "registered", "unpinned"}
    BY <1>3 DEF TopicPlaces
  <1>6. LET h == Frame(c, "parent", "pin") IN h.pass = 1 /\ h.cursor = None /\ h.why # "ref"
    BY DEF Frame
  <1> HIDE DEF Is, Fr, Shape, Visited, TopicPlaces, Frame
  <1>7. \A e \in Entities : Is(t, k)' /\ Fr(t, k)'.of = e => Visited(Fr(t, k)', children[e])
    BY <1>2, <1>4
  <1>8. Is(t, k)' => /\ Fr(t, k)'.at \notin TopicPlaces \union {"derived"}
                     /\ Fr(t, k)'.at = "pin" => k = 1 /\ Fr(t, k)'.why # "ref"
    BY <1>2, <1>5
  <1>9. Fr(t, k)'.at \notin {"registered", "unpinned"} BY <1>2, <1>5
  <1>10. Is(t, k + 1)' => /\ Fr(t, k + 1)'.pass = 1 /\ Fr(t, k + 1)'.cursor = None
                          /\ Fr(t, k + 1)'.why # "ref"
    BY <1>2, <1>6
  <1>11. /\ Shape(t, k) /\ (Is(t, k) \/ k = 1) /\ Is(t, k)'
         /\ \A u \in Threads : u # t => ret'[u] = ret[u]
    BY <1>1, <1>2
  <1> QED BY <1>1, <1>7, <1>8, <1>9, <1>10, <1>11, QuietOrder

\* A step that moves one activation and changes handles or children.
LEMMA MarkOrder ==
    ASSUME IInv, IInv', UInv, Orderly, KnownInv', NEW t \in Threads, NEW k \in Nat,
           NEW f \in Frames, NEW g \in Frames, Shape(t, k), Is(t, k), Fr(t, k) = f,
           Is(t, k)', Fr(t, k)' = g, ~Is(t, k + 1)', ret' = ret,
           g.at \notin {"pin", "derived"},
           \A e \in Entities : g.of = e => Visited(g, children'[e]),
           \A w \in Entities : g.of = w /\ g.at \in {"registered", "unpinned"} =>
              w \in children'[Parent[w]],
           \A e \in Entities :
              /\ \/ children'[e] \subseteq children[e]
                 \/ \A u \in Threads, d \in Nat :
                       Is(u, d) /\ Fr(u, d).at \in Alone => Fr(u, d).of # e
              /\ children[e] \subseteq children'[e] \/ mutex[e] = None
              /\ link[e].deferred => link'[e].deferred
              /\ link'[e].closing => link[e].closing \/ ~ToDrop(e) \/ Drops(f, e)
              /\ Referring(e)' \subseteq Referring(e) \/ ~ToDrop(e)
    PROVE  UInv'
  <1>1. /\ TypeOK /\ VisitInv /\ KnownInv /\ DropInv /\ NewInv /\ CallInv
    BY DEF IInv, Inv1, UInv
  <1>2. \A u \in Threads : At(u, "asleep") /\ At(u, "awake")' =>
              Cur(u).cursor \notin children'[Cur(u).of]
    BY DEF Orderly
  <1>3. \A x \in Entities : ~Drops(g, x) BY DEF Drops
  <1> HIDE DEF Is, Fr, Shape, Visited, Drops, Referring, Refs, ToDrop, TopicPlaces,
               TypeOK, VisitInv, KnownInv, DropInv, NewInv, CallInv, IInv
  <1>4. VisitInv' BY <1>1, <1>2, KeepVisit
  <1>5. DropInv' BY <1>3, <1>1, KeepDrop
  <1>6. NewInv' BY <1>1, KeepNew
  <1>7. CallInv' BY <1>1, KeepCall
  <1> QED BY <1>4, <1>5, <1>6, <1>7 DEF UInv

\* Most places are none of a visit's.
LEMMA NoVisit ==
    ASSUME NEW g \in Frames, NEW S, g.at \notin Alone \union Waiting \union {"pin"}
    PROVE  Visited(g, S)
  BY DEF Visited, Alone

\* Whoever has an entity pinned finds it in the hash table, and is not past
\* close_wait unless alone.
LEMMA PinnedKnown ==
    ASSUME IInv, NEW t \in Threads, NEW k \in Nat, Is(t, k), NEW e \in Entities,
           Holds(Fr(t, k), e)
    PROVE  /\ e \in known
           /\ Fr(t, k).at \notin Alone =>
                 \A u \in Threads, d \in Nat :
                    Is(u, d) /\ Fr(u, d).at \in Alone => Fr(u, d).of # e
  <1>1. Held(t, k, e) /\ <<t, k>> \in Pins(e) BY DEF Held, Pins
  <1>2. e \in known BY <1>1 DEF IInv, Inv2, PinInv
  <1>3. ASSUME Fr(t, k).at \notin Alone, NEW u \in Threads, NEW d \in Nat,
               Is(u, d), Fr(u, d).at \in Alone, Fr(u, d).of = e
        PROVE  FALSE
    BY <1>3, <1>1, Exclusive
  <1> QED BY <1>2, <1>3

\* A new writer refers to a topic that is not being deleted.
LEMMA RefersOrder ==
    ASSUME IInv, IInv', RInv, UInv, Orderly, NEW t \in Threads, CreateRefersTopic(t)
    PROVE  UInv'
  <1>0. TypeOK /\ link \in [Entities -> LinkType] /\ KnownInv
    BY DEF IInv, Inv1, UInv, TypeOK
  <1>1. PICK k \in Nat, f \in Frames, g \in Frames :
           Moving(t, k, f, g) /\ f.at = "pinned" /\ g.at = "referred"
    BY MarkMoves, MovedFrames DEF Places, Creating, Moving
  <1>2. PICK w \in Entities : w = f.of BY <1>1 DEF Moving
  <1>3. PICK x : x = TopicOf[w] OBVIOUS
  <1>4. /\ link' = [link EXCEPT ![x].refc = @ + 1]
        /\ known' = known /\ children' = children /\ ret' = ret
    BY <1>1, <1>2, <1>3 DEF CreateRefersTopic, Moving
  <1>5. /\ Shape(t, k) /\ Is(t, k) /\ Fr(t, k) = f
        /\ Is(t, k)' /\ Fr(t, k)' = g /\ ~Is(t, k + 1)' /\ g.of = w
    BY <1>1, <1>2 DEF Moving
  <1>6. \A e \in Entities : /\ link'[e].closing = link[e].closing
                            /\ link'[e].deferred = link[e].deferred
    BY <1>0, <1>4, RefFields
  <1>7. ~link[x].closing /\ ~ToDrop(x) BY <1>1, <1>2, <1>3 DEF Orderly, Moving
  <1>8. x \in Entities => x \in known
    BY <1>1, <1>2, <1>3, <1>5, PinnedKnown DEF Holds, WithTopic
  <1>9. g.at \notin Alone \union Waiting \union {"pin", "derived", "registered", "unpinned"}
    BY <1>1 DEF Alone, Waiting
  <1> HIDE DEF Is, Fr, Shape, KnownInv
  <1>10. \A e \in Entities : e # x => Referring(e)' \subseteq Referring(e)
    <2> TAKE e \in Entities
    <2>1. Referring(e)' = {c \in Entities : TopicOf[c] = e /\ Refers(c)'}
      BY DEF Referring, Refers, InAt
    <2>2. \A c \in Entities : c # w => (Refers(c)' <=> Refers(c))
      <3> HIDE DEF Linked, Refers
      <3> QED BY <1>0, <1>1, <1>2, <1>4, <1>5, OtherLinks DEF Moving
    <2> HIDE DEF Refers
    <2> QED BY <1>3, <2>1, <2>2 DEF Referring
  <1>11. KnownInv'
    <2> HIDE DEF Referring, Refs
    <2>1. \A e \in Entities :
              /\ children'[e] # {} => children[e] # {} \/ e \in known'
              /\ \/ Referring(e)' \subseteq Referring(e)
                 \/ e \in known' /\ ~link'[e].closing
              /\ e \in known => e \in known' \/ Refs(e)' = {}
              /\ link'[e].closing => link[e].closing \/ Referring(e)' = {}
      BY <1>4, <1>6, <1>7, <1>8, <1>10
    <2> QED BY <1>0, <2>1, KeepKnown
  <1> HIDE DEF Referring, ToDrop, Visited, Drops
  <1>12. \A e \in Entities :
              /\ children'[e] \subseteq children[e] /\ children[e] \subseteq children'[e]
              /\ link[e].deferred => link'[e].deferred
              /\ link'[e].closing => link[e].closing
              /\ Referring(e)' \subseteq Referring(e) \/ ~ToDrop(e)
    BY <1>4, <1>6, <1>7, <1>10
  <1>13. \A e \in Entities : Visited(g, children'[e]) BY <1>9, NoVisit
  <1> QED BY <1>4, <1>5, <1>9, <1>11, <1>12, <1>13, MarkOrder

\* Nobody visits the children of a publisher that is pinned by another.
LEMMA RegistersOrder ==
    ASSUME IInv, IInv', RInv, UInv, Orderly, NEW t \in Threads, CreateRegisters(t)
    PROVE  UInv'
  <1>0. /\ TypeOK /\ link \in [Entities -> LinkType] /\ KnownInv
        /\ children \in [Entities -> SUBSET Entities]
    BY DEF IInv, Inv1, UInv, TypeOK
  <1>1. PICK k \in Nat, f \in Frames, g \in Frames :
           Moving(t, k, f, g) /\ f.at = "referred" /\ g.at = "registered"
    BY MarkMoves, MovedFrames DEF Places, Creating, Moving
  <1>2. PICK w \in Entities : w = f.of BY <1>1 DEF Moving
  <1>3. PICK p \in Entities : p = Parent[w] BY <1>1, <1>2 DEF Moving, Proper, Creating
  <1>4. /\ link' = [link EXCEPT ![p].refc = @ + 1]
        /\ known' = known \union {w} /\ ret' = ret
        /\ children' = [children EXCEPT ![p] = @ \union {w}]
    BY <1>1, <1>2, <1>3 DEF CreateRegisters, Moving
  <1>5. /\ Shape(t, k) /\ Is(t, k) /\ Fr(t, k) = f
        /\ Is(t, k)' /\ Fr(t, k)' = g /\ ~Is(t, k + 1)' /\ g.of = w
    BY <1>1, <1>2 DEF Moving
  <1>6. \A e \in Entities : /\ link'[e].closing = link[e].closing
                            /\ link'[e].deferred = link[e].deferred
    BY <1>0, <1>4, RefFields
  <1>7. \A e \in Entities : children'[e] = IF e = p THEN children[e] \union {w} ELSE children[e]
    BY <1>0, <1>4
  <1>8. /\ p \in known
        /\ \A u \in Threads, d \in Nat : Is(u, d) /\ Fr(u, d).at \in Alone => Fr(u, d).of # p
    <2>1. Holds(Fr(t, k), p) /\ Fr(t, k).at \notin Alone
      BY <1>1, <1>2, <1>3, <1>5 DEF Holds, Creating, Alone
    <2> HIDE DEF Holds, Is, Fr
    <2> QED BY <2>1, <1>5, PinnedKnown
  <1>9. g.at \notin Alone \union Waiting \union {"pin", "derived"}
    BY <1>1 DEF Alone, Waiting
  <1> HIDE DEF Is, Fr, Shape, KnownInv
  <1>10. \A e \in Entities : Referring(e)' = Referring(e)
    <2>1. f.at \in TopicPlaces /\ f.of \in known' BY <1>1, <1>2, <1>4 DEF TopicPlaces
    <2>2. \A c \in Entities : c # f.of => (c \in known' <=> c \in known) BY <1>2, <1>4
    <2> HIDE DEF Refers, Referring, Refs
    <2>3. \A c \in Entities : Refers(c)' <=> Refers(c)
      BY <1>0, <1>1, <2>1, <2>2, StaysReferring
    <2> QED BY <2>3, SameReferring
  <1>11. KnownInv'
    <2> HIDE DEF Referring, Refs
    <2>1. \A e \in Entities :
              /\ children'[e] # {} => children[e] # {} \/ e \in known'
              /\ Referring(e)' \subseteq Referring(e)
              /\ e \in known => e \in known'
              /\ link'[e].closing => link[e].closing
      BY <1>4, <1>6, <1>7, <1>8, <1>10
    <2> QED BY <1>0, <2>1, KeepKnown
  <1> HIDE DEF Referring, ToDrop, Visited, Drops
  <1>12. \A e \in Entities :
              /\ \/ children'[e] \subseteq children[e]
                 \/ \A u \in Threads, d \in Nat :
                       Is(u, d) /\ Fr(u, d).at \in Alone => Fr(u, d).of # e
              /\ children[e] \subseteq children'[e]
              /\ link[e].deferred => link'[e].deferred
              /\ link'[e].closing => link[e].closing
              /\ Referring(e)' \subseteq Referring(e)
    BY <1>6, <1>7, <1>8, <1>10
  <1>13. \A e \in Entities : Visited(g, children'[e]) BY <1>9, NoVisit
  <1>14. \A c \in Entities : g.of = c => c \in children'[Parent[c]] BY <1>3, <1>5, <1>7
  <1> QED BY <1>4, <1>5, <1>9, <1>11, <1>12, <1>13, <1>14, MarkOrder

\* No writer refers to a topic when its deletion begins, and a topic that is to
\* be dropped is deleted by the activation that is to do so.
LEMMA PinOrder ==
    ASSUME IInv, IInv', RInv, UInv, Orderly, NEW t \in Threads, PinForDelete(t)
    PROVE  UInv'
  <1>0. TypeOK /\ link \in [Entities -> LinkType] /\ KnownInv
    BY DEF IInv, Inv1, UInv, TypeOK
  <1>1. PICK k \in Nat, f \in Frames, g \in Frames :
           /\ Moving(t, k, f, g) /\ f.at = "pin" /\ g.at = "lock"
           /\ g.pass = f.pass /\ g.cursor = f.cursor
    <2>1. PICK k \in Nat \ {0} : Moved(t, k, "lock") /\ Cur(t).at = "pin" BY MarkMoves
    <2>2. PICK f \in Frames, g \in Frames :
             Moving(t, k, f, g) /\ g.at = "lock"
      BY <2>1, MovedFrames DEF Places, Waiting
    <2>3. f = Cur(t) /\ g = [f EXCEPT !.at = "lock"] BY <2>1, <2>2 DEF Moving, Moved
    <2>4. g.pass = f.pass /\ g.cursor = f.cursor /\ f.at = "pin" BY <2>1, <2>3 DEF Frames
    <2> HIDE DEF Moving
    <2> QED BY <2>2, <2>4
  <1>2. PICK p \in Entities : p = f.of BY <1>1 DEF Moving
  <1>3. PICK n \in {0, 1} : n = IF p \in implicit \/ link[p].deferred THEN 0 ELSE 1
    OBVIOUS
  <1>4. /\ link' = [link EXCEPT ![p].refc = @ - n, ![p].pin = @ + 1, ![p].closing = TRUE]
        /\ ~link[p].closing /\ p \in known /\ (p \in Topics => link[p].refc = n)
        /\ known' = known /\ children' = children /\ ret' = ret
    BY <1>1, <1>2, <1>3 DEF PinForDelete, Moving, Open
  <1>5. /\ Shape(t, k) /\ Is(t, k) /\ Fr(t, k) = f
        /\ Is(t, k)' /\ Fr(t, k)' = g /\ ~Is(t, k + 1)' /\ g.of = p
    BY <1>1, <1>2 DEF Moving
  <1>6. \A e \in Entities :
              /\ link'[e].closing = IF e = p THEN TRUE ELSE link[e].closing
              /\ link'[e].deferred = link[e].deferred
    <2>1. n \in Int OBVIOUS
    <2>2. link' = [link EXCEPT ![p].refc = @ - n, ![p].pin = @ + 1, ![p].closing = TRUE]
      BY <1>4
    <2> QED BY <1>0, <2>1, <2>2, CloseFields
  <1>7. Referring(p) = {}
    <2>1. CASE p \notin Topics
      <3> HIDE DEF Referring, Refs
      <3> QED BY <2>1, KindsOfRefs
    <2>2. CASE p \in Topics
      <3>1. Own(p) = n BY <1>3, <1>4 DEF Own
      <3>2. link[p].refc = Own(p) /\ Own(p) \in Int BY <3>1, <1>4, <2>2
      <3>3. Refs(p) = {}
        <4> HIDE DEF Refs, Own
        <4> QED BY <3>2, <1>4, Counted
      <3> QED BY <3>3 DEF Refs
    <2> QED BY <2>1, <2>2
  <1>8. \A e \in Entities : e = p => ~ToDrop(e) \/ Drops(f, e)
    <2> TAKE e \in Entities
    <2> HAVE e = p
    <2>1. CASE f.why = "ref" BY <2>1, <1>1, <1>2 DEF Drops
    <2>2. CASE f.why # "ref"
      <3>1. Cur(t) = f BY <1>1 DEF Moving
      <3> HIDE DEF ToDrop, Cur, Moving
      <3> QED BY <2>2, <3>1, <1>2 DEF Orderly
    <2> QED BY <2>1, <2>2
  <1>9. \A e \in Entities : g.of = e => Visited(g, children'[e])
    BY <1>5, <1>1, <1>2 DEF UInv, VisitInv, Visited, Waiting, Alone
  <1> HIDE DEF Is, Fr, Shape, KnownInv
  <1>10. \A e \in Entities : Referring(e)' = Referring(e) /\ Refs(e)' = Refs(e)
    <2>1. f.at \notin TopicPlaces /\ g.at \notin TopicPlaces BY <1>1 DEF TopicPlaces
    <2> HIDE DEF Refers, Linked, Referring, Refs
    <2>2. \A w \in Entities : (Linked(w)' <=> Linked(w)) /\ (Refers(w)' <=> Refers(w))
      BY <1>0, <1>4, <1>5, <2>1, SameLinks
    <2> QED BY <1>4, <2>2, SameReferring
  <1> HIDE DEF Referring, Refs, ToDrop, Visited, Drops
  <1>11. KnownInv' BY <1>4, <1>6, <1>7, <1>10, <1>0, KeepKnown
  <1>12. \A e \in Entities :
              /\ children'[e] \subseteq children[e] /\ children[e] \subseteq children'[e]
              /\ link[e].deferred => link'[e].deferred
              /\ link'[e].closing => link[e].closing \/ ~ToDrop(e) \/ Drops(f, e)
              /\ Referring(e)' \subseteq Referring(e)
    BY <1>4, <1>6, <1>8, <1>10
  <1>13. g.at \notin {"pin", "derived", "registered", "unpinned"} BY <1>1
  <1> QED BY <1>4, <1>5, <1>9, <1>11, <1>12, <1>13, MarkOrder

\* The handle goes when nobody refers to it any more.
LEMMA HandleOrder ==
    ASSUME IInv, IInv', RInv, UInv, Orderly, NEW t \in Threads, DeleteHandle(t)
    PROVE  UInv'
  <1>0. TypeOK /\ KnownInv BY DEF IInv, Inv1, UInv
  <1>1. PICK k \in Nat, f \in Frames, g \in Frames :
           /\ Moving(t, k, f, g) /\ f.at = "handle"
           /\ g.at \in {"derive", "unlink"}
    <2>1. "derive" \in Places /\ "unlink" \in Places BY DEF Places, Leaving
    <2>2. /\ Cur(t).at = "handle"
          /\ \E k \in Nat \ {0}, p \in Places : Moved(t, k, p) /\ p \in {"derive", "unlink"}
      BY <2>1, MarkMoves
    <2> HIDE DEF Moved, Cur
    <2> QED BY <2>2, MovedFrames DEF Moving
  <1>2. PICK w \in Entities : w = f.of BY <1>1 DEF Moving
  <1>3. /\ link' = link /\ known' = known \ {w} /\ children' = children /\ ret' = ret
    BY <1>1, <1>2 DEF DeleteHandle, Moving
  <1>4. /\ Shape(t, k) /\ Is(t, k) /\ Fr(t, k) = f
        /\ Is(t, k)' /\ Fr(t, k)' = g /\ ~Is(t, k + 1)' /\ g.of = w
    BY <1>1, <1>2 DEF Moving
  <1>5. w \in known /\ link[w].closing
    <2>1. Is(t, k) /\ Fr(t, k).at \in Alone /\ Fr(t, k).of = w
      BY <1>1, <1>2, <1>4 DEF Alone
    <2> HIDE DEF Is, Fr
    <2> QED BY <2>1, Exclusive
  <1>6. Refs(w) = {}
    BY <1>2, <1>4, <1>0, <1>1, <1>5 DEF UInv, VisitInv, Visited, KnownInv, Refs
  <1>7. g.at \notin Alone \union Waiting \union {"pin", "derived", "registered", "unpinned"}
    BY <1>1 DEF Alone, Waiting
  <1> HIDE DEF Is, Fr, Shape, KnownInv
  <1>8. \A e \in Entities : Referring(e)' = Referring(e) /\ Refs(e)' = Refs(e)
    <2>1. g.at \in TopicPlaces /\ f.of \in known BY <1>1, <1>2, <1>5 DEF TopicPlaces
    <2>2. \A c \in Entities : c # f.of => (c \in known' <=> c \in known) BY <1>2, <1>3
    <2> HIDE DEF Refers, Referring, Refs
    <2>3. \A c \in Entities : Refers(c)' <=> Refers(c)
      BY <1>0, <1>1, <2>1, <2>2, StaysReferring
    <2> QED BY <1>3, <2>3, SameReferring
  <1> HIDE DEF Referring, Refs, ToDrop, Visited, Drops
  <1>9. KnownInv' BY <1>3, <1>6, <1>8, <1>0, KeepKnown
  <1>10. \A e \in Entities :
              /\ children'[e] \subseteq children[e] /\ children[e] \subseteq children'[e]
              /\ link[e].deferred => link'[e].deferred
              /\ link'[e].closing => link[e].closing
              /\ Referring(e)' \subseteq Referring(e)
    BY <1>3, <1>8
  <1>11. \A e \in Entities : Visited(g, children'[e]) BY <1>7, NoVisit
  <1> QED BY <1>3, <1>4, <1>7, <1>9, <1>10, <1>11, MarkOrder

\* A topic that is marked is not dropped yet.
LEMMA DeferredOrder ==
    ASSUME IInv, IInv', RInv, UInv, Orderly, NEW t \in Threads, DeleteDeferred(t)
    PROVE  UInv'
  <1>0. TypeOK /\ link \in [Entities -> LinkType] BY DEF IInv, Inv1, TypeOK
  <1>1. PICK k \in Nat, f \in Frames : Ending(t, k, f) BY MarkMoves, EndedFrame
  <1>2. /\ Shape(t, k) /\ Is(t, k) /\ ~Is(t, k)' /\ ~Is(t, k + 1)' BY <1>1 DEF Ending
  <1>3. /\ link' = [link EXCEPT ![Cur(t).of].refc = @ - 1, ![Cur(t).of].deferred = TRUE]
        /\ known' = known /\ children' = children /\ ret' = [ret EXCEPT ![t] = "ok"]
    BY DEF DeleteDeferred
  <1>4. \A e \in Entities : /\ link'[e].closing = link[e].closing
                            /\ link[e].deferred => link'[e].deferred
    <2>1. PICK x : x = Cur(t).of OBVIOUS
    <2>2. link' = [link EXCEPT ![x].refc = @ - 1, ![x].deferred = TRUE] BY <1>3, <2>1
    <2> QED BY <1>0, <2>2, DeferFields
  <1>5. ret'[t] = "ok" /\ \A u \in Threads : u # t => ret'[u] = ret[u]
    BY <1>0, <1>3 DEF TypeOK
  <1> HIDE DEF Is, Fr, Shape, Visited, TopicPlaces
  <1>6. /\ \A e \in Entities : Is(t, k)' /\ Fr(t, k)'.of = e => Visited(Fr(t, k)', children[e])
        /\ \A w \in Entities :
              Is(t, k)' /\ Fr(t, k)'.of = w /\ Fr(t, k)'.at \in {"registered", "unpinned"} =>
                 w \in children[Parent[w]]
        /\ Is(t, k)' => /\ Fr(t, k)'.at \notin TopicPlaces \union {"derived"}
                        /\ Fr(t, k)'.at = "pin" => k = 1 /\ Fr(t, k)'.why # "ref"
        /\ Is(t, k + 1)' => /\ Fr(t, k + 1)'.pass = 1 /\ Fr(t, k + 1)'.cursor = None
                            /\ Fr(t, k + 1)'.why # "ref"
    BY <1>2
  <1> QED BY <1>2, <1>3, <1>4, <1>5, <1>6, CalmOrder

\* The deletion of a parent that is taken along begins with the first pass.
LEMMA FreeOrder ==
    ASSUME IInv, IInv', RInv, UInv, Orderly, NEW t \in Threads, FreeEntity(t)
    PROVE  UInv'
  <1>0. TypeOK BY DEF IInv, Inv1
  <1>1. /\ UNCHANGED <<link, known, children>> /\ ret' = [ret EXCEPT ![t] = "ok"]
    BY FreeShape
  <1>12. PICK x : x = Cur(t).up OBVIOUS
  <1>2. PICK k \in Nat :
           /\ Shape(t, k) /\ Is(t, k) /\ ~Is(t, k + 1)'
           /\ \/ ~Is(t, k)'
              \/ Is(t, k)' /\ Fr(t, k)' = Frame(x, "implicit", "lock")
    <2>1. \/ \E k \in Nat \ {0} : Ended(t, k)
          \/ \E k \in Nat \ {0} : Risen(t, k)
      BY FreeShape
    <2>2. ASSUME NEW k \in Nat \ {0}, Ended(t, k)
          PROVE  Shape(t, k) /\ Is(t, k) /\ ~Is(t, k + 1)' /\ ~Is(t, k)'
      BY <2>2 DEF Ended
    <2>3. ASSUME NEW k \in Nat \ {0}, Risen(t, k)
          PROVE  /\ Shape(t, k) /\ Is(t, k) /\ ~Is(t, k + 1)'
                 /\ Is(t, k)' /\ Fr(t, k)' = Frame(Cur(t).up, "implicit", "lock")
      BY <2>3 DEF Risen
    <2> HIDE DEF Cur, Is, Fr, Shape, Ended, Risen, Frame
    <2> QED BY <1>12, <2>1, <2>2, <2>3
  <1>3. ret'[t] = "ok" /\ \A u \in Threads : u # t => ret'[u] = ret[u]
    BY <1>0, <1>1 DEF TypeOK
  <1>4. PICK g : g = Frame(x, "implicit", "lock") OBVIOUS
  <1>5. g.at = "lock" /\ g.pass = 1 /\ g.cursor = None BY <1>4 DEF Frame
  <1>6. \A S : Visited(g, S) BY <1>5 DEF Visited, Alone
  <1>7. g.at \notin TopicPlaces \union {"derived", "pin", "registered", "unpinned"}
    BY <1>5 DEF TopicPlaces
  <1>8. Is(t, k)' => Fr(t, k)' = g BY <1>2, <1>4
  <1> HIDE DEF Is, Fr, Shape, Visited, TopicPlaces
  <1>9. /\ \A e \in Entities : Is(t, k)' /\ Fr(t, k)'.of = e => Visited(Fr(t, k)', children[e])
        /\ \A w \in Entities :
              Is(t, k)' /\ Fr(t, k)'.of = w /\ Fr(t, k)'.at \in {"registered", "unpinned"} =>
                 w \in children[Parent[w]]
        /\ Is(t, k)' => /\ Fr(t, k)'.at \notin TopicPlaces \union {"derived"}
                        /\ Fr(t, k)'.at = "pin" => k = 1 /\ Fr(t, k)'.why # "ref"
        /\ Is(t, k + 1)' => /\ Fr(t, k + 1)'.pass = 1 /\ Fr(t, k + 1)'.cursor = None
                            /\ Fr(t, k + 1)'.why # "ref"
    BY <1>2, <1>6, <1>7, <1>8
  <1>10. /\ known' = known /\ children' = children
         /\ \A e \in Entities : /\ link'[e].closing = link[e].closing
                                /\ link[e].deferred => link'[e].deferred
    BY <1>1
  <1>11. /\ Is(t, k) \/ k = 1
         /\ ~Is(t, k)' => ret'[t] = "ok" \/ ~Is(t, k - 1) \/ Fr(t, k - 1).at # "derived"
    BY <1>2, <1>3
  <1> QED BY <1>2, <1>3, <1>9, <1>10, <1>11, CalmOrder

\* The parent that is closed is no topic.
LEMMA CloseOrder ==
    ASSUME IInv, IInv', RInv, UInv, Orderly, NEW t \in Threads, CloseParent(t)
    PROVE  UInv'
  <1>0. TypeOK /\ link \in [Entities -> LinkType] /\ KnownInv /\ DeferInv /\ DropInv
    BY DEF IInv, Inv1, UInv, RInv, TypeOK
  <1>1. PICK k \in Nat, f \in Frames, g \in Frames :
           Moving(t, k, f, g) /\ f.at = "close" /\ g.at = "derive"
    BY MarkMoves, MovedFrames DEF Places, Leaving, Moving
  <1>2. PICK p \in implicit : p = f.up BY <1>1 DEF Moving, Proper
  <1>3. /\ link' = [link EXCEPT ![p].closing = TRUE]
        /\ known' = known /\ children' = children /\ ret' = ret
    BY <1>1, <1>2 DEF CloseParent, Moving
  <1>4. /\ Shape(t, k) /\ Is(t, k) /\ Fr(t, k) = f
        /\ Is(t, k)' /\ Fr(t, k)' = g /\ ~Is(t, k + 1)'
    BY <1>1 DEF Moving
  <1>5. \A e \in Entities :
              /\ link'[e].closing = IF e = p THEN TRUE ELSE link[e].closing
              /\ link'[e].deferred = link[e].deferred
    BY <1>0, <1>3, CloseOnly
  <1>6. p \in Entities /\ p \notin Topics BY <1>0 DEF TypeOK
  <1>7. Referring(p) = {}
    <2> HIDE DEF Referring, Refs
    <2> QED BY <1>6, KindsOfRefs
  <1>8. ~ToDrop(p) BY <1>0, <1>6 DEF ToDrop, DropInv, DeferInv
  <1>9. g.at \notin Alone \union Waiting \union {"pin", "derived", "registered", "unpinned"}
    BY <1>1 DEF Alone, Waiting
  <1> HIDE DEF Is, Fr, Shape, KnownInv
  <1>10. \A e \in Entities : Referring(e)' = Referring(e)
    <2>1. f.at \in TopicPlaces /\ g.at \in TopicPlaces BY <1>1 DEF TopicPlaces
    <2> HIDE DEF Refers, Referring, Refs
    <2>2. \A c \in Entities : Refers(c)' <=> Refers(c)
      BY <1>0, <1>1, <1>3, <2>1, StaysReferring
    <2> QED BY <2>2, SameReferring
  <1> HIDE DEF Referring, Refs, ToDrop, Visited, Drops
  <1>11. KnownInv' BY <1>3, <1>5, <1>7, <1>10, <1>0, KeepKnown
  <1>12. \A e \in Entities :
              /\ children'[e] \subseteq children[e] /\ children[e] \subseteq children'[e]
              /\ link[e].deferred => link'[e].deferred
              /\ link'[e].closing => link[e].closing \/ ~ToDrop(e)
              /\ Referring(e)' \subseteq Referring(e)
    BY <1>3, <1>5, <1>8, <1>10
  <1>13. \A e \in Entities : Visited(g, children'[e]) BY <1>9, NoVisit
  <1> QED BY <1>3, <1>4, <1>9, <1>11, <1>12, <1>13, MarkOrder

\* A child leaves a publisher under that one's lock, still referring to its topic.
LEMMA UnlinkOrder ==
    ASSUME IInv, IInv', RInv, UInv, Orderly, NEW t \in Threads, Unlink(t)
    PROVE  UInv'
  <1>0. /\ TypeOK /\ link \in [Entities -> LinkType] /\ KnownInv
        /\ children \in [Entities -> SUBSET Entities]
    BY DEF IInv, Inv1, UInv, TypeOK
  <1>1. PICK k \in Nat, f \in Frames, g \in Frames, w \in Entities :
              /\ f = Cur(t) /\ w = f.of /\ f.at = "unlink"
              /\ Shape(t, k) /\ Is(t, k) /\ Fr(t, k) = f /\ ~Is(t, k + 1)'
              /\ Is(t, k)' /\ Fr(t, k)' = g
              /\ g.of = w /\ g.why = f.why
              /\ \/ TakesParent(f, Parent[w]) /\ g.at = "close" /\ g.up = Parent[w]
                 \/ ~TakesParent(f, Parent[w]) /\ g.at = "derive" /\ g.up = f.up
    BY LeaveFrames
  <1>2. PICK p : p = Parent[w] OBVIOUS
  <1>3. /\ children' = [children EXCEPT ![p] = @ \ {w}]
        /\ known' = known /\ ret' = ret /\ mutex[p] = None
        /\ \/ link' = [link EXCEPT ![p].refc = @ - 1]
           \/ link' = [link EXCEPT ![p].refc = @ - 1, ![p].pin = @ + 1]
    BY <1>1, <1>2, UnlinkShape DEF Free
  <1>4. \A e \in Entities :
              /\ link'[e].closing = link[e].closing
              /\ link'[e].deferred = link[e].deferred
    BY <1>0, <1>3, LeaveFields
  <1>5. \A e \in Entities : /\ children'[e] \subseteq children[e]
                            /\ children[e] \subseteq children'[e] \/ mutex[e] = None
    BY <1>0, <1>3
  <1>6. /\ g.at \in {"close", "derive"} /\ g.at \in TopicPlaces /\ f.at \in TopicPlaces
        /\ g.at \notin Alone \union Waiting \union {"pin", "derived", "registered", "unpinned"}
    BY <1>1 DEF TopicPlaces, Alone, Waiting
  <1> HIDE DEF Is, Fr, Shape, KnownInv
  <1>7. \A e \in Entities : Referring(e)' \subseteq Referring(e)
    <2>1. Refers(w)
      <3> HIDE DEF Refers, TopicPlaces
      <3> QED BY <1>0, <1>1, <1>6, OwnLinks
    <2>2. \A c \in Entities :
              Is(t, k)' /\ Fr(t, k)'.of = c /\ Fr(t, k)'.at \in TopicPlaces => Refers(c)
      <3> HIDE DEF Refers, TopicPlaces
      <3> QED BY <2>1, <1>1
    <2> HIDE DEF Refers, Referring, TopicPlaces
    <2> QED BY <2>2, <1>0, <1>1, <1>3, NoNewReferences
  <1> HIDE DEF Referring, Refs, ToDrop, Visited, Drops
  <1>8. KnownInv' BY <1>3, <1>4, <1>5, <1>7, <1>0, KeepKnown
  <1>9. \A e \in Entities : Visited(g, children'[e]) BY <1>6, NoVisit
  <1> QED BY <1>1, <1>3, <1>4, <1>5, <1>6, <1>7, <1>8, <1>9, MarkOrder

\* The last writer of a topic: the topic has no reference of its own any more.
LEMMA LastRefers ==
    ASSUME IInv, RInv, NEW x \in Topics, NEW w \in Referring(x), x \in known,
           link[x].refc = 1
    PROVE  Referring(x) \ {w} = {} /\ Own(x) = 0
  <1>1. x \in Entities /\ Own(x) \in {0, 1} BY EntityAssumption DEF Own
  <1> HIDE DEF Refs, Own, Referring
  <1>2. Refs(x) = Referring(x) BY <1>1, KindsOfRefs
  <1>3. /\ IsFiniteSet(Refs(x)) /\ Cardinality(Refs(x)) \in Nat
        /\ 1 = Own(x) + Cardinality(Refs(x))
    BY <1>1, Counted
  <1>4. Cardinality(Refs(x)) # 0 BY <1>2, <1>3, FS_EmptySet
  <1>5. Own(x) = 0 /\ Cardinality(Refs(x)) = 1 BY <1>1, <1>3, <1>4
  <1>6. IsFiniteSet(Refs(x) \ {w}) /\ Cardinality(Refs(x) \ {w}) = 0
    BY <1>2, <1>3, <1>5, FS_RemoveElement
  <1> QED BY <1>2, <1>5, <1>6, FS_EmptySet

\* The last writer of a deleted topic is to drop it, and nobody else is.
LEMMA DeriveOrder ==
    ASSUME IInv, IInv', RInv, UInv, Orderly, NEW t \in Threads, Derive(t)
    PROVE  UInv'
  <1>0. /\ TypeOK /\ link \in [Entities -> LinkType]
        /\ VisitInv /\ KnownInv /\ DropInv /\ NewInv /\ CallInv
        /\ known' = known /\ children' = children
        /\ ret'[t] = "ok" /\ \A u \in Threads : u # t => ret'[u] = ret[u]
    BY DEF IInv, Inv1, UInv, TypeOK, Derive
  <1>1. PICK k \in Nat, f \in Frames, g \in Frames, w \in Entities :
              /\ Shape(t, k) /\ k = Len(stack[t])
              /\ Is(t, k) /\ Fr(t, k) = f /\ f = Cur(t) /\ f.of = w /\ f.at = "derive"
              /\ Is(t, k)' /\ Fr(t, k)' = g
              /\ g.of = w /\ g.why = f.why /\ g.up = f.up /\ g.at = "derived"
              /\ \/ ~Is(t, k + 1)' /\ (TopicOf[w] = None \/ link[TopicOf[w]].refc # 1)
                 \/ /\ TopicOf[w] # None /\ link[TopicOf[w]].refc = 1
                    /\ Is(t, k + 1)' /\ Fr(t, k + 1)' = Frame(TopicOf[w], "ref", "pin")
    BY DropFrames
  <1>2. PICK x : x = TopicOf[w] OBVIOUS
  <1>3. /\ x = None => link' = link
        /\ x # None => link' = [link EXCEPT ![x].refc = @ - 1]
        /\ x # None => x \in Topics /\ x \in Entities
    BY <1>1, <1>2, EntityAssumption DEF Derive
  <1>4. \A e \in Entities :
              /\ link'[e].closing = link[e].closing
              /\ link'[e].deferred = link[e].deferred
    <2>1. CASE x = None BY <2>1, <1>3
    <2>2. CASE x # None BY <2>2, <1>0, <1>3, LessFields
    <2> QED BY <2>1, <2>2
  <1>5. /\ f.at \in TopicPlaces /\ g.at \notin TopicPlaces /\ g.at \in Leaving
        /\ g.at \notin Alone \union Waiting \union {"pin"}
    BY <1>1 DEF TopicPlaces, Leaving, Alone, Waiting
  <1>6. LET h == Frame(x, "ref", "pin") IN
           /\ h.pass = 1 /\ h.cursor = None /\ h.why = "ref"
           /\ \A e : Drops(h, e) <=> e = x
    BY DEF Frame, Drops
  <1>7. \A u \in Threads : At(u, "asleep") /\ At(u, "awake")' =>
              Cur(u).cursor \notin children'[Cur(u).of]
    BY DEF Orderly
  <1> HIDE DEF Is, Fr, Shape, KnownInv, VisitInv, DropInv, NewInv, CallInv, Frame
  <1>8. Refers(w) /\ ~Refers(w)'
    <2>1. Parted' BY PartedLater
    <2> HIDE DEF Linked, Refers
    <2>2. Refers(w) BY <1>0, <1>1, <1>5, OwnLinks
    <2> QED BY <2>1, <2>2, <1>1, <1>5 DEF Parted
  <1>9. \A e \in Entities :
            /\ Referring(e)' \subseteq Referring(e)
            /\ e = x => w \in Referring(e) /\ Referring(e)' \subseteq Referring(e) \ {w}
    <2>1. \A c \in Entities :
              Is(t, k)' /\ Fr(t, k)'.of = c /\ Fr(t, k)'.at \in TopicPlaces => Refers(c)
      BY <1>1, <1>5
    <2>2. \A e \in Entities : Referring(e)' \subseteq Referring(e)
      <3> HIDE DEF Refers, Referring, TopicPlaces
      <3> QED BY <2>1, <1>0, <1>1, NoNewReferences
    <2>3. \A e \in Entities : Referring(e)' = {c \in Entities : TopicOf[c] = e /\ Refers(c)'}
      BY DEF Referring, Refers, InAt
    <2> HIDE DEF Refers
    <2>4. \A e \in Entities : /\ w \notin Referring(e)'
                              /\ e = x => w \in Referring(e)
      BY <2>3, <1>2, <1>8 DEF Referring
    <2> QED BY <2>2, <2>4
  <1>10. ASSUME x # None, link[x].refc = 1
         PROVE  /\ ~ToDrop(x) /\ link[x].deferred /\ ~link[x].closing
                /\ Referring(x)' = {}
    <2>1. x \in Entities /\ x \in Topics /\ w \in Referring(x) BY <1>3, <1>9, <1>10
    <2>2. x \in known /\ ~link[x].closing BY <2>1, <1>0 DEF KnownInv, Refs
    <2>3. Referring(x) \ {w} = {} /\ Own(x) = 0
      <3> HIDE DEF Referring, Own
      <3> QED BY <2>1, <2>2, <1>10, LastRefers
    <2>4. x \notin implicit BY <2>1, <1>0 DEF TypeOK
    <2>5. link[x].deferred BY <2>2, <2>3, <2>4 DEF Own
    <2>6. ~ToDrop(x)
      <3> HIDE DEF Referring, Drops
      <3> QED BY <2>1, <1>0 DEF ToDrop, DropInv
    <2>7. Referring(x)' = {}
      <3> HIDE DEF Referring
      <3> QED BY <2>1, <2>3, <1>9
    <2> QED BY <2>2, <2>5, <2>6, <2>7
  <1> HIDE DEF Referring, Refs, ToDrop, Visited, Drops
  <1>11. VisitInv' BY <1>1, <1>5, <1>2, <1>6, <1>0, <1>7, NoVisit, KeepVisit
  <1>12. KnownInv' BY <1>0, <1>4, <1>9, KeepKnown
  <1>13. DropInv'
    <2>1. \A e \in Entities : ~Drops(g, e) BY <1>1 DEF Drops
    <2>2. \A e \in Entities : Is(t, k + 1)' /\ Drops(Fr(t, k + 1)', e) =>
                    /\ ~ToDrop(e)
                    /\ link'[e].deferred /\ ~link'[e].closing /\ Referring(e)' = {}
      <3> TAKE e \in Entities
      <3> HAVE Is(t, k + 1)' /\ Drops(Fr(t, k + 1)', e)
      <3>1. x # None /\ link[x].refc = 1 /\ Fr(t, k + 1)' = Frame(x, "ref", "pin")
        BY <1>1, <1>2
      <3>2. e = x BY <3>1, <1>6
      <3> QED BY <3>1, <3>2, <1>4, <1>10
    <2>3. \A e \in Entities :
              /\ link[e].deferred => link'[e].deferred
              /\ link'[e].closing => link[e].closing
              /\ Referring(e)' \subseteq Referring(e)
              /\ Is(t, k)' => ~Drops(Fr(t, k)', e)
      BY <2>1, <1>1, <1>4, <1>9
    <2> QED BY <2>2, <2>3, <1>0, <1>1, KeepDrop
  <1>14. NewInv' BY <1>1, <1>0, KeepNew
  <1>15. CallInv' BY <1>1, <1>2, <1>6, <1>0, KeepCall
  <1> QED BY <1>11, <1>12, <1>13, <1>14, <1>15 DEF UInv

\* To begin with nobody is at work, and what is there has its parent and topic.
LEMMA InitUInv == Init => UInv
  <1> SUFFICES ASSUME Init PROVE UInv
    OBVIOUS
  <1>1. PICK s \in Scenes :
           /\ link = [e \in Entities |->
                        [closing |-> e \notin s.present \union s.unborn,
                         deferred |-> FALSE, pin |-> 0,
                         refc |-> Cardinality({c \in s.present : e \in {Parent[c], TopicOf[c]}})
                                  + IF e \in s.implicit THEN 0 ELSE 1]]
           /\ known = s.present
           /\ children = [e \in Entities |-> {c \in s.present : Parent[c] = e}]
           /\ stack = [t \in Threads |-> <<>>]
    BY DEF Init
  <1>2. /\ s.present \subseteq Entities
        /\ \A e \in s.present : {Parent[e], TopicOf[e]} \subseteq s.present \union {None}
    BY EntityAssumption
  <1>3. \A t \in Threads, d \in Nat : ~Is(t, d) BY <1>1 DEF Is
  <1>4. \A e \in Entities : link[e].closing => e \notin s.present BY <1>1
  <1>5. \A e \in Entities : Refers(e) <=> e \in s.present BY <1>1, <1>3 DEF Refers, InAt
  <1>6. KnownInv
    <2> SUFFICES ASSUME NEW e \in Entities, Refs(e) # {} PROVE e \in s.present
      BY <1>1, <1>4 DEF KnownInv, Refs
    <2>1. PICK c \in Entities : c \in s.present /\ e \in {Parent[c], TopicOf[c]}
      <3>1. children[e] = {c \in s.present : Parent[c] = e} BY <1>1
      <3>2. Referring(e) = {c \in Entities : TopicOf[c] = e /\ c \in s.present}
        <4> HIDE DEF Refers
        <4> QED BY <1>5 DEF Referring
      <3> QED BY <3>1, <3>2, <1>2 DEF Refs
    <2> QED BY <2>1, <1>2, EntityAssumption
  <1>7. VisitInv /\ NewInv /\ CallInv BY <1>3 DEF VisitInv, NewInv, CallInv
  <1>8. DropInv BY <1>3 DEF DropInv
  <1> QED BY <1>6, <1>7, <1>8 DEF UInv

\* It lasts while nothing happens.
LEMMA StutterOrder ==
    ASSUME UInv, UNCHANGED vars
    PROVE  UInv'
  <1>1. /\ link' = link /\ known' = known /\ children' = children
        /\ ret' = ret /\ stack' = stack
    BY DEF vars
  <1>2. \A t, d : (Is(t, d)' <=> Is(t, d)) /\ Fr(t, d)' = Fr(t, d) BY <1>1 DEF Is, Fr
  <1>3. \A e : Referring(e)' = Referring(e)
    <2> TAKE e
    <2>1. Referring(e)' = {c \in Entities : TopicOf[c] = e /\ Refers(c)'}
      BY DEF Referring, Refers, InAt
    <2>2. \A c : Refers(c)' <=> Refers(c) BY <1>1 DEF Refers, InAt, Is, Fr
    <2> HIDE DEF Refers
    <2> QED BY <2>1, <2>2 DEF Referring
  <1>4. VisitInv'
    <2>1. VisitInv' <=> \A t \in Threads, d \in Nat : \A e \in Entities :
             Is(t, d)' /\ Fr(t, d)'.of = e => Visited(Fr(t, d)', children'[e])
      BY DEF VisitInv, Visited
    <2> HIDE DEF Is, Fr, Visited
    <2> QED BY <2>1, <1>1, <1>2 DEF UInv, VisitInv
  <1>5. KnownInv'
    <2>1. KnownInv' <=> \A e \in Entities : /\ Refs(e)' # {} => e \in known'
                                            /\ link'[e].closing => Referring(e)' = {}
      BY DEF KnownInv
    <2>2. \A e : Refs(e)' = Refs(e) BY <1>1, <1>3 DEF Refs
    <2> HIDE DEF Refs, Referring
    <2> QED BY <2>1, <2>2, <1>1, <1>3 DEF UInv, KnownInv
  <1>6. DropInv'
    <2>1. DropInv' <=> \A x \in Entities : \A u \in Threads, d \in Nat :
            Is(u, d)' /\ Drops(Fr(u, d)', x) =>
              /\ link'[x].deferred /\ ~link'[x].closing /\ Referring(x)' = {}
              /\ \A v \in Threads, c \in Nat : Is(v, c)' /\ Drops(Fr(v, c)', x) => v = u /\ c = d
      BY DEF DropInv, Drops
    <2> HIDE DEF Is, Fr, Drops, Referring
    <2> QED BY <2>1, <1>1, <1>2, <1>3 DEF UInv, DropInv
  <1>7. NewInv' /\ CallInv' BY <1>1 DEF UInv, NewInv, CallInv, Is, Fr
  <1> QED BY <1>4, <1>5, <1>6, <1>7 DEF UInv

\* Every step that is not one of the three keeps the order.
LEMMA NextOrder ==
    ASSUME IInv, RInv, UInv, implicit' = implicit, Next, Orderly
    PROVE  UInv'
  <1>0. IInv' BY NextKeeps
  <1>1. PICK t \in Threads :
           \/ Operate(t) \/ Delete(t)
           \/ \E e \in Entities : StartDelete(t, e) \/ StartUse(t, e)
           \/ \E w \in unborn : StartCreate(t, w)
    BY DEF Next
  <1>2. CASE Operate(t)
    <2>1. CASE CreateLocks(t) \/ CreateUnpinsTopic(t) BY <2>1, <1>0, MovesOrder
    <2>2. CASE EndUse(t) \/ CreateEnds(t) BY <2>2, <1>0, EndsOrder
    <2>3. CASE CreatePinsTopic(t) BY <2>3, <1>0, MovesOrder, EndsOrder
    <2>4. CASE CreateRefersTopic(t) \/ CreateRegisters(t)
      BY <2>4, <1>0, RefersOrder, RegistersOrder
    <2> QED BY <1>2, <2>1, <2>2, <2>3, <2>4 DEF Operate
  <1>3. CASE Delete(t)
    <2>1. CASE LockAndInterrupt(t) \/ CloseWait(t) \/ WaitForChild(t)
      BY <2>1, <1>0, MovesOrder
    <2>2. CASE DeleteRefused(t) \/ DeleteDeferred(t)
      BY <2>2, <1>0, EndsOrder, DeferredOrder
    <2>3. CASE DeleteChild(t) \/ ChildrenDone(t) BY <2>3, <1>0, ChildOrder, DoneOrder
    <2>4. CASE PinForDelete(t) \/ DeleteHandle(t) BY <2>4, <1>0, PinOrder, HandleOrder
    <2>5. CASE Unlink(t) \/ CloseParent(t) BY <2>5, <1>0, UnlinkOrder, CloseOrder
    <2>6. CASE Derive(t) \/ FreeEntity(t) BY <2>6, <1>0, DeriveOrder, FreeOrder
    <2> QED BY <1>3, <2>1, <2>2, <2>3, <2>4, <2>5, <2>6 DEF Delete
  <1>4. CASE \E e \in Entities : StartDelete(t, e) \/ StartUse(t, e)
    BY <1>0, <1>4, StartsOrder
  <1>5. CASE \E w \in unborn : StartCreate(t, w)
    BY <1>0, <1>5, StartsOrder DEF IInv, Inv1, TypeOK
  <1> QED BY <1>1, <1>2, <1>3, <1>4, <1>5

\* But for the three steps: visits leave no child out, what is referred to can
\* be found, and a topic is dropped once.
LEMMA Ordered ==
    Spec /\ [][Orderly]_<<implicit, vars>> => [](IInv /\ RInv /\ UInv)
  <1>1. Init => IInv /\ RInv /\ UInv BY InitIInv, InitRInv, InitUInv
  <1>2. ASSUME IInv /\ RInv /\ UInv, [Next /\ UNCHANGED implicit]_<<implicit, vars>>,
               [Orderly]_<<implicit, vars>>
        PROVE  (IInv /\ RInv /\ UInv)'
    <2>1. CASE Next /\ UNCHANGED implicit /\ Orderly
      BY <2>1, <1>2, NextKeeps, NextCounts, NextOrder
    <2>2. CASE UNCHANGED <<implicit, vars>>
      BY <2>2, <1>2, StutterKeeps, StutterCounts, StutterOrder
    <2> QED BY <1>2, <2>1, <2>2
  <1> QED BY <1>1, <1>2, PTL DEF Spec

-----------------------------------------------------------------------------
(* What it says of handles and memory                                      *)

\* Who is pinned, or belongs to the activation that deletes it, is not freed.
LEMMA NotFreed ==
    ASSUME IInv, NEW t \in Threads, NEW d \in Nat, NEW e \in Entities, Is(t, d),
           Holds(Fr(t, d), e) \/ (Fr(t, d).at \in Leaving /\ Fr(t, d).of = e)
    PROVE  e \notin freed
  <1>1. CASE Holds(Fr(t, d), e) BY <1>1, PinnedKnown DEF IInv, Inv2, GoneInv
  <1>2. CASE Fr(t, d).at \in Leaving /\ Fr(t, d).of = e BY <1>2 DEF IInv, Inv2, GoneInv
  <1> QED BY <1>1, <1>2

\* Who has not left its parent finds it, and who has not dropped its topic finds
\* that.
LEMMA FindsParentAndTopic ==
    ASSUME IInv, RInv, UInv, NEW w \in Entities
    PROVE  /\ Linked(w) => Parent[w] \in known \union {None} /\ w \notin freed
           /\ Refers(w) => TopicOf[w] \in known \union {None}
  <1>1. /\ ChildrenInv /\ KnownInv
        /\ Parent[w] \in Entities \union {None}
        /\ TopicOf[w] \in Entities \union {None}
    BY EntityAssumption DEF RInv, UInv
  <1>2. ASSUME Linked(w), Parent[w] # None PROVE Parent[w] \in known
    <2>1. w \in children[Parent[w]]
      <3> HIDE DEF Linked
      <3> QED BY <1>1, <1>2 DEF ChildrenInv
    <2> QED BY <1>1, <1>2, <2>1 DEF KnownInv, Refs
  <1>3. ASSUME Refers(w), TopicOf[w] # None PROVE TopicOf[w] \in known
    BY <1>3, <1>1 DEF Referring, KnownInv, Refs
  <1>4. Linked(w) => w \notin freed BY DEF IInv, Inv2, GoneInv, InAt, Leaving, Linked
  <1> QED BY <1>2, <1>3, <1>4

\* The entity of an activation is there, unless a deletion has just been called
\* for.
LEMMA OwnNotFreed ==
    ASSUME IInv, RInv, UInv, NEW t \in Threads, NEW d \in Nat, Is(t, d),
           NEW f \in Frames, Fr(t, d) = f, f.at = "pin" => f.why = "ref"
    PROVE  f.of \notin freed
  <1>1. PICK w \in Entities : w = f.of BY DEF Frames
  <1>2. CASE f.at \in Waiting \union Alone \union Leaving \union {"use"}
    <2>1. Holds(f, w) \/ (f.at \in Leaving /\ f.of = w) BY <1>1, <1>2 DEF Holds
    <2> HIDE DEF Holds, Is, Fr
    <2> QED BY <2>1, <1>1, NotFreed
  <1>3. CASE f.at = "pin" BY <1>1, <1>3 DEF Drops, UInv, DropInv, RInv, ClosedInv
  <1>4. CASE Pends(f) BY <1>1, <1>4 DEF IInv, Inv2, PendingInv
  <1>5. CASE f.at \in {"registered", "unpinned"}
    <2>1. w \in children[Parent[w]] BY <1>1, <1>5 DEF UInv, NewInv
    <2>2. Parent[w] \in Entities BY <1>1, <1>5 DEF IInv, Inv1, FrameInv, Proper, Creating
    <2>3. Linked(w)
      <3>1. ChildrenInv /\ Parent[w] # None BY <2>2, EntityAssumption DEF RInv
      <3> HIDE DEF Linked
      <3> QED BY <2>1, <3>1 DEF ChildrenInv
    <2> HIDE DEF Linked
    <2> QED BY <1>1, <2>3, FindsParentAndTopic
  <1> QED BY <1>2, <1>3, <1>4, <1>5 DEF Frames, Places, Creating, Pends

\* So are the parent that it leaves or is to delete, and the topic it refers to.
LEMMA OthersNotFreed ==
    ASSUME IInv, RInv, UInv, NEW t \in Threads, NEW d \in Nat, Is(t, d),
           NEW f \in Frames, Fr(t, d) = f
    PROVE  /\ f.at \in {"unlink", "close", "creating", "locked", "unpinned"} =>
                 Parent[f.of] \notin freed
           /\ f.at \in {"derive", "pinned", "referred", "registered"} =>
                 TopicOf[f.of] \notin freed
           /\ f.up \notin freed
  <1>1. PICK w \in Entities : w = f.of BY DEF Frames
  <1>2. /\ TypeOK /\ Proper(f) /\ None \notin freed
        /\ \A e \in known \union {None} : e \notin freed
    BY EntityAssumption DEF IInv, Inv1, Inv2, TypeOK, FrameInv, GoneInv
  <1>3. \A e \in Entities : Holds(f, e) => e \notin freed
    <2> HIDE DEF Holds, Is, Fr
    <2> QED BY NotFreed
  <1>4. f.up \notin freed BY <1>2, <1>3 DEF Holds, Frames
  <1>5. f.at \in Creating => Parent[w] \notin freed BY <1>1, <1>2, <1>3 DEF Holds, Proper
  <1>6. f.at \in WithTopic => TopicOf[w] \notin freed
    BY <1>1, <1>2, <1>3, EntityAssumption DEF Holds
  <1>7. f.at = "close" => Parent[w] \notin freed BY <1>1, <1>2, <1>4 DEF Proper
  <1>8. f.at = "unlink" => Parent[w] \notin freed
    <2>1. f.at = "unlink" => Linked(w)
      <3> HIDE DEF Linked, Is, Fr
      <3>1. f.at = "unlink" => InAt(w, {"unlink"}) BY <1>1 DEF InAt
      <3> QED BY <3>1 DEF Linked
    <2> HIDE DEF Linked
    <2> QED BY <2>1, <1>2, FindsParentAndTopic
  <1>9. f.at = "derive" => TopicOf[w] \notin freed
    <2>1. f.at = "derive" => Refers(w)
      <3> HIDE DEF Refers, Is, Fr
      <3>1. f.at = "derive" => InAt(w, TopicPlaces) BY <1>1 DEF InAt, TopicPlaces
      <3> QED BY <3>1 DEF Refers
    <2> HIDE DEF Refers
    <2> QED BY <2>1, <1>2, FindsParentAndTopic
  <1> QED BY <1>1, <1>4, <1>5, <1>6, <1>7, <1>8, <1>9 DEF Creating, WithTopic

\* No thread reaches released memory: neither its own entity, nor the parent it
\* leaves or is to delete, nor the topic it refers to; and what can be found has
\* its parent and topic.  The hypothesis excludes the three steps, after which
\* the code does.
THEOREM MemoryIsUsedBeforeFree ==
    Spec /\ [][Orderly]_<<implicit, vars>> => []NoUseAfterFree
  <1>1. ASSUME IInv, RInv, UInv, NEW t \in Threads, NEW i \in DOMAIN stack[t]
        PROVE  Reached(stack[t][i]) \intersect freed = {}
    <2>1. stack[t] \in Seq(Frames) BY <1>1 DEF IInv, Inv1, TypeOK
    <2>2. i \in 1..Len(stack[t]) /\ Len(stack[t]) \in Nat BY <2>1
    <2>3. PICK d \in Nat : d = Len(stack[t]) + 1 - i BY <2>2
    <2>4. Is(t, d) /\ Len(stack[t]) + 1 - d = i BY <2>2, <2>3 DEF Is
    <2>5. PICK f \in Frames : f = stack[t][i] /\ Fr(t, d) = f
      BY <2>1, <2>2, <2>4 DEF Fr, Nth
    <2>6. /\ f.at = "pin" => f.why = "ref" \/ f.of \in Entities
          /\ (f.at = "pin" => f.why = "ref") => f.of \notin freed
          /\ f.at \in {"unlink", "close", "creating", "locked", "unpinned"} =>
                 Parent[f.of] \notin freed
          /\ f.at \in {"derive", "pinned", "referred", "registered"} =>
                 TopicOf[f.of] \notin freed
          /\ f.up \notin freed
      BY <1>1, <2>4, <2>5, OwnNotFreed, OthersNotFreed DEF Frames
    <2> QED BY <2>5, <2>6 DEF Reached
  <1>2. ASSUME IInv, RInv, UInv, NEW e \in known
        PROVE  {e, Parent[e], TopicOf[e]} \intersect freed = {}
    <2>1. /\ e \in Entities /\ None \notin freed
          /\ \A c \in known : c \notin freed
      BY <1>2, EntityAssumption DEF IInv, Inv1, Inv2, TypeOK, GoneInv
    <2>2. Linked(e) /\ Refers(e) BY DEF Linked, Refers
    <2> HIDE DEF Linked, Refers
    <2>3. Parent[e] \in known \union {None} /\ TopicOf[e] \in known \union {None}
      BY <1>2, <2>1, <2>2, FindsParentAndTopic
    <2> QED BY <2>1, <2>3
  <1>3. IInv /\ RInv /\ UInv => NoUseAfterFree BY <1>1, <1>2 DEF NoUseAfterFree
  <1> QED BY Ordered, <1>3, PTL

\* What dds_handle_delete asserts of the handle: closed, with no references left
\* and no pin but the deleting thread's.  The hypothesis excludes the three
\* steps, after which the code may find references.
THEOREM HandleIsUnused ==
    Spec /\ [][Orderly]_<<implicit, vars>> => []UnusedWhenDeleted
  <1>1. ASSUME IInv, RInv, UInv, NEW t \in Threads, At(t, "handle")
        PROVE  LET l == link[Cur(t).of] IN l.closing /\ l.refc = 0 /\ l.pin = 1
    <2>1. PICK L \in Nat, f \in Frames : Is(t, L) /\ Fr(t, L) = f /\ f = Cur(t) /\ f.at = "handle"
      BY <1>1, Top DEF IInv, Inv1, At, Cur
    <2>2. PICK e \in Entities : e = f.of BY DEF Frames
    <2>3. e \in known /\ link[e].closing /\ link[e].pin = 1
      <3>1. f.at \in Alone BY <2>1 DEF Alone
      <3> HIDE DEF Is, Fr
      <3> QED BY <1>1, <2>1, <2>2, <3>1, Exclusive DEF IInv, Inv3, AloneInv
    <2>4. Refs(e) = {}
      BY <1>1, <2>1, <2>2, <2>3 DEF UInv, VisitInv, Visited, KnownInv, Refs
    <2>5. Own(e) = 0 BY <2>3 DEF Own
    <2>6. link[e].refc = 0
      <3> HIDE DEF Own, Refs
      <3>1. link[e].refc = Own(e) + Cardinality(Refs(e)) BY <1>1, <2>3, Counted
      <3> QED BY <3>1, <2>4, <2>5, FS_EmptySet
    <2> QED BY <2>1, <2>2, <2>3, <2>6
  <1>2. IInv /\ RInv /\ UInv => UnusedWhenDeleted BY <1>1 DEF UnusedWhenDeleted
  <1> QED BY Ordered, <1>2, PTL

-----------------------------------------------------------------------------
(* What it says of nested deletions                                         *)

\* A writer leaves its publisher before it drops its topic.  The deletion of
\* the participant does not come to the topic in between.
Settled == \A t \in Threads : DeleteRefused(t) /\ Cur(t).why = "parent" =>
    \A w \in Entities : TopicOf[w] = Cur(t).of => ~InAt(w, {"close", "derive"})

\* f has called for the deletion g of a child, a topic in the second pass only.
CallsFor(f, g) == /\ g.why = "parent" /\ Parent[g.of] = f.of
                  /\ f.pass = 1 => g.of \notin Topics

\* A child that is to be deleted later has been refused to nobody.
ReplyInv == \A t \in Threads, d \in Nat : Is(t, d) /\ Fr(t, d).at = "child" =>
    /\ ~Is(t, d + 1) => ret[t] # "already_deleted"
    /\ Is(t, d + 1) /\ Fr(t, d + 1).at = "pin" => CallsFor(Fr(t, d), Fr(t, d + 1))

\* Who calls for the deletion of a child waits for its outcome.
LEMMA KeepChild ==
    ASSUME TypeOK, ReplyInv, NEW t \in Threads, NEW k \in Nat, Shape(t, k),
           Is(t, k) \/ k = 1,
           \A u \in Threads : u # t => ret'[u] = ret[u],
           Is(t, k)' => Fr(t, k)'.at # "pin" \/ k = 1,
           ~Is(t, k)' => \/ ret'[t] # "already_deleted"
                         \/ ~Is(t, k - 1) \/ Fr(t, k - 1).at # "child",
           Is(t, k)' /\ Fr(t, k)'.at = "child" =>
              Is(t, k + 1)' /\ CallsFor(Fr(t, k)', Fr(t, k + 1)')
    PROVE  ReplyInv'
  <1> SUFFICES ASSUME NEW u \in Threads, NEW d \in Nat, Is(u, d)', Fr(u, d)'.at = "child"
               PROVE  /\ ~Is(u, d + 1)' => ret'[u] # "already_deleted"
                      /\ Is(u, d + 1)' /\ Fr(u, d + 1)'.at = "pin" =>
                            CallsFor(Fr(u, d)', Fr(u, d + 1)')
    BY DEF ReplyInv, CallsFor
  <1>0. d + 1 \in Nat /\ ~Is(u, 0) BY DEF Is
  <1>1. CASE u = t /\ d = k BY <1>1
  <1>2. CASE u = t /\ d > k BY <1>2 DEF Shape
  <1>3. CASE u # t \/ d < k
    <2>1. /\ Is(u, d) /\ Fr(u, d).at = "child"
          /\ Fr(u, d)'.of = Fr(u, d).of /\ Fr(u, d)'.pass = Fr(u, d).pass
      BY <1>3, Apart
    <2>2. /\ ~Is(u, d + 1) => ret[u] # "already_deleted"
          /\ Is(u, d + 1) /\ Fr(u, d + 1).at = "pin" => CallsFor(Fr(u, d), Fr(u, d + 1))
      BY <2>1 DEF ReplyInv
    <2>3. ASSUME u # t \/ d + 1 < k, Is(u, d + 1)', Fr(u, d + 1)'.at = "pin"
          PROVE  CallsFor(Fr(u, d)', Fr(u, d + 1)')
      <3>1. /\ Is(u, d + 1) /\ Fr(u, d + 1).at = "pin"
            /\ Fr(u, d + 1)'.of = Fr(u, d + 1).of /\ Fr(u, d + 1)'.why = Fr(u, d + 1).why
        BY <1>0, <2>3, Apart
      <3> HIDE DEF Is, Fr
      <3> QED BY <3>1, <2>1, <2>2 DEF CallsFor
    <2>4. CASE u # t
      <3>1. Is(u, d + 1)' <=> Is(u, d + 1) BY <1>0, <2>4, Apart
      <3> HIDE DEF Is, Fr, CallsFor
      <3> QED BY <3>1, <2>2, <2>3, <2>4
    <2>5. CASE u = t /\ d + 1 < k
      <3>1. Is(u, d + 1)
        <4>1. PICK L \in Nat : L = Len(stack[t]) BY DEF TypeOK
        <4>2. d \in 1..L /\ (k \in 1..L \/ k = 1) BY <2>1, <2>5, <4>1 DEF Is
        <4>3. d + 1 \in 1..L BY <2>5, <4>2
        <4> QED BY <2>5, <4>1, <4>3 DEF Is
      <3>2. Is(u, d + 1)' BY <1>0, <2>5, <3>1, Apart
      <3> HIDE DEF Is, Fr, CallsFor
      <3> QED BY <3>2, <2>3, <2>5
    <2>6. CASE u = t /\ d + 1 = k BY <1>0, <2>1, <2>6
    <2> QED BY <1>3, <2>4, <2>5, <2>6
  <1>4. d = k \/ d > k \/ d < k OBVIOUS
  <1> QED BY <1>1, <1>2, <1>3, <1>4

\* An activation that goes to another place, having called for nothing there.
LEMMA GoneReply ==
    ASSUME TypeOK, ReplyInv, NEW t \in Threads, NEW k \in Nat, Shape(t, k),
           Is(t, k) \/ k = 1, Is(t, k)', Fr(t, k)'.at # "pin" \/ k = 1,
           Fr(t, k)'.at # "child", \A u \in Threads : u # t => ret'[u] = ret[u]
    PROVE  ReplyInv'
  <1> HIDE DEF Is, Fr, Shape, ReplyInv, TypeOK
  <1> QED BY KeepChild

\* Calls begin, activations move.
LEMMA MovesReply ==
    ASSUME IInv, ReplyInv, NEW t \in Threads,
           \/ \E e \in Entities : StartDelete(t, e) \/ StartUse(t, e) \/ StartCreate(t, e)
           \/ CreateLocks(t) \/ CreateUnpinsTopic(t)
           \/ CreatePinsTopic(t) /\ Open(TopicOf[Cur(t).of])
           \/ LockAndInterrupt(t) \/ CloseWait(t) \/ WaitForChild(t)
           \/ CreateRefersTopic(t) \/ CreateRegisters(t) \/ PinForDelete(t)
           \/ DeleteHandle(t) \/ CloseParent(t)
    PROVE  ReplyInv'
  <1>0. TypeOK BY DEF IInv, Inv1
  <1>1. ASSUME NEW k \in Nat \ {0}, NEW p, Moved(t, k, p), p \notin {"pin", "child"}, ret' = ret
        PROVE  ReplyInv'
    <2>1. /\ Shape(t, k) /\ Is(t, k) /\ Is(t, k)' /\ Fr(t, k)'.at = p
      BY <1>1 DEF Moved, Frames
    <2> HIDE DEF Is, Fr, Shape, ReplyInv, TypeOK
    <2> QED BY <1>0, <1>1, <2>1, GoneReply
  <1>2. CASE \E e \in Entities : StartDelete(t, e) \/ StartUse(t, e) \/ StartCreate(t, e)
    <2>1. PICK e \in Entities : StartDelete(t, e) \/ StartUse(t, e) \/ StartCreate(t, e)
      BY <1>2
    <2>2. PICK f : /\ Begun(t, f)
                   /\ f \in {Frame(e, "user", "pin"), Frame(e, "other", "use"),
                             Frame(e, "other", "creating")}
      BY <2>1, QuietStarts
    <2>3. ret' = ret BY <2>1, QuietStarts
    <2>4. Shape(t, 1) /\ Is(t, 1)' /\ Fr(t, 1)'.at # "child" BY <2>2 DEF Begun, Frame
    <2> HIDE DEF Is, Fr, Shape, ReplyInv, TypeOK
    <2> QED BY <1>0, <2>3, <2>4, GoneReply
  <1>3. CASE \/ CreateLocks(t) \/ CreateUnpinsTopic(t)
             \/ CreatePinsTopic(t) /\ Open(TopicOf[Cur(t).of])
             \/ LockAndInterrupt(t) \/ CloseWait(t) \/ WaitForChild(t)
    <2>1. PICK k \in Nat \ {0}, p \in Places : Moved(t, k, p) /\ <<Cur(t).at, p>> \in Moves
      BY <1>3, QuietMoves
    <2>2. p \notin {"pin", "child"} /\ ret' = ret BY <1>3, <2>1, QuietMoves DEF Moves
    <2> QED BY <1>1, <2>1, <2>2
  <1>4. CASE \/ CreateRefersTopic(t) \/ CreateRegisters(t) \/ PinForDelete(t)
             \/ DeleteHandle(t) \/ CloseParent(t)
    <2>1. ret' = ret
      BY <1>4 DEF CreateRefersTopic, CreateRegisters, PinForDelete, DeleteHandle, CloseParent
    <2>2. \E k \in Nat \ {0} : \E p : Moved(t, k, p) /\ p \notin {"pin", "child"}
      <3>1. \E k \in Nat \ {0}, p \in {"referred", "registered", "lock", "derive", "unlink"} :
               Moved(t, k, p)
        <4> HIDE DEF Moved
        <4> QED BY <1>4, MarkMoves
      <3> QED BY <3>1
    <2> QED BY <1>1, <2>1, <2>2
  <1> QED BY <1>2, <1>3, <1>4

\* So do those that leave their parent or the topic, and those of the visit.
LEMMA LeavesReply ==
    ASSUME IInv, ReplyInv, NEW t \in Threads,
           Unlink(t) \/ Derive(t) \/ ChildrenDone(t)
    PROVE  ReplyInv'
  <1>0. TypeOK BY DEF IInv, Inv1
  <1>1. \A u \in Threads : u # t => ret'[u] = ret[u]
    BY <1>0 DEF Unlink, ChildrenDone, Derive, TypeOK
  <1>2. \E k \in Nat : /\ Shape(t, k) /\ Is(t, k) /\ Is(t, k)'
                       /\ Fr(t, k)'.at \notin {"pin", "child"}
    <2>1. CASE Unlink(t) BY <2>1, LeaveFrames
    <2>2. CASE Derive(t) BY <2>2, DropFrames
    <2>3. CASE ChildrenDone(t)
      <3>1. PICK k \in Nat \ {0} :
                 /\ Shape(t, k) /\ Is(t, k) /\ Is(t, k)' /\ Fr(t, k)' = NextPass(Cur(t))
                 /\ Cur(t) \in Frames
        BY <2>3, DoneShape
      <3>2. NextPass(Cur(t)).at \notin {"pin", "child"} BY <3>1 DEF NextPass, Frames
      <3> QED BY <3>1, <3>2
    <2> QED BY <2>1, <2>2, <2>3
  <1> HIDE DEF Is, Fr, Shape, ReplyInv, TypeOK
  <1> QED BY <1>0, <1>1, <1>2, GoneReply

\* In the second pass over a participant's children only those writers refer to
\* a topic that have left their publisher.
LEMMA LateWriters ==
    ASSUME IInv, RInv, UInv, NEW t \in Threads, NEW d \in Nat, Is(t, d),
           NEW f \in Frames, Fr(t, d) = f, f.at = "child", f.pass # 1,
           NEW x \in Topics, Parent[x] = f.of, NEW w \in Referring(x)
    PROVE  InAt(w, {"close", "derive"})
  <1> SUFFICES ASSUME ~InAt(w, {"close", "derive"}) PROVE FALSE
    OBVIOUS
  <1>1. PICK pp \in Entities : pp = f.of /\ pp # None BY EntityAssumption DEF Frames
  <1>2. children[pp] \subseteq Topics BY <1>1 DEF UInv, VisitInv, Visited, Alone
  <1>3. w \in Entities /\ TopicOf[w] = x /\ x # None /\ Refers(w)
    BY EntityAssumption DEF Referring
  <1>4. PICK p \in Entities : p = Parent[w] /\ Parent[p] = pp /\ p \notin Topics
    BY <1>1, <1>3, EntityAssumption, ParticipantAssumption
  <1>5. Linked(w) \/ InAt(w, {"referred"}) BY <1>3 DEF Linked, Refers, InAt, TopicPlaces
  <1>6. p \in known
    <2>1. CASE Linked(w)
      <3> HIDE DEF Linked
      <3>1. Parent[w] \in known \union {None} BY <1>3, <2>1, FindsParentAndTopic
      <3> QED BY <3>1, <1>4, EntityAssumption
    <2>2. CASE InAt(w, {"referred"})
      <3>1. PICK u \in Threads, c \in Nat :
               Is(u, c) /\ Fr(u, c).of = w /\ Fr(u, c).at = "referred"
        BY <2>2 DEF InAt
      <3>2. Holds(Fr(u, c), p) BY <3>1, <1>4 DEF Holds, Creating
      <3> HIDE DEF Is, Fr, Holds
      <3> QED BY <3>1, <3>2, PinnedKnown
    <2> QED BY <1>5, <2>1, <2>2
  <1>7. p \in children[pp]
    <2>1. ChildrenInv /\ Linked(p) BY <1>6 DEF RInv, Linked
    <2> HIDE DEF Linked
    <2> QED BY <2>1, <1>1, <1>4 DEF ChildrenInv
  <1> QED BY <1>2, <1>4, <1>7

\* The deletion of a child is refused when somebody else is deleting it, and not
\* because it was deleted before.
LEMMA RefusedReply ==
    ASSUME IInv, RInv, UInv, ReplyInv, Settled, NEW t \in Threads, DeleteRefused(t),
           NEW k \in Nat \ {0}, k = Len(stack[t]), Is(t, k), Fr(t, k) = Cur(t),
           Is(t, k - 1), Fr(t, k - 1).at = "child"
    PROVE  ret'[t] # "already_deleted"
  <1>0. TypeOK /\ Cur(t).at = "pin" BY DEF IInv, Inv1, DeleteRefused, At, Cur
  <1>1. PICK f \in Frames, g \in Frames, x \in Entities :
           f = Fr(t, k - 1) /\ g = Cur(t) /\ x = Cur(t).of
    BY <1>0, FrType DEF Frames
  <1>2. CallsFor(f, g)
    <2>1. PICK d \in Nat : d = k - 1 /\ d + 1 = k OBVIOUS
    <2>2. Is(t, d) /\ Fr(t, d) = f /\ f.at = "child" BY <1>1, <2>1
    <2>3. Is(t, d + 1) /\ Fr(t, d + 1) = g /\ g.at = "pin" BY <1>0, <1>1, <2>1
    <2> HIDE DEF Is, Fr, CallsFor
    <2> QED BY <2>2, <2>3 DEF ReplyInv
  <1> SUFFICES ASSUME ret'[t] = "already_deleted" PROVE FALSE
    OBVIOUS
  <1>3. Open(x) /\ link[x].deferred BY <1>0, <1>1 DEF DeleteRefused, IInv, Inv1, TypeOK
  <1>4. PICK w \in Referring(x) : w \in Entities /\ TopicOf[w] = x
    BY <1>1, <1>3, RefusedDrop DEF Open, Referring
  <1>5. x \in Topics /\ f.pass # 1 /\ Parent[x] = f.of
    BY <1>1, <1>2, <1>3 DEF CallsFor, RInv, DeferInv
  <1>6. k - 1 \in Nat OBVIOUS
  <1>7. InAt(w, {"close", "derive"}) BY <1>1, <1>4, <1>5, <1>6, LateWriters
  <1>8. Cur(t).why = "parent" BY <1>1, <1>2 DEF CallsFor
  <1> QED BY <1>1, <1>4, <1>7, <1>8 DEF Settled

\* Activations that end leave no refusal to those that called for them.
LEMMA EndsReply ==
    ASSUME IInv, RInv, UInv, ReplyInv, Settled, NEW t \in Threads,
           \/ EndUse(t) \/ CreateEnds(t) \/ DeleteRefused(t)
           \/ CreatePinsTopic(t) /\ ~Open(TopicOf[Cur(t).of])
           \/ DeleteDeferred(t)
    PROVE  ReplyInv'
  <1>0. TypeOK BY DEF IInv, Inv1
  <1>1. PICK k \in Nat \ {0} : Ended(t, k) BY QuietEnds, MarkMoves
  <1>2. /\ Shape(t, k) /\ k = Len(stack[t]) /\ Is(t, k) /\ Fr(t, k) = Cur(t)
        /\ Cur(t) \in Frames /\ ~Is(t, k)'
    BY <1>1 DEF Ended
  <1>3. \A u \in Threads : u # t => ret'[u] = ret[u]
    BY <1>0, QuietEnds DEF DeleteRefused, DeleteDeferred, TypeOK
  <1>4. \/ ret'[t] # "already_deleted"
        \/ ~Is(t, k - 1) \/ Fr(t, k - 1).at # "child"
    <2>1. CASE DeleteRefused(t)
      <3> HIDE DEF Is, Fr
      <3> QED BY <1>2, <2>1, RefusedReply
    <2>2. CASE DeleteDeferred(t) BY <1>0, <2>2 DEF DeleteDeferred, TypeOK
    <2>3. CASE ~DeleteRefused(t) /\ ~DeleteDeferred(t)
      <3>1. Cur(t).at \in {"use", "unpinned", "locked"} BY <2>3, QuietEnds
      <3>2. Fr(t, k).why = "other"
        BY <1>2, <3>1 DEF IInv, Inv1, FrameInv, Proper, Creating
      <3>3. k = 1 BY <1>2, <3>2 DEF IInv, Inv1, StackInv
      <3> QED BY <3>3 DEF Is
    <2> QED BY <2>1, <2>2, <2>3
  <1> HIDE DEF Is, Fr, Shape, ReplyInv, TypeOK
  <1> QED BY <1>0, <1>2, <1>3, <1>4, KeepChild

\* What has deleted its entity succeeded, or goes on with the implicit parent.
LEMMA FreeReply ==
    ASSUME IInv, ReplyInv, NEW t \in Threads, FreeEntity(t)
    PROVE  ReplyInv'
  <1>0. TypeOK BY DEF IInv, Inv1
  <1>1. ret'[t] = "ok" /\ \A u \in Threads : u # t => ret'[u] = ret[u]
    BY <1>0 DEF FreeEntity, TypeOK
  <1>2. \E k \in Nat : /\ Shape(t, k) /\ Is(t, k)
                       /\ Is(t, k)' => Fr(t, k)'.at \notin {"pin", "child"}
    <2>1. ASSUME NEW k \in Nat \ {0}, Ended(t, k)
          PROVE  Shape(t, k) /\ Is(t, k) /\ ~Is(t, k)'
      BY <2>1 DEF Ended
    <2>2. ASSUME NEW k \in Nat \ {0}, Risen(t, k)
          PROVE  Shape(t, k) /\ Is(t, k) /\ Fr(t, k)'.at \notin {"pin", "child"}
      BY <2>2 DEF Risen, Frame
    <2> HIDE DEF Is, Fr, Shape
    <2> QED BY <2>1, <2>2, FreeShape
  <1> HIDE DEF Is, Fr, Shape, ReplyInv, TypeOK
  <1> QED BY <1>0, <1>1, <1>2, KeepChild

\* A child is called for by its parent, topics in the second pass only.
LEMMA ChildReply ==
    ASSUME IInv, ReplyInv, NEW t \in Threads, DeleteChild(t)
    PROVE  ReplyInv'
  <1>0. TypeOK /\ ret' = ret BY ChildShape DEF IInv, Inv1
  <1>1. PICK k \in Nat \ {0}, c \in Remaining(Cur(t)) :
           /\ Shape(t, k) /\ Is(t, k) /\ Cur(t) \in Frames
           /\ Is(t, k)' /\ Fr(t, k)' = [Cur(t) EXCEPT !.at = "child", !.cursor = c]
           /\ Is(t, k + 1)' /\ Fr(t, k + 1)' = Frame(c, "parent", "pin")
    <2> HIDE DEF Is, Fr, Shape, Frame, Frames, Remaining, Cur
    <2> QED BY ChildShape
  <1>2. Fr(t, k)'.of = Cur(t).of /\ Fr(t, k)'.pass = Cur(t).pass /\ Fr(t, k)'.at = "child"
    BY <1>1 DEF Frames
  <1>3. /\ Cur(t).pass = 1 => c \notin Topics
        /\ Parent[c] = Cur(t).of
    BY <1>1 DEF Frames, Remaining, IInv, Inv1, ChildInv
  <1>4. /\ Fr(t, k + 1)'.why = "parent" /\ Fr(t, k + 1)'.of = c BY <1>1 DEF Frame
  <1>5. CallsFor(Fr(t, k)', Fr(t, k + 1)') BY <1>2, <1>3, <1>4 DEF CallsFor
  <1> HIDE DEF Is, Fr, Shape, ReplyInv, TypeOK, CallsFor
  <1> QED BY <1>0, <1>1, <1>2, <1>5, KeepChild

\* In a stuttering step nothing changes.
LEMMA StutterReply ==
    ASSUME ReplyInv, UNCHANGED <<implicit, vars>>
    PROVE  ReplyInv'
  BY DEF ReplyInv, CallsFor, Is, Fr, Nth, vars

\* Every step leaves it so.
LEMMA NextReply ==
    ASSUME IInv, RInv, UInv, ReplyInv, Settled, Next
    PROVE  ReplyInv'
  <1> HIDE DEF IInv, RInv, UInv, ReplyInv, Settled
  <1>1. PICK t \in Threads :
           \/ Operate(t) \/ Delete(t)
           \/ \E e \in Entities : StartDelete(t, e) \/ StartUse(t, e)
           \/ \E w \in unborn : StartCreate(t, w)
    BY DEF Next
  <1>2. CASE Operate(t) BY <1>2, MovesReply, EndsReply DEF Operate
  <1>3. CASE Delete(t)
    BY <1>3, MovesReply, LeavesReply, EndsReply, FreeReply, ChildReply DEF Delete
  <1>4. CASE \E e \in Entities : StartDelete(t, e) \/ StartUse(t, e) BY <1>4, MovesReply
  <1>5. CASE \E w \in unborn : StartCreate(t, w)
    BY <1>5, MovesReply DEF IInv, Inv1, TypeOK
  <1> QED BY <1>1, <1>2, <1>3, <1>4, <1>5

\* What delete_children and dds_entity_drop_ref assert: a child whose deletion
\* fails is being deleted by somebody else, and dropping the last reference to a
\* topic deletes it.  The hypotheses exclude the three steps, and the deletion of
\* a participant that comes to a topic between the two steps of a writer's.
THEOREM CallersAreAnswered ==
    Spec /\ [][Orderly /\ Settled]_<<implicit, vars>> => []NestedDeletions
  <1>1. Init => ReplyInv BY DEF Init, ReplyInv, Is
  <1>2. ASSUME IInv /\ RInv /\ UInv, ReplyInv, [Next /\ UNCHANGED implicit]_<<implicit, vars>>,
               [Orderly /\ Settled]_<<implicit, vars>>
        PROVE  ReplyInv'
    <2>1. CASE Next /\ Settled BY <1>2, <2>1, NextReply
    <2>2. CASE UNCHANGED <<implicit, vars>> BY <1>2, <2>2, StutterReply
    <2> QED BY <1>2, <2>1, <2>2
  <1>3. ASSUME IInv, UInv, ReplyInv PROVE NestedDeletions
    <2> SUFFICES ASSUME NEW t \in Threads, stack[t] # <<>>
                 PROVE  /\ Cur(t).at = "child" => ret[t] # "already_deleted"
                        /\ Cur(t).at = "derived" => ret[t] = "ok"
      BY DEF NestedDeletions, At, Cur
    <2>1. PICK L \in Nat : L = Len(stack[t]) BY <1>3 DEF IInv, Inv1, TypeOK
    <2>2. Is(t, L) /\ Fr(t, L) = Cur(t) /\ ~Is(t, L + 1)
      BY <1>3, <2>1, Top DEF IInv, Inv1, Is
    <2> HIDE DEF Is, Fr
    <2> QED BY <1>3, <2>2 DEF ReplyInv, UInv, CallInv
  <1>4. [][Orderly /\ Settled]_<<implicit, vars>> => [][Orderly]_<<implicit, vars>> BY PTL
  <1>5. Spec /\ [][Orderly /\ Settled]_<<implicit, vars>> => [](IInv /\ RInv /\ UInv)
    BY <1>4, Ordered, PTL
  <1>6. Spec /\ [][Orderly /\ Settled]_<<implicit, vars>> => []ReplyInv
    BY <1>1, <1>2, <1>5, PTL DEF Spec
  <1> QED BY <1>3, <1>5, <1>6, PTL
=============================================================================

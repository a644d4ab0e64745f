--------------------------- MODULE MCEntityDelete ---------------------------
(* Instances of EntityDelete for TLC: a participant pp with a publisher p1  *)
(* and topics x1, x2, writers w1, w2, w3 of p1 and x1, and w4 of p1 and x2.     *)
EXTENDS EntityDelete

CONSTANTS pp, p1, w1, w2, w3, w4, x1, x2, t1, t2, t3

MCIid == [e \in Entities |->
    CASE e = pp -> 1 [] e = x1 -> 2 [] e = p1 -> 3 [] e = w1 -> 4
      [] e = w2 -> 5 [] e = w3 -> 6 [] e = w4 -> 7 [] e = x2 -> 8]

MCParent == [e \in Entities |->
    IF e = pp THEN None ELSE IF e \in {p1, x1, x2} THEN pp ELSE p1]

MCTopicOf == [e \in Entities |->
    IF e \in {w1, w2, w3} THEN x1 ELSE IF e = w4 THEN x2 ELSE None]

Once(s) == [e \in Entities |-> IF e \in s THEN 1 ELSE 0]

Scene(present, implicit_, unborn_, deleted, used) ==
    [present |-> present, implicit |-> implicit_, unborn |-> unborn_,
     deletes |-> Once(deleted), uses |-> Once(used)]

\* Participant, publisher and writer are deleted at once; the writers of an
\* implicit publisher go while others come, one of them for a topic that has
\* been deleted; a topic is deleted while its writers are.
MCScenes == {
    Scene({pp, p1, w1, x1}, {}, {}, {pp, p1, w1}, {p1, w1}),
    Scene({pp, p1, w1, w2, x1}, {p1}, {w3, w4}, {w1, w2}, {p1}),
    Scene({pp, p1, w1, w2, x1}, {}, {}, {w1, w2, x1}, {x1}) }

\* The participant is deleted while the implicit publisher's last writer is.
TwoDeletersScenes == {
    Scene({pp, p1, w1, x1}, {p1}, {}, {pp, w1}, {}) }
=============================================================================

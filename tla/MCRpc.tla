------------------------------- MODULE MCRpc -------------------------------
(* Instances of Rpc for TLC.                                               *)
EXTENDS Rpc

CONSTANTS c1, c2, r1, r2, r3

\* One client calls r1, whose answer cannot be encoded, and r3 with priority,
\* the other r2 without reply: queues of one.
TwoCallers ==
    [owner |-> [r \in Calls |-> IF r = r2 THEN c2 ELSE c1], noReply |-> {r2},
     badReply |-> {r1}, prio |-> {r3}, enablePrio |-> TRUE,
     queueMax |-> 1, prioMax |-> 1]

\* One client sends three requests through one queue of two.
OneCaller ==
    [owner |-> [r \in Calls |-> c1], noReply |-> Calls, badReply |-> {},
     prio |-> {}, enablePrio |-> FALSE, queueMax |-> 2, prioMax |-> 1]

MCSetups == {TwoCallers, OneCaller}
=============================================================================

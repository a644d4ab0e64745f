-------------------------- MODULE MCWriterThrottle --------------------------
(* Instances of WriterThrottle for TLC.                                    *)
EXTENDS WriterThrottle

CONSTANTS w1, a1, r1, r2, deleter, receiver, discovery, events

Setting(l, h, b, a, r, w) ==
    [low |-> l, high |-> h, bounded |-> b, responsive |-> a, readers |-> r,
     waits |-> w]

\* Safety: two readers, with time limits or none, one of them not matched.
MCSettings == { Setting(0, 1, TRUE, FALSE, {r1, r2}, TRUE),
                Setting(0, 0, FALSE, FALSE, {r1, r2}, TRUE),
                Setting(0, 0, TRUE, FALSE, {r1}, FALSE) }

\* Liveness: one silent reader and time limits; one that answers and none; one
\* that is silent while no write is throttled.
LiveSettings == { Setting(0, 1, TRUE, FALSE, {r1}, TRUE),
                  Setting(0, 1, FALSE, TRUE, {r1}, TRUE),
                  Setting(2, 2, FALSE, FALSE, {r1}, TRUE) }
=============================================================================

---------------------------- MODULE SampleStream ----------------------------
(***************************************************************************)
(* What a subscriber promises the code above it: the handler sees samples  *)
(* of the publisher, in the order they were written, each at most once.    *)
(* Samples may be skipped (the channel is lossy and the queue bounded) but *)
(* never reordered, repeated or invented.                                  *)
(***************************************************************************)
EXTENDS Naturals

VARIABLES sent,   \* number of the newest sample written by the publisher
          last,   \* number of the newest sample given to the handler
          calls   \* number of times the handler was called

Init == sent = 0 /\ last = 0 /\ calls = 0

Publish == sent' = sent + 1 /\ UNCHANGED <<last, calls>>

Handle == /\ last' \in (last + 1)..sent
          /\ calls' = calls + 1
          /\ UNCHANGED sent

Next == Publish \/ Handle

Spec == Init /\ [][Next]_<<sent, last, calls>>
=============================================================================

---------------------------- MODULE Observation ----------------------------
(***************************************************************************)
(* How the policy's observation is put together in No_Look.py: run() reads *)
(* the last sample and the sticks one by one while LowStateHandler, in the *)
(* subscriber's thread, replaces the sample and RemoteController.set       *)
(* writes buttons and sticks one by one.  No lock is held on either side.  *)
(*                                                                         *)
(* A field stands for the number of the handled sample its value is from;  *)
(* samples reach the handler in order (ChannelReader).                     *)
(***************************************************************************)
EXTENDS Integers, Sequences

CONSTANTS WriteOrder,  \* the fields in the order the handler writes them
          ReadOrder,   \* the fields in the order run() reads them
          MaxSamples   \* bound: samples handled

Fields == {WriteOrder[i] : i \in DOMAIN WriteOrder}
Writes == DOMAIN WriteOrder
Reads  == DOMAIN ReadOrder

ASSUME OrderAssumption ==
    /\ WriteOrder \in Seq(Fields) /\ WriteOrder # <<>>
    /\ \A i, j \in Writes : WriteOrder[i] = WriteOrder[j] => i = j
    /\ ReadOrder \in Seq(Fields) /\ ReadOrder # <<>>
    /\ MaxSamples \in Nat

VARIABLES
    field,    \* the value of low_state, buttons, lx, rx, ry, ly
    sample,   \* the sample the handler has or had last
    written,  \* how many of its fields it has written
    obs,      \* the observation, entry by entry
    got,      \* how many of its entries are of the current run()
    before    \* the observation of the run() before

vars == <<field, sample, written, obs, got, before>>

Init ==
    /\ field = [f \in Fields |-> 0]
    /\ sample = 0 /\ written = Len(WriteOrder)
    /\ obs = [i \in Reads |-> 0] /\ got = Len(ReadOrder)
    /\ before = [i \in Reads |-> 0]

\* Faulty variants of the definitions below.  No specification uses them.

\* The handler works on the next sample before it is done with this one.
HandleAnyTime ==
    /\ sample < MaxSamples
    /\ sample' = sample + 1 /\ written' = 0
    /\ UNCHANGED <<field, obs, got, before>>

\* The handler writes the fields in the opposite order.
WriteBackwards ==
    /\ written < Len(WriteOrder)
    /\ written' = written + 1
    /\ field' = [field EXCEPT ![WriteOrder[Len(WriteOrder) - written]] = sample]
    /\ UNCHANGED <<sample, obs, got, before>>

\* LowStateHandler is called with the next sample.
Handle ==
    /\ written = Len(WriteOrder) /\ sample < MaxSamples
    /\ sample' = sample + 1 /\ written' = 0
    /\ UNCHANGED <<field, obs, got, before>>

\* LowStateHandler and RemoteController.set write one field.
WriteField ==
    /\ written < Len(WriteOrder)
    /\ written' = written + 1
    /\ field' = [field EXCEPT ![WriteOrder[written + 1]] = sample]
    /\ UNCHANGED <<sample, obs, got, before>>

\* run() begins again.
Run ==
    /\ got = Len(ReadOrder)
    /\ got' = 0 /\ before' = obs
    /\ UNCHANGED <<field, sample, written, obs>>

\* run() reads one entry.
ReadField ==
    /\ got < Len(ReadOrder)
    /\ got' = got + 1
    /\ obs' = [obs EXCEPT ![got + 1] = field[ReadOrder[got + 1]]]
    /\ UNCHANGED <<field, sample, written, before>>

Next == Handle \/ WriteField \/ Run \/ ReadField

Spec == Init /\ [][Next]_vars

-----------------------------------------------------------------------------
(* Properties                                                              *)

Place(f) == CHOOSE i \in Writes : WriteOrder[i] = f

\* How far a field may be behind another read earlier: one sample if the
\* handler writes it after the other.
Slack(f, g) == IF Place(g) > Place(f) THEN 1 ELSE 0

TypeOK ==
    /\ field \in [Fields -> Nat] /\ sample \in Nat
    /\ written \in 0..Len(WriteOrder)
    /\ obs \in [Reads -> Nat] /\ before \in [Reads -> Nat]
    /\ got \in 0..Len(ReadOrder)

\* One observation may mix any number of samples, but never steps back by
\* more than the sample the handler is working on: what is read later is at
\* most one sample older, and none if the handler writes it first.  So the
\* joints are never older than the attitude, nor the sideways command than
\* the forward one, and the sticks lag behind the gyroscope by one sample.
StepsBackAtMostOne ==
    \A i, j \in 1..got : i < j =>
        obs[j] >= obs[i] - Slack(ReadOrder[i], ReadOrder[j])

\* The same from one observation to the next.
NextIsNewer ==
    \A i \in 1..got, j \in Reads :
        obs[i] >= before[j] - Slack(ReadOrder[j], ReadOrder[i])
=============================================================================

------------------------- MODULE ObservationProofs -------------------------
(***************************************************************************)
(* Proofs about Observation, for any fields, orders and number of samples. *)
(***************************************************************************)
EXTENDS Observation, TLAPS

NW == Len(WriteOrder)
NR == Len(ReadOrder)

\* The fields in the order of the writes and of the reads.
LEMMA Orders ==
    /\ NW \in Nat /\ NR \in Nat /\ Writes = 1..NW /\ Reads = 1..NR
    /\ \A i \in Writes : WriteOrder[i] \in Fields
    /\ \A j \in Reads : ReadOrder[j] \in Fields
  BY OrderAssumption DEF NW, NR, Writes, Reads, Fields

\* The place of a field is where it is written.
LEMMA Places ==
    /\ \A i \in Writes : Place(WriteOrder[i]) = i
    /\ \A f \in Fields : Place(f) \in Writes /\ WriteOrder[Place(f)] = f
  <1>1. ASSUME NEW i \in Writes PROVE Place(WriteOrder[i]) = i
    BY <1>1, OrderAssumption DEF Place
  <1>2. ASSUME NEW f \in Fields PROVE Place(f) \in Writes /\ WriteOrder[Place(f)] = f
    <2>1. PICK i \in Writes : WriteOrder[i] = f
      BY DEF Fields, Writes
    <2>. QED BY <2>1 DEF Place
  <1>. QED BY <1>1, <1>2

\* A field may be older than another by one message at most.
LEMMA SlackType == \A f, g \in Fields : Slack(f, g) \in {0, 1}
  BY DEF Slack

\* Types hold for any number of samples (No_Look.py:152-154, 206-250).
THEOREM TypeCorrect == Spec => []TypeOK
  <1>1. Init => TypeOK
    BY Orders DEF Init, TypeOK, NW, NR
  <1>2. TypeOK /\ [Next]_vars => TypeOK'
    <2> SUFFICES ASSUME TypeOK, [Next]_vars PROVE TypeOK'
      OBVIOUS
    <2>1. CASE Handle BY <2>1, Orders DEF Handle, TypeOK, NW, NR
    <2>2. CASE WriteField BY <2>2, Orders DEF WriteField, TypeOK, NW, NR
    <2>3. CASE Run BY <2>3, Orders DEF Run, TypeOK, NW, NR
    <2>4. CASE ReadField BY <2>4, Orders DEF ReadField, TypeOK, NW, NR
    <2>5. CASE UNCHANGED vars BY <2>5 DEF vars, TypeOK
    <2>. QED BY <2>1, <2>2, <2>3, <2>4, <2>5 DEF Next
  <1>. QED BY <1>1, <1>2, PTL DEF Spec

-----------------------------------------------------------------------------
(* The invariant: the fields the handler has written are of its sample, the *)
(* others of the one before; and no field is behind what was read by more   *)
(* than the slack.                                                          *)

Front == \A f \in Fields :
    field[f] = IF Place(f) <= written THEN sample ELSE sample - 1

ObsBehind == \A i \in 1..got : \A f \in Fields :
    field[f] >= obs[i] - Slack(ReadOrder[i], f)

BeforeBehind == \A j \in Reads : \A f \in Fields :
    field[f] >= before[j] - Slack(ReadOrder[j], f)

IInv == TypeOK /\ Front /\ ObsBehind /\ BeforeBehind /\ StepsBackAtMostOne /\ NextIsNewer

\* No field is behind another by more than the slack.
LEMMA FrontSlack ==
    ASSUME TypeOK, Front, NEW f \in Fields, NEW g \in Fields
    PROVE  field[g] >= field[f] - Slack(f, g)
  <1>1. Place(f) \in Int /\ Place(g) \in Int /\ written \in Int /\ sample \in Int
    BY Places, Orders DEF TypeOK, NW
  <1>2. field[f] = IF Place(f) <= written THEN sample ELSE sample - 1
    BY DEF Front
  <1>3. field[g] = IF Place(g) <= written THEN sample ELSE sample - 1
    BY DEF Front
  <1>4. CASE Place(g) > Place(f)
    <2>1. Slack(f, g) = 1 BY <1>4 DEF Slack
    <2>. QED BY <1>1, <1>2, <1>3, <2>1
  <1>5. CASE ~(Place(g) > Place(f))
    <2>1. Slack(f, g) = 0 BY <1>5 DEF Slack
    <2>. QED BY <1>1, <1>2, <1>3, <1>5, <2>1
  <1>. QED BY <1>4, <1>5

\* When fields only grow, nothing that was read comes to lie ahead of them.
LEMMA Growing ==
    ASSUME IInv, TypeOK', Front', UNCHANGED <<obs, got, before>>,
           \A f \in Fields : field'[f] >= field[f]
    PROVE  IInv'
  <1>1. ObsBehind'
    <2> SUFFICES ASSUME NEW i \in 1..got, NEW f \in Fields
                 PROVE field'[f] >= obs[i] - Slack(ReadOrder[i], f)
      BY DEF ObsBehind, Slack, Place
    <2>1. i \in Reads BY Orders DEF IInv, TypeOK, NR
    <2>2. obs[i] \in Nat /\ Slack(ReadOrder[i], f) \in {0, 1}
          /\ field[f] \in Nat /\ field'[f] \in Nat
      BY <2>1, Orders, SlackType DEF IInv, TypeOK
    <2>. QED BY <2>2 DEF IInv, ObsBehind
  <1>2. BeforeBehind'
    <2> SUFFICES ASSUME NEW j \in Reads, NEW f \in Fields
                 PROVE field'[f] >= before[j] - Slack(ReadOrder[j], f)
      BY DEF BeforeBehind, Slack, Place
    <2>1. before[j] \in Nat /\ Slack(ReadOrder[j], f) \in {0, 1}
          /\ field[f] \in Nat /\ field'[f] \in Nat
      BY Orders, SlackType DEF IInv, TypeOK
    <2>. QED BY <2>1 DEF IInv, BeforeBehind
  <1>3. StepsBackAtMostOne' /\ NextIsNewer'
    BY DEF IInv, StepsBackAtMostOne, NextIsNewer, Slack, Place
  <1>. QED BY <1>1, <1>2, <1>3 DEF IInv

\* The invariant holds at first.
LEMMA InvInit == Init => IInv
  <1> SUFFICES ASSUME Init PROVE IInv
    OBVIOUS
  <1>1. TypeOK BY Orders DEF Init, TypeOK, NW, NR
  <1>2. Front BY Orders, Places DEF Init, Front, NW
  <1>3. ASSUME NEW i \in Reads, NEW f \in Fields
        PROVE  Slack(ReadOrder[i], f) \in {0, 1}
    BY Orders, SlackType
  <1>4. ObsBehind
    BY <1>3, Orders DEF Init, ObsBehind, NR
  <1>5. BeforeBehind
    BY <1>3, Orders DEF Init, BeforeBehind
  <1>6. StepsBackAtMostOne
    BY <1>3, Orders DEF Init, StepsBackAtMostOne, NR
  <1>7. NextIsNewer
    BY <1>3, Orders DEF Init, NextIsNewer, NR
  <1>. QED BY <1>1, <1>2, <1>4, <1>5, <1>6, <1>7 DEF IInv

\* A message is handled.
LEMMA HandleKeeps == IInv /\ TypeOK' /\ Handle => IInv'
  <1> SUFFICES ASSUME IInv, TypeOK', Handle PROVE IInv'
    OBVIOUS
  <1>1. Front'
    <2> SUFFICES ASSUME NEW f \in Fields
                 PROVE field[f] = IF Place(f) <= 0 THEN sample + 1 ELSE (sample + 1) - 1
      BY DEF Front, Handle, Place
    <2>1. Place(f) \in 1..NW BY Places, Orders
    <2>2. field[f] = sample BY <2>1, Orders DEF Handle, IInv, Front, NW
    <2>3. sample \in Nat /\ NW \in Nat BY Orders DEF IInv, TypeOK
    <2>. QED BY <2>1, <2>2, <2>3
  <1>. QED BY <1>1, Growing DEF Handle, IInv, TypeOK

\* A field is written.
LEMMA WriteKeeps == IInv /\ TypeOK' /\ WriteField => IInv'
  <1> SUFFICES ASSUME IInv, TypeOK', WriteField PROVE IInv'
    OBVIOUS
  <1> DEFINE w == WriteOrder[written + 1]
  <1>1. written \in Nat /\ written + 1 \in Writes /\ w \in Fields /\ Place(w) = written + 1
    BY Orders, Places DEF WriteField, IInv, TypeOK, NW
  <1>2. ASSUME NEW f \in Fields
        PROVE  /\ field'[f] = IF f = w THEN sample ELSE field[f]
               /\ Place(f) \in Int /\ sample \in Nat /\ field[f] \in Nat
               /\ f # w => Place(f) # written + 1
               /\ field[f] = IF Place(f) <= written THEN sample ELSE sample - 1
    BY Places, Orders, <1>1 DEF WriteField, IInv, TypeOK, Front
  <1>3. Front'
    <2> SUFFICES ASSUME NEW f \in Fields
                 PROVE field'[f] = IF Place(f) <= written + 1 THEN sample ELSE sample - 1
      BY DEF Front, WriteField, Place
    <2>. QED BY <1>1, <1>2
  <1>4. \A f \in Fields : field'[f] >= field[f]
    BY <1>2
  <1>. QED BY <1>3, <1>4, Growing DEF WriteField

\* A run of the controller begins.
LEMMA RunKeeps == IInv /\ TypeOK' /\ Run => IInv'
  <1> SUFFICES ASSUME IInv, TypeOK', Run PROVE IInv'
    OBVIOUS
  <1>1. 1..got' = {} BY DEF Run
  <1>2. Reads = 1..got BY Orders DEF Run, NR
  <1>3. BeforeBehind' BY <1>2 DEF Run, IInv, ObsBehind, BeforeBehind, Slack, Place
  <1>4. Front' BY DEF Run, IInv, Front, Place
  <1>5. ObsBehind' /\ StepsBackAtMostOne' /\ NextIsNewer'
    BY <1>1 DEF ObsBehind, StepsBackAtMostOne, NextIsNewer
  <1>. QED BY <1>3, <1>4, <1>5 DEF IInv

\* A field is read.
LEMMA ReadKeeps == IInv /\ TypeOK' /\ ReadField => IInv'
  <1> SUFFICES ASSUME IInv, TypeOK', ReadField PROVE IInv'
    OBVIOUS
  <1> DEFINE r == got + 1
             g == ReadOrder[r]
  <1>1. got \in Nat /\ r \in Reads /\ r \notin 1..got /\ g \in Fields /\ 1..r = 1..got \union {r}
    BY Orders DEF ReadField, IInv, TypeOK, NR
  <1>2. got' = r /\ obs'[r] = field[g] /\ \A i \in 1..got : obs'[i] = obs[i]
    BY <1>1, Orders DEF ReadField, IInv, TypeOK, NR
  <1>3. Front' /\ BeforeBehind'
    BY DEF ReadField, IInv, Front, BeforeBehind, Slack, Place
  <1>4. ObsBehind'
    <2> SUFFICES ASSUME NEW i \in 1..r, NEW f \in Fields
                 PROVE field[f] >= obs'[i] - Slack(ReadOrder[i], f)
      BY <1>2 DEF ReadField, ObsBehind, Slack, Place
    <2>1. CASE i = r
      BY <2>1, <1>1, <1>2, FrontSlack DEF IInv
    <2>2. CASE i \in 1..got
      BY <2>2, <1>2 DEF IInv, ObsBehind
    <2>. QED BY <2>1, <2>2, <1>1
  <1>5. StepsBackAtMostOne'
    <2> SUFFICES ASSUME NEW i \in 1..r, NEW j \in 1..r, i < j
                 PROVE obs'[j] >= obs'[i] - Slack(ReadOrder[i], ReadOrder[j])
      BY <1>2 DEF StepsBackAtMostOne, Slack, Place
    <2>1. i \in 1..got BY <1>1
    <2>2. CASE j = r
      BY <2>1, <2>2, <1>1, <1>2 DEF IInv, ObsBehind
    <2>3. CASE j \in 1..got
      BY <2>1, <2>3, <1>2 DEF IInv, StepsBackAtMostOne
    <2>. QED BY <2>2, <2>3, <1>1
  <1>6. NextIsNewer'
    <2> SUFFICES ASSUME NEW i \in 1..r, NEW j \in Reads
                 PROVE obs'[i] >= before[j] - Slack(ReadOrder[j], ReadOrder[i])
      BY <1>2 DEF NextIsNewer, ReadField, Slack, Place
    <2>1. CASE i = r
      BY <2>1, <1>1, <1>2 DEF IInv, BeforeBehind
    <2>2. CASE i \in 1..got
      BY <2>2, <1>2 DEF IInv, NextIsNewer
    <2>. QED BY <2>1, <2>2, <1>1
  <1>. QED BY <1>3, <1>4, <1>5, <1>6 DEF IInv

\* The invariant holds always.
LEMMA Invariant == Spec => []IInv
  <1>1. IInv /\ TypeOK' /\ [Next]_vars => IInv'
    <2> SUFFICES ASSUME IInv, TypeOK', [Next]_vars PROVE IInv'
      OBVIOUS
    <2>1. CASE UNCHANGED vars
      <3>1. Front' BY <2>1 DEF vars, IInv, Front, Place
      <3>2. \A f \in Fields : field'[f] >= field[f]
        BY <2>1 DEF vars, IInv, TypeOK
      <3>. QED BY <2>1, <3>1, <3>2, Growing DEF vars
    <2>. QED BY <2>1, HandleKeeps, WriteKeeps, RunKeeps, ReadKeeps DEF Next
  <1>. QED BY <1>1, InvInit, TypeCorrect, PTL DEF Spec

\* One observation of run() never steps back by more than the sample the
\* handler is working on, for any number of joints and samples.
THEOREM ObservationInOrder == Spec => []StepsBackAtMostOne
  <1>1. IInv => StepsBackAtMostOne BY DEF IInv
  <1>. QED BY <1>1, Invariant, PTL

\* Nor does the next observation behind the one before.
THEOREM ObservationsAdvance == Spec => []NextIsNewer
  <1>1. IInv => NextIsNewer BY DEF IInv
  <1>. QED BY <1>1, Invariant, PTL
=============================================================================

---------------------------- MODULE LeaseProofs ----------------------------
(***************************************************************************)
(* Proofs about Lease, for every set of clients, every term and any time.  *)
(***************************************************************************)
EXTENDS Lease, TLAPS

\* The time that the handler works with is not ahead of the clock.
ClockInv ==
    /\ clock >= 1
    /\ Busy => serving.now <= clock

\* An id is the time at which it was granted.
GrantInv ==
    \A i \in Times : granted[i] # {} => 1 <= i /\ i <= clock

\* The history agrees with the server's cache.
CacheInv ==
    cache.id # 0 => /\ granted[cache.id] # {}
                    /\ renewed[cache.id] = cache.lastModified

\* An answer carries an id only to the client it was granted to.
AnswerInv ==
    \A c \in Clients : answer[c].lease # 0 => c \in granted[answer[c].lease]

\* A leased call carries an id that was granted.
AppInv ==
    \A c \in Callers : app[c].lease # 0 => granted[app[c].lease] # {}

\* The inductive invariant.
IInv ==
    /\ TypeOK
    /\ ClockInv
    /\ GrantInv
    /\ CacheInv
    /\ LostOnlyByExpiry
    /\ HolderWasGranted
    /\ AnswerInv
    /\ AppInv

-----------------------------------------------------------------------------
(* Arithmetic.                                                             *)

\* A sleep lasts at least one tick.
LEMMA SleepIsPositive ==
    ASSUME NEW t \in Nat \ {0}
    PROVE  WaitSec(t) \in Nat /\ WaitSec(t) >= 1
  BY SMT DEF WaitSec

\* The terms a client sleeps by.
LEMMA TermIsPositive ==
    ASSUME NEW id \in Nat
    PROVE  TermOf(id) \in Nat \ {0}
  BY LeaseAssumption DEF TermOf

-----------------------------------------------------------------------------
\* The invariant holds at first.
LEMMA InitInv == Init => IInv
  <1> SUFFICES ASSUME Init PROVE IInv
    OBVIOUS
  <1> USE LeaseAssumption DEF Init, Idle, NoAnswer, NoCall, Times
  <1>1. TypeOK
    BY DEF TypeOK, Apis, Codes, Request
  <1>2. ClockInv /\ GrantInv /\ CacheInv
    BY DEF ClockInv, GrantInv, CacheInv, Busy
  <1>3. LostOnlyByExpiry /\ HolderWasGranted /\ AnswerInv /\ AppInv
    BY DEF LostOnlyByExpiry, HolderWasGranted, AnswerInv, AppInv
  <1> QED
    BY <1>1, <1>2, <1>3 DEF IInv

\* Types of the parts an action may change.
ServingType == [from : Clients \union {None}, api : Apis \union {"none"},
                lease : Times, at : Times, now : Times]
AnswerType  == [Clients -> [code : Codes, lease : Times, at : Times]]
PcType      == [Clients -> {"decide", "applying", "renewing", "sleeping"}]
AppType     == [Callers -> [lease : Times,
                            fate : {"none", "sent", "admitted", "denied"}]]

\* Call records the call and its request.
LEMMA CallType ==
    ASSUME TypeOK, NEW c \in Clients, NEW api \in Apis, NEW id \in Times,
           Call(c, api, id)
    PROVE  /\ issued' \in [Clients -> Times]
           /\ answer' \in AnswerType
           /\ requests' \subseteq Request
  <1>1. [from |-> c, api |-> api, lease |-> id, at |-> clock] \in Request
    BY DEF Request, TypeOK
  <1>2. NoAnswer \in [code : Codes, lease : Times, at : Times]
    BY LeaseAssumption DEF NoAnswer, Codes, Times
  <1>3. answer \in AnswerType
    BY DEF TypeOK, AnswerType
  <1>4. answer' \in AnswerType
    BY <1>2, <1>3 DEF Call, AnswerType
  <1>5. requests' \subseteq Request
    BY <1>1 DEF Call, TypeOK
  <1>6. issued' \in [Clients -> Times]
    BY DEF Call, TypeOK
  <1> QED
    BY <1>4, <1>5, <1>6

\* ThenSleep forgets the call and sets a time to wake up.
LEMMA SleepType ==
    ASSUME TypeOK, NEW c \in Clients, context'[c] \in Times, ThenSleep(c)
    PROVE  /\ pc' \in PcType
           /\ issued' \in [Clients -> Times]
           /\ wake' \in [Clients -> Nat]
           /\ answer' \in AnswerType
           /\ wake'[c] > clock
           /\ 0 \in Times
  <1>1. /\ WaitSec(TermOf(context'[c])) \in Nat
        /\ WaitSec(TermOf(context'[c])) >= 1
    <2>1. context'[c] \in Nat
      BY DEF Times
    <2>2. TermOf(context'[c]) \in Nat \ {0}
      BY <2>1, TermIsPositive
    <2> QED
      BY <2>2, SleepIsPositive
  <1>2. clock \in Nat
    BY DEF TypeOK, Times
  <1>3. /\ clock + WaitSec(TermOf(context'[c])) \in Nat
        /\ clock + WaitSec(TermOf(context'[c])) > clock
    BY <1>1, <1>2
  <1>4. wake \in [Clients -> Nat]
    BY DEF TypeOK
  <1>5. wake' \in [Clients -> Nat] /\ wake'[c] > clock
    BY <1>3, <1>4 DEF ThenSleep
  <1>6. 0 \in Times
    BY LeaseAssumption DEF Times
  <1>7. NoAnswer \in [code : Codes, lease : Times, at : Times]
    BY <1>6 DEF NoAnswer, Codes
  <1>8. answer \in AnswerType
    BY DEF TypeOK, AnswerType
  <1>9. answer' \in AnswerType
    BY <1>7, <1>8 DEF ThenSleep, AnswerType
  <1>10. issued' \in [Clients -> Times]
    BY <1>6 DEF ThenSleep, TypeOK
  <1>11. pc' \in PcType
    BY DEF ThenSleep, TypeOK, PcType
  <1> QED
    BY <1>5, <1>6, <1>9, <1>10, <1>11

\* Respond ends the handling and may put an answer on its way.
LEMMA RespondType ==
    ASSUME TypeOK, NEW code \in Codes, NEW id \in Times, Busy,
           Respond(code, id)
    PROVE  /\ answer' \in AnswerType
           /\ serving' \in ServingType
           /\ serving' = Idle /\ requests' = requests
  <1>1. serving' = Idle /\ requests' = requests
    BY DEF Respond
  <1>2. Idle \in ServingType
    BY LeaseAssumption DEF Idle, ServingType, Times
  <1>3. clock \in Times
    BY DEF TypeOK
  <1>4. answer \in AnswerType
    BY DEF TypeOK, AnswerType
  <1>5. [code |-> code, lease |-> id, at |-> clock]
            \in [code : Codes, lease : Times, at : Times]
    BY <1>3
  <1>6. answer' \in AnswerType
    <2>1. \/ answer' = answer
          \/ answer' = [answer EXCEPT ![serving.from] =
                           [code |-> code, lease |-> id, at |-> clock]]
      BY DEF Respond
    <2> QED
      BY <2>1, <1>4, <1>5 DEF AnswerType
  <1> QED
    BY <1>1, <1>2, <1>3, <1>6

\* Types, one action at a time.
LEMMA TypeStep ==
    ASSUME TypeOK, [Next]_vars
    PROVE  TypeOK'
  <1>0. 0 \in Times /\ clock \in Times
    BY LeaseAssumption DEF TypeOK, Times
  <1>1. CASE UNCHANGED vars
    BY <1>1 DEF TypeOK, vars, lease, thread, network
  <1>2. CASE Tick
    <2>1. clock < MaxTime /\ clock' = clock + 1
      BY <1>2 DEF Tick, MayTick
    <2>2. clock' \in Times
      BY <1>0, <2>1, LeaseAssumption DEF Times
    <2> QED
      BY <1>2, <2>2 DEF Tick, TypeOK, lease, thread, network
  <1>3. ASSUME NEW c \in Clients, Decide(c) PROVE TypeOK'
    <2>1. context[c] \in Times
      BY DEF TypeOK
    <2>2. \/ Call(c, "renewal", context[c])
          \/ Call(c, "apply", 0)
      BY <1>3 DEF Decide
    <2>3. /\ issued' \in [Clients -> Times]
          /\ answer' \in AnswerType
          /\ requests' \subseteq Request
      BY <1>0, <2>1, <2>2, CallType DEF Apis
    <2>4. pc' \in PcType
      BY <1>3 DEF Decide, TypeOK, PcType
    <2> QED
      BY <1>3, <2>3, <2>4
      DEF Decide, TypeOK, PcType, AnswerType, lease
  <1>4. ASSUME NEW c \in Clients,
               \/ ApplyReturns(c) \/ RenewalReturns(c)
               \/ SendFails(c) \/ CallFails(c)
        PROVE  TypeOK'
    <2>1. context' \in [Clients -> Times] /\ context'[c] \in Times
      BY <1>0, <1>4
      DEF ApplyReturns, RenewalReturns, SendFails, CallFails, TypeOK
    <2>2. ThenSleep(c)
      BY <1>4 DEF ApplyReturns, RenewalReturns, SendFails, CallFails
    <2>3. /\ pc' \in PcType
          /\ issued' \in [Clients -> Times]
          /\ wake' \in [Clients -> Nat]
          /\ answer' \in AnswerType
      BY <2>1, <2>2, SleepType
    <2>4. UNCHANGED <<clock, lease, serving, requests, app>>
      BY <1>4 DEF ApplyReturns, RenewalReturns, SendFails, CallFails
    <2> QED
      BY <2>1, <2>3, <2>4 DEF TypeOK, PcType, AnswerType, lease
  <1>5. ASSUME NEW c \in Clients, Awake(c) PROVE TypeOK'
    BY <1>5 DEF Awake, TypeOK, lease, network
  <1>6. ASSUME NEW q \in requests, Take(q) PROVE TypeOK'
    <2>1. q \in Request
      BY DEF TypeOK
    <2>2. serving' \in ServingType
      BY <1>0, <1>6, <2>1 DEF Take, Request, ServingType
    <2>3. requests' \subseteq Request
      BY <1>6 DEF Take, TypeOK
    <2> QED
      BY <1>6, <2>2, <2>3 DEF Take, TypeOK, ServingType, lease, thread
  <1>7. CASE Apply
    <2>1. serving \in ServingType
      BY DEF TypeOK, ServingType
    <2>2. serving.now \in Times /\ serving.from \in Clients
      BY <1>7, <2>1 DEF ServingType, Apply, Busy
    <2>3. PICK code \in Codes, id \in Times : Respond(code, id)
      BY <1>0, <1>7 DEF Apply, Grant, Codes
    <2>4. /\ answer' \in AnswerType
          /\ serving' \in ServingType
          /\ requests' = requests
      BY <1>7, <2>3, RespondType DEF Apply
    <2>5. /\ cache' \in [id : Times, lastModified : Times]
          /\ granted' \in [Times -> SUBSET Clients]
          /\ renewed' \in [Times -> Times]
      <3>1. /\ cache \in [id : Times, lastModified : Times]
            /\ granted \in [Times -> SUBSET Clients]
            /\ renewed \in [Times -> Times]
        BY DEF TypeOK
      <3>2. CASE UNCHANGED lease
        BY <3>1, <3>2 DEF lease
      <3>3. CASE Grant(clock)
        BY <1>0, <2>2, <3>1, <3>3 DEF Grant
      <3> QED
        BY <1>7, <3>2, <3>3 DEF Apply
    <2> QED
      BY <1>7, <2>4, <2>5 DEF Apply, TypeOK, ServingType, AnswerType, thread
  <1>8. CASE Renewal
    <2>1. serving \in ServingType
      BY DEF TypeOK, ServingType
    <2>2. serving.now \in Times
      BY <2>1 DEF ServingType
    <2>3. PICK code \in Codes, id \in Times : Respond(code, id)
      BY <1>0, <1>8 DEF Renewal, Codes
    <2>4. /\ answer' \in AnswerType
          /\ serving' \in ServingType
          /\ requests' = requests
      BY <1>8, <2>3, RespondType DEF Renewal
    <2>5. /\ cache' \in [id : Times, lastModified : Times]
          /\ granted' = granted
          /\ renewed' \in [Times -> Times]
      BY <1>0, <1>8, <2>2 DEF Renewal, Cleared, TypeOK, lease
    <2> QED
      BY <1>8, <2>4, <2>5 DEF Renewal, TypeOK, ServingType, AnswerType, thread
  <1>9. ASSUME NEW c \in Callers, AppCall(c) PROVE TypeOK'
    <2>1. context[c] \in Times
      BY LeaseAssumption DEF TypeOK
    <2>2. app' \in AppType
      BY <1>9, <2>1 DEF AppCall, TypeOK, AppType
    <2> QED
      BY <1>9, <2>2
      DEF AppCall, TypeOK, AppType, lease, thread, network
  <1>10. ASSUME NEW c \in Callers, AppCheck(c) PROVE TypeOK'
    <2>1. app' \in AppType
      BY SMTT(40), <1>10 DEF AppCheck, TypeOK, AppType
    <2>2. cache' \in [id : Times, lastModified : Times]
      BY <1>0, <1>10 DEF AppCheck, Cleared, TypeOK
    <2> QED
      BY <1>10, <2>1, <2>2
      DEF AppCheck, TypeOK, AppType, thread, network
  <1> QED
    BY <1>1, <1>2, <1>3, <1>4, <1>5, <1>6, <1>7, <1>8, <1>9, <1>10 DEF Next

-----------------------------------------------------------------------------
(* The invariant, one action at a time.                                    *)

\* What the leaves below need to know of the types.
LEMMA Numbers ==
    ASSUME TypeOK
    PROVE  /\ clock \in Nat /\ clock \in Times
           /\ cache \in [id : Times, lastModified : Times]
           /\ cache.id \in Nat /\ cache.lastModified \in Nat
           /\ cache.id \in Times
           /\ serving.now \in Nat /\ serving.now \in Times
           /\ serving.lease \in Times
           /\ Busy => serving.from \in Clients
           /\ Term \in Nat /\ Term > 0
           /\ \A i \in Times : i \in Nat /\ renewed[i] \in Nat
           /\ \A c \in Clients : context[c] \in Times /\ c # None
           /\ \A c \in Callers : c \in Clients
  <1>1. /\ clock \in Times
        /\ cache \in [id : Times, lastModified : Times]
        /\ serving \in ServingType
        /\ renewed \in [Times -> Times]
        /\ context \in [Clients -> Times]
    BY DEF TypeOK, ServingType
  <1>2. \A i \in Times : i \in Nat
    BY DEF Times
  <1>3. /\ Term \in Nat /\ Term > 0 /\ None \notin Clients
        /\ Callers \subseteq Clients
    BY LeaseAssumption
  <1>4. /\ serving.now \in Times /\ serving.lease \in Times
        /\ Busy => serving.from \in Clients
    BY <1>1 DEF ServingType, Busy
  <1>5. /\ cache.id \in Times /\ cache.lastModified \in Times
    BY <1>1
  <1> QED
    BY <1>1, <1>2, <1>3, <1>4, <1>5

\* What the threads and their calls do leaves the server alone.
LEMMA ThreadStep ==
    ASSUME IInv, NEW c \in Clients,
           \/ Decide(c) \/ ApplyReturns(c) \/ RenewalReturns(c)
           \/ SendFails(c) \/ CallFails(c) \/ Awake(c)
    PROVE  /\ ClockInv' /\ GrantInv' /\ CacheInv' /\ LostOnlyByExpiry'
           /\ HolderWasGranted' /\ AnswerInv' /\ AppInv'
  <1>0. /\ answer \in AnswerType /\ context \in [Clients -> Times]
        /\ 0 \in Times
    <2>1. answer \in AnswerType /\ context \in [Clients -> Times]
      BY DEF IInv, TypeOK, AnswerType
    <2>2. 0 \in Times
      BY LeaseAssumption DEF Times
    <2> QED
      BY <2>1, <2>2
  <1>1. /\ clock' = clock /\ cache' = cache /\ granted' = granted
        /\ renewed' = renewed /\ serving' = serving
        /\ app' = app
    BY DEF Decide, ApplyReturns, RenewalReturns, SendFails, CallFails, Awake,
           lease
  <1>2. ClockInv' /\ GrantInv' /\ CacheInv'
    BY <1>1 DEF IInv, ClockInv, GrantInv, CacheInv, Busy
  <1>3. LostOnlyByExpiry' /\ AppInv'
    BY <1>1 DEF IInv, LostOnlyByExpiry, AppInv
  <1>4. \/ answer' = answer
        \/ answer' = [answer EXCEPT ![c] = NoAnswer]
    BY DEF Decide, Call, ApplyReturns, RenewalReturns, SendFails, CallFails,
           ThenSleep, Awake, network
  <1>5. AnswerInv'
    BY <1>0, <1>1, <1>4 DEF IInv, AnswerInv, AnswerType, NoAnswer
  <1>6. \/ context' = context
        \/ context' = [context EXCEPT ![c] = 0]
        \/ context' = [context EXCEPT ![c] = answer[c].lease]
    <2>1. CASE Decide(c) \/ SendFails(c) \/ CallFails(c) \/ Awake(c)
      BY <2>1 DEF Decide, SendFails, CallFails, Awake
    <2>2. CASE ApplyReturns(c)
      BY <2>2, <1>0 DEF ApplyReturns
    <2>3. CASE RenewalReturns(c)
      BY <2>3, <1>0 DEF RenewalReturns
    <2> QED
      BY <2>1, <2>2, <2>3
  <1>7. HolderWasGranted'
    <2> SUFFICES ASSUME NEW d \in Clients, context'[d] # 0
                 PROVE  d \in granted[context'[d]]
      BY <1>1 DEF HolderWasGranted
    <2>1. CASE context'[d] = context[d]
      BY <2>1 DEF IInv, HolderWasGranted
    <2>2. CASE context'[d] # context[d]
      <3>1. d = c /\ context'[d] = answer[c].lease
        BY <1>0, <1>6, <2>2
      <3> QED
        BY <3>1 DEF IInv, AnswerInv
    <2> QED
      BY <2>1, <2>2
  <1> QED
    BY <1>2, <1>3, <1>5, <1>7

\* Respond tells the requester of an id that is its own, or of none.
LEMMA RespondInv ==
    ASSUME TypeOK, AnswerInv, Busy, NEW code \in Codes, NEW id \in Times,
           Respond(code, id),
           id # 0 => serving.from \in granted'[id],
           \A i \in Times : granted[i] \subseteq granted'[i]
    PROVE  AnswerInv'
  <1>1. answer \in AnswerType
    BY DEF TypeOK, AnswerType
  <1> SUFFICES ASSUME NEW d \in Clients, answer'[d].lease # 0
               PROVE  d \in granted'[answer'[d].lease]
    BY DEF AnswerInv
  <1>2. CASE answer'[d] = answer[d]
    <2>1. answer[d].lease \in Times
      BY <1>1 DEF AnswerType
    <2>2. d \in granted[answer[d].lease]
      BY <1>2 DEF AnswerInv
    <2> QED
      BY <1>2, <2>1, <2>2
  <1>3. CASE answer'[d] # answer[d]
    <2>1. d = serving.from /\ answer'[d].lease = id
      BY <1>1, <1>3 DEF Respond, AnswerType
    <2> QED
      BY <2>1
  <1> QED
    BY <1>2, <1>3

\* After the handler's end there is no time it works with.
LEMMA RespondClock ==
    ASSUME TypeOK, ClockInv, Busy, clock' = clock,
           NEW code, NEW id, Respond(code, id)
    PROVE  ClockInv'
  <1>1. serving'.from = None
    BY DEF Respond, Idle
  <1> QED
    BY <1>1, Numbers DEF ClockInv, Busy

\* A lease had run out when the handler found no lease, or an expired one.
LEMMA ReplacedHasExpired ==
    ASSUME TypeOK, ClockInv, GrantInv, CacheInv, LostOnlyByExpiry, Busy,
           cache.id = 0 \/ Expired(serving.now),
           NEW i \in Times, granted[i] # {}
    PROVE  clock > renewed[i] + Term
  <1>1. CASE cache.id # i
    BY <1>1 DEF LostOnlyByExpiry
  <1>2. CASE cache.id = i
    <2>1. i # 0
      BY DEF GrantInv
    <2>2. serving.now > cache.lastModified + Term /\ serving.now <= clock
      BY <1>2, <2>1 DEF Expired, ClockInv
    <2>3. renewed[i] = cache.lastModified
      BY <1>2, <2>1 DEF CacheInv
    <2> QED
      BY <2>2, <2>3, Numbers
  <1> QED
    BY <1>1, <1>2

\* Apply: a new lease only when there was none, or an expired one.
LEMMA ApplyStep ==
    ASSUME IInv, Apply
    PROVE  /\ ClockInv' /\ GrantInv' /\ CacheInv' /\ LostOnlyByExpiry'
           /\ HolderWasGranted' /\ AnswerInv' /\ AppInv'
  <1>0. /\ TypeOK /\ ClockInv /\ GrantInv /\ CacheInv /\ LostOnlyByExpiry
        /\ HolderWasGranted /\ AnswerInv /\ AppInv
    BY DEF IInv
  <1>1. /\ Busy /\ clock' = clock /\ context' = context /\ app' = app
        /\ serving.from \in Clients /\ None \notin Clients
        /\ serving.now <= clock /\ clock >= 1
    BY <1>0, Numbers, LeaseAssumption DEF Apply, thread, ClockInv
  <1>2. /\ granted \in [Times -> SUBSET Clients]
        /\ renewed \in [Times -> Times] /\ 0 \in Times
    <2>1. /\ granted \in [Times -> SUBSET Clients]
          /\ renewed \in [Times -> Times]
      BY <1>0 DEF TypeOK
    <2>2. 0 \in Times
      BY LeaseAssumption DEF Times
    <2> QED
      BY <2>1, <2>2
  <1>3. CASE cache.id = 0 \/ Expired(serving.now)
    <2>1. /\ cache' = [id |-> clock, lastModified |-> serving.now]
          /\ granted' = [granted EXCEPT ![clock] = @ \union {serving.from}]
          /\ renewed' = [renewed EXCEPT ![clock] = serving.now]
          /\ Respond("ok", clock)
      BY <1>3 DEF Apply, Grant
    <2>2. /\ \A i \in Times : granted[i] \subseteq granted'[i]
          /\ \A i \in Times : i # clock =>
                 granted'[i] = granted[i] /\ renewed'[i] = renewed[i]
      BY <1>0, <1>2, <2>1, Numbers
    <2>3. serving.from \in granted'[clock] /\ renewed'[clock] = serving.now
      BY <1>0, <1>2, <2>1, Numbers
    <2>4. ClockInv'
      BY <1>0, <1>1, <2>1, RespondClock
    <2>5. GrantInv'
      <3> SUFFICES ASSUME NEW i \in Times, granted'[i] # {}
                   PROVE  1 <= i /\ i <= clock
        BY <1>1 DEF GrantInv
      <3>1. CASE i = clock
        BY <3>1, <1>0, <1>1, Numbers
      <3>2. CASE i # clock
        BY <1>0, <2>2, <3>2 DEF GrantInv
      <3> QED
        BY <3>1, <3>2
    <2>6. CacheInv'
      BY <1>1, <2>1, <2>3 DEF CacheInv
    <2>7. LostOnlyByExpiry'
      <3> SUFFICES ASSUME NEW i \in Times, granted'[i] # {}, clock # i
                   PROVE  clock > renewed'[i] + Term
        BY <1>1, <2>1 DEF LostOnlyByExpiry
      <3>1. granted[i] # {} /\ renewed'[i] = renewed[i]
        BY <2>2
      <3> QED
        BY <1>0, <1>1, <1>3, <3>1, ReplacedHasExpired
    <2>8. HolderWasGranted'
      BY <1>0, <1>1, <2>2, Numbers DEF HolderWasGranted
    <2>9. AnswerInv'
      <3>1. clock \in Times /\ "ok" \in Codes
        BY <1>0, Numbers DEF Codes
      <3> QED
        BY <1>0, <1>1, <2>1, <2>2, <2>3, <3>1, RespondInv
    <2>10. AppInv'
      <3> SUFFICES ASSUME NEW c \in Callers, app[c].lease # 0
                   PROVE  granted'[app[c].lease] # {}
        BY <1>1 DEF AppInv
      <3>1. granted[app[c].lease] # {}
        BY <1>0 DEF AppInv
      <3>2. app[c].lease \in Times
        BY <1>0 DEF TypeOK
      <3> QED
        BY <2>2, <3>1, <3>2
    <2> QED
      BY <2>4, <2>5, <2>6, <2>7, <2>8, <2>9, <2>10
  <1>4. CASE ~(cache.id = 0 \/ Expired(serving.now))
    <2>1. cache' = cache /\ granted' = granted /\ renewed' = renewed
          /\ Respond("exist", 0)
      BY <1>4 DEF Apply, lease
    <2>2. ClockInv'
      BY <1>0, <1>1, <2>1, RespondClock
    <2>3. GrantInv'
      BY <1>0, <1>1, <2>1 DEF GrantInv
    <2>4. CacheInv' /\ LostOnlyByExpiry' /\ HolderWasGranted' /\ AppInv'
      BY <1>0, <1>1, <2>1
      DEF CacheInv, LostOnlyByExpiry, HolderWasGranted, AppInv
    <2>5. AnswerInv'
      BY <1>0, <1>1, <1>2, <2>1, RespondInv DEF Codes
    <2> QED
      BY <2>2, <2>3, <2>4, <2>5
  <1> QED
    BY <1>3, <1>4

\* Renewal: the lease goes only when it has expired.
LEMMA RenewalStep ==
    ASSUME IInv, Renewal
    PROVE  /\ ClockInv' /\ GrantInv' /\ CacheInv' /\ LostOnlyByExpiry'
           /\ HolderWasGranted' /\ AnswerInv' /\ AppInv'
  <1>0. /\ TypeOK /\ ClockInv /\ GrantInv /\ CacheInv /\ LostOnlyByExpiry
        /\ HolderWasGranted /\ AnswerInv /\ AppInv
    BY DEF IInv
  <1>1. /\ Busy /\ clock' = clock /\ context' = context /\ app' = app
        /\ granted' = granted /\ serving.now <= clock
    BY <1>0 DEF Renewal, lease, thread, ClockInv
  <1>2. PICK code \in Codes : Respond(code, 0)
    BY DEF Renewal, Codes
  <1>3. 0 \in Times /\ renewed \in [Times -> Times]
    <2>1. 0 \in Times
      BY LeaseAssumption DEF Times
    <2> QED
      BY <1>0, <2>1 DEF TypeOK
  <1>4. ClockInv'
    BY <1>0, <1>1, <1>2, RespondClock
  <1>5. GrantInv'
    BY <1>0, <1>1 DEF GrantInv
  <1>6. HolderWasGranted'
    BY <1>0, <1>1 DEF HolderWasGranted
  <1>7. AnswerInv'
    BY <1>0, <1>1, <1>2, <1>3, RespondInv
  <1>8. CASE cache.id # serving.lease
    <2>1. cache' = cache /\ renewed' = renewed
      BY <1>8 DEF Renewal, lease
    <2>2. CacheInv' /\ LostOnlyByExpiry' /\ AppInv'
      BY <1>0, <1>1, <2>1 DEF CacheInv, LostOnlyByExpiry, AppInv
    <2> QED
      BY <1>4, <1>5, <1>6, <1>7, <2>2
  <1>9. CASE cache.id = serving.lease /\ Expired(serving.now)
    <2>1. cache'.id = 0 /\ renewed' = renewed
      BY <1>9 DEF Renewal, Cleared
    <2>2. CacheInv' /\ AppInv'
      BY <1>0, <1>1, <2>1 DEF CacheInv, AppInv
    <2>4. LostOnlyByExpiry'
      BY <1>0, <1>1, <1>9, <2>1, ReplacedHasExpired DEF LostOnlyByExpiry
    <2> QED
      BY <1>4, <1>5, <1>6, <1>7, <2>2, <2>4
  <1>10. CASE cache.id = serving.lease /\ ~Expired(serving.now)
    <2>1. /\ cache' = [cache EXCEPT !.lastModified = serving.now]
          /\ renewed' = [renewed EXCEPT ![cache.id] = serving.now]
      BY <1>10 DEF Renewal
    <2>2. cache'.id = cache.id /\ cache'.lastModified = serving.now
      BY <1>0, <2>1, Numbers
    <2>3. /\ renewed'[cache.id] = serving.now
          /\ \A i \in Times : i # cache.id => renewed'[i] = renewed[i]
      BY <1>0, <1>3, <2>1, Numbers
    <2>4. CacheInv'
      BY <1>0, <1>1, <2>2, <2>3 DEF CacheInv
    <2>5. AppInv'
      BY <1>0, <1>1, <2>2 DEF AppInv
    <2>6. LostOnlyByExpiry'
      BY <1>0, <1>1, <2>2, <2>3 DEF LostOnlyByExpiry
    <2> QED
      BY <1>4, <1>5, <1>6, <1>7, <2>4, <2>5, <2>6
  <1> QED
    BY <1>8, <1>9, <1>10

\* A request is taken, or the time goes on.
LEMMA TakeOrTickStep ==
    ASSUME IInv, Tick \/ \E q \in requests : Take(q)
    PROVE  /\ ClockInv' /\ GrantInv' /\ CacheInv' /\ LostOnlyByExpiry'
           /\ HolderWasGranted' /\ AnswerInv' /\ AppInv'
  <1>0. /\ TypeOK /\ ClockInv /\ GrantInv /\ CacheInv /\ LostOnlyByExpiry
        /\ HolderWasGranted /\ AnswerInv /\ AppInv
    BY DEF IInv
  <1>1. /\ cache' = cache /\ granted' = granted /\ renewed' = renewed
        /\ context' = context /\ answer' = answer
        /\ app' = app
        /\ clock' = clock \/ clock' = clock + 1
    BY DEF Tick, Take, lease, thread, network
  <1>2. ClockInv'
    <2>1. CASE Tick
      <3>1. clock' = clock + 1 /\ serving' = serving
        BY <2>1 DEF Tick
      <3> QED
        BY <1>0, <1>1, <3>1, Numbers DEF ClockInv, Busy
    <2>2. CASE \E q \in requests : Take(q)
      <3>1. clock' = clock /\ serving'.now = clock
        BY <2>2 DEF Take
      <3> QED
        BY <1>0, <1>1, <3>1, Numbers DEF ClockInv, Busy
    <2> QED
      BY <2>1, <2>2
  <1>3. GrantInv' /\ CacheInv' /\ HolderWasGranted' /\ AnswerInv' /\ AppInv'
    BY <1>0, <1>1, Numbers
    DEF GrantInv, CacheInv, HolderWasGranted, AnswerInv, AppInv
  <1>4. LostOnlyByExpiry'
    BY <1>0, <1>1, Numbers DEF LostOnlyByExpiry
  <1> QED
    BY <1>2, <1>3, <1>4

\* A leased call and its check: only an expired lease is cleared.
LEMMA AppStep ==
    ASSUME IInv, NEW c \in Callers, AppCall(c) \/ AppCheck(c)
    PROVE  /\ ClockInv' /\ GrantInv' /\ CacheInv' /\ LostOnlyByExpiry'
           /\ HolderWasGranted' /\ AnswerInv' /\ AppInv'
  <1>0. /\ TypeOK /\ ClockInv /\ GrantInv /\ CacheInv /\ LostOnlyByExpiry
        /\ HolderWasGranted /\ AnswerInv /\ AppInv
    BY DEF IInv
  <1>1. /\ clock' = clock /\ granted' = granted /\ renewed' = renewed
        /\ serving' = serving /\ context' = context
        /\ answer' = answer
    BY DEF AppCall, AppCheck, lease, thread, network
  <1>2. ClockInv' /\ GrantInv' /\ HolderWasGranted' /\ AnswerInv'
    BY <1>0, <1>1 DEF ClockInv, Busy, GrantInv, HolderWasGranted, AnswerInv
  <1>3. app \in AppType /\ c \in Clients /\ None \notin Clients
    BY <1>0, LeaseAssumption DEF TypeOK, AppType
  <1>4. CASE AppCall(c)
    <2>1. /\ cache' = cache
          /\ app' = [app EXCEPT ![c] = [lease |-> context[c],
                                        fate |-> "sent"]]
      BY <1>4 DEF AppCall, lease
    <2>2. CacheInv' /\ LostOnlyByExpiry'
      BY <1>0, <1>1, <2>1 DEF CacheInv, LostOnlyByExpiry
    <2>3. context[c] # 0 => granted[context[c]] # {}
      BY <1>0, <1>3 DEF HolderWasGranted
    <2>4. AppInv'
      <3> SUFFICES ASSUME NEW d \in Callers, app'[d].lease # 0
                   PROVE  granted[app'[d].lease] # {}
        BY <1>1 DEF AppInv
      <3>1. CASE d = c
        BY <1>3, <2>1, <2>3, <3>1 DEF AppType
      <3>2. CASE d # c
        <4>1. app'[d] = app[d]
          BY <1>3, <2>1, <3>2 DEF AppType
        <4> QED
          BY <1>0, <4>1 DEF AppInv
      <3> QED
        BY <3>1, <3>2
    <2> QED
      BY <1>2, <2>2, <2>4
  <1>5. CASE AppCheck(c) /\ (cache.id = 0 \/ ~Expired(clock))
    <2>1. /\ cache' = cache
          /\ app' = [app EXCEPT ![c].fate =
                        IF cache.id = app[c].lease THEN "admitted"
                        ELSE "denied"]
      BY <1>5 DEF AppCheck
    <2>2. CacheInv' /\ LostOnlyByExpiry'
      BY <1>0, <1>1, <2>1 DEF CacheInv, LostOnlyByExpiry
    <2>3. AppInv'
      <3> SUFFICES ASSUME NEW d \in Callers, app'[d].lease # 0
                   PROVE  granted[app'[d].lease] # {}
        BY <1>1 DEF AppInv
      <3>1. CASE d = c
        <4>1. app'[c].lease = app[c].lease
          BY <1>3, <2>1 DEF AppType
        <4> QED
          BY <1>0, <3>1, <4>1 DEF AppInv
      <3>2. CASE d # c
        <4>1. app'[d] = app[d]
          BY <1>3, <2>1, <3>2 DEF AppType
        <4> QED
          BY <1>0, <4>1 DEF AppInv
      <3> QED
        BY <3>1, <3>2
    <2> QED
      BY <1>2, <2>2, <2>3
  <1>6. CASE AppCheck(c) /\ ~(cache.id = 0 \/ ~Expired(clock))
    <2>1. /\ cache'.id = 0
          /\ app' = [app EXCEPT ![c].fate = "admitted"]
      BY <1>6 DEF AppCheck, Cleared
    <2>2. CacheInv'
      BY <2>1 DEF CacheInv
    <2>3. AppInv'
      <3> SUFFICES ASSUME NEW d \in Callers, app'[d].lease # 0
                   PROVE  granted[app'[d].lease] # {}
        BY <1>1, <2>1 DEF AppInv
      <3>1. app'[d].lease = app[d].lease
        BY <1>3, <2>1 DEF AppType
      <3> QED
        BY <1>0, <3>1 DEF AppInv
    <2>4. LostOnlyByExpiry'
      <3> SUFFICES ASSUME NEW i \in Times, granted[i] # {}
                   PROVE  clock > renewed[i] + Term
        BY <1>1 DEF LostOnlyByExpiry
      <3>1. CASE cache.id # i
        BY <1>0, <3>1 DEF LostOnlyByExpiry
      <3>2. CASE cache.id = i
        <4>1. renewed[i] = cache.lastModified
          BY <1>0, <1>6, <3>2 DEF CacheInv
        <4> QED
          BY <1>6, <4>1 DEF Expired
      <3> QED
        BY <3>1, <3>2
    <2> QED
      BY <1>2, <2>2, <2>3, <2>4
  <1> QED
    BY <1>4, <1>5, <1>6

\* The invariant is inductive.
LEMMA InvStep ==
    ASSUME IInv, [Next]_vars
    PROVE  IInv'
  <1>1. TypeOK'
    BY TypeStep DEF IInv
  <1>2. CASE UNCHANGED vars
    <2>1. ClockInv' /\ GrantInv' /\ CacheInv' /\ LostOnlyByExpiry'
      BY <1>2 DEF IInv, ClockInv, Busy, GrantInv, CacheInv, LostOnlyByExpiry,
                  vars, lease
    <2>2. HolderWasGranted' /\ AnswerInv' /\ AppInv'
      BY <1>2 DEF IInv, HolderWasGranted, AnswerInv, AppInv,
                  vars, lease, thread, network
    <2> QED
      BY <1>1, <2>1, <2>2 DEF IInv
  <1>3. ASSUME Next
        PROVE  /\ ClockInv' /\ GrantInv' /\ CacheInv' /\ LostOnlyByExpiry'
               /\ HolderWasGranted' /\ AnswerInv' /\ AppInv'
    BY <1>3, ThreadStep, ApplyStep, RenewalStep, TakeOrTickStep, AppStep
    DEF Next
  <1> QED
    BY <1>1, <1>2, <1>3 DEF IInv

\* Every behaviour of the leases keeps the invariant.
THEOREM Invariance == Spec => []IInv
  <1>1. Init => IInv
    BY InitInv
  <1>2. IInv /\ [Next]_vars => IInv'
    BY InvStep
  <1> QED
    BY <1>1, <1>2, PTL DEF Spec

-----------------------------------------------------------------------------
(* What the invariant says of the leases.                                  *)

\* Every variable keeps its type.
THEOREM TypeCorrect == Spec => []TypeOK
  BY Invariance, PTL DEF IInv

\* A client holds only what the server granted to it.
THEOREM HoldersAreGrantees == Spec => []HolderWasGranted
  BY Invariance, PTL DEF IInv

\* A lease goes only by running out.
THEOREM NoTakeover == Spec => []LostOnlyByExpiry
  BY Invariance, PTL DEF IInv

\* A leased call is denied only once its lease has run out: its id is not the
\* server's, and LostOnlyByExpiry says when that may be.
THEOREM DenialIsDue == Spec => DeniedOnlyAfterExpiry
  <1>1. IInv /\ [Next]_vars =>
            [\A c \in Callers :
                 /\ app[c].fate = "sent" /\ app'[c].fate = "denied"
                 /\ app[c].lease # 0
                 => clock > renewed[app[c].lease] + Term]_vars
    <2> SUFFICES ASSUME IInv, Next, NEW c \in Callers,
                        app[c].fate = "sent", app'[c].fate = "denied",
                        app[c].lease # 0
                 PROVE  clock > renewed[app[c].lease] + Term
      OBVIOUS
    <2>1. app \in AppType
      BY DEF IInv, TypeOK, AppType
    <2>2. PICK d \in Callers : AppCall(d) \/ AppCheck(d)
      BY DEF Next, Tick, Decide, ApplyReturns, RenewalReturns, SendFails,
             CallFails, Awake, Take, Apply, Renewal
    <2>3. d = c /\ AppCheck(c)
      BY <2>1, <2>2 DEF AppCall, AppCheck, AppType
    <2>4. cache.id # app[c].lease
      BY <2>1, <2>3 DEF AppCheck, AppType
    <2>5. app[c].lease \in Times /\ granted[app[c].lease] # {}
      BY <2>1 DEF IInv, AppInv, AppType
    <2> QED
      BY <2>4, <2>5 DEF IInv, LostOnlyByExpiry
  <1> QED
    BY <1>1, Invariance, PTL DEF Spec, DeniedOnlyAfterExpiry

\* An id goes to a second client only after the lease had run out, for that is
\* when the server makes a new one: not even two requests handled at one time
\* give two clients a lease that is good.
THEOREM FreshIds == Spec => IdsAreFresh
  <1>1. IInv /\ [Next]_vars =>
            [\A i \in Times : granted[i] # {} /\ granted'[i] # granted[i]
                                  => renewed[i] + Term < i]_vars
    <2> SUFFICES ASSUME IInv, Next, NEW i \in Times,
                        granted[i] # {}, granted'[i] # granted[i]
                 PROVE  renewed[i] + Term < i
      OBVIOUS
    <2>1. Apply
      BY DEF Next, Tick, Decide, ApplyReturns, RenewalReturns, SendFails,
             CallFails, Awake, AppCall, AppCheck, Take, Renewal, lease
    <2>2. cache.id = 0 \/ Expired(serving.now)
      BY <2>1 DEF Apply, lease
    <2>3. granted' = [granted EXCEPT ![clock] = @ \union {serving.from}]
      BY <2>1, <2>2 DEF Apply, Grant
    <2>4. granted \in [Times -> SUBSET Clients]
      BY DEF IInv, TypeOK
    <2>5. i = clock
      BY <2>3, <2>4
    <2>6. clock > renewed[i] + Term
      BY <2>1, <2>2, ReplacedHasExpired DEF IInv, Apply
    <2> QED
      BY <2>5, <2>6, Numbers DEF IInv
  <1> QED
    BY <1>1, Invariance, PTL DEF Spec, IdsAreFresh

-----------------------------------------------------------------------------
(* Requests and answers belong to calls.                                   *)

\* The request belongs to the call its client is in, or to an earlier one.
Matches(q, c) ==
    /\ q.at <= clock
    /\ pc[c] = "decide" => q.at < clock
    /\ pc[c] = "sleeping" => q.at < wake[c]
    /\ Calling(c) => q.at <= issued[c] /\ issued[c] <= clock
    /\ pc[c] = "renewing" /\ q.at = issued[c] =>
           q.api = "renewal" /\ q.lease = context[c]

\* So do all that are on their way, and the one being handled.
CallsInv ==
    /\ \A q \in requests : Matches(q, q.from)
    /\ Busy => Matches(serving, serving.from)

\* A client that is told its lease is gone has lost it; one that applies has
\* none to lose.
DenialInv ==
    \A c \in Clients :
        /\ pc[c] = "applying" => context[c] = 0
        /\ pc[c] = "renewing" /\ answer[c].code = "not_exist"
               => context[c] = 0 \/ cache.id # context[c]

\* A client that calls holds an id of an earlier time, for it slept since: the
\* server's new lease, whose id is the time now, is not the one it holds.
AgeInv ==
    \A c \in Clients : context[c] # 0 =>
        /\ pc[c] = "sleeping" => context[c] < wake[c]
        /\ pc[c] \in {"decide", "renewing"} => context[c] < clock

\* The inductive invariant for ResetOnlyWhenLost.
JInv == IInv /\ CallsInv /\ DenialInv /\ AgeInv

\* Nothing has been called at first.
LEMMA InitCalls == Init => CallsInv /\ DenialInv /\ AgeInv
  BY DEF Init, CallsInv, DenialInv, AgeInv, Busy, Idle

\* The types CallsInv and DenialInv are about.
LEMMA CallNumbers ==
    ASSUME TypeOK
    PROVE  /\ \A q \in requests : /\ q.from \in Clients /\ q.at \in Nat
                                  /\ q.lease \in Times
           /\ serving.at \in Nat
           /\ \A c \in Clients : issued[c] \in Nat /\ wake[c] \in Nat
           /\ pc \in PcType /\ issued \in [Clients -> Times]
           /\ wake \in [Clients -> Nat] /\ answer \in AnswerType
           /\ context \in [Clients -> Times]
  <1>1. /\ pc \in PcType /\ issued \in [Clients -> Times]
        /\ wake \in [Clients -> Nat] /\ answer \in AnswerType
        /\ context \in [Clients -> Times] /\ requests \subseteq Request
        /\ serving \in ServingType
    BY DEF TypeOK, PcType, AnswerType, ServingType
  <1>2. \A i \in Times : i \in Nat
    BY DEF Times
  <1>3. \A q \in requests : q.from \in Clients /\ q.at \in Times
                            /\ q.lease \in Times
    BY <1>1 DEF Request
  <1>4. serving.at \in Times
    BY <1>1 DEF ServingType
  <1> QED
    BY <1>1, <1>2, <1>3, <1>4

\* A request keeps its place in its client's calls.
LEMMA MatchKept ==
    ASSUME TypeOK, [Next]_vars,
           NEW c \in Clients, NEW q, q.at \in Nat, Matches(q, c)
    PROVE  Matches(q, c)'
  <1>0. /\ clock \in Nat /\ pc \in PcType
        /\ issued \in [Clients -> Times] /\ wake \in [Clients -> Nat]
        /\ issued[c] \in Nat /\ wake[c] \in Nat
        /\ context \in [Clients -> Times]
    BY Numbers, CallNumbers
  <1>1. ASSUME clock' = clock \/ clock' = clock + 1,
               pc'[c] = pc[c], issued'[c] = issued[c], wake'[c] = wake[c],
               context'[c] = context[c]
        PROVE  Matches(q, c)'
    BY <1>0, <1>1 DEF Matches, Calling
  <1>2. CASE UNCHANGED vars
    BY <1>1, <1>2 DEF vars, thread
  <1>3. CASE Tick \/ Apply \/ Renewal \/ (\E r \in requests : Take(r))
             \/ (\E d \in Callers : AppCall(d) \/ AppCheck(d))
    BY <1>1, <1>3 DEF Tick, Apply, Renewal, Take, AppCall, AppCheck, thread
  <1>4. ASSUME NEW d \in Clients, Decide(d) PROVE Matches(q, c)'
    <2>0. clock' = clock /\ wake' = wake /\ context' = context
          /\ issued' = [issued EXCEPT ![d] = clock]
          /\ \/ pc' = [pc EXCEPT ![d] = "renewing"]
             \/ pc' = [pc EXCEPT ![d] = "applying"]
      BY <1>4 DEF Decide, Call
    <2>1. CASE c # d
      <3>1. pc'[c] = pc[c] /\ issued'[c] = issued[c]
        BY <1>0, <2>0, <2>1 DEF PcType
      <3> QED
        BY <1>1, <2>0, <3>1
    <2>2. CASE c = d
      <3>1. q.at < clock
        BY <1>4, <2>2 DEF Decide, Matches
      <3>2. /\ issued'[c] = clock
            /\ pc'[c] = "renewing" \/ pc'[c] = "applying"
        BY <1>0, <2>0, <2>2 DEF PcType
      <3> QED
        BY <1>0, <2>0, <3>1, <3>2 DEF Matches, Calling
    <2> QED
      BY <2>1, <2>2
  <1>5. ASSUME NEW d \in Clients,
               \/ ApplyReturns(d) \/ RenewalReturns(d)
               \/ SendFails(d) \/ CallFails(d)
        PROVE  Matches(q, c)'
    <2>0. clock' = clock /\ ThenSleep(d)
      BY <1>5 DEF ApplyReturns, RenewalReturns, SendFails, CallFails
    <2>1. CASE c # d
      <3>1. /\ pc'[c] = pc[c] /\ issued'[c] = issued[c]
            /\ wake'[c] = wake[c]
        BY <1>0, <2>0, <2>1 DEF ThenSleep, PcType
      <3>2. context'[c] = context[c]
        BY <1>0, <1>5, <2>1
        DEF ApplyReturns, RenewalReturns, SendFails, CallFails
      <3> QED
        BY <1>1, <2>0, <3>1, <3>2
    <2>2. CASE c = d
      <3>1. q.at <= clock
        BY DEF Matches
      <3>2. context'[c] \in Times
        <4>1. 0 \in Times /\ answer[c].lease \in Times
          BY CallNumbers, LeaseAssumption DEF AnswerType, Times
        <4> QED
          BY <1>0, <1>5, <2>2, <4>1
          DEF ApplyReturns, RenewalReturns, SendFails, CallFails
      <3>3. wake'[c] > clock /\ wake' \in [Clients -> Nat]
        BY <2>0, <2>2, <3>2, SleepType
      <3>4. pc'[c] = "sleeping"
        BY <1>0, <2>0, <2>2 DEF ThenSleep, PcType
      <3> QED
        BY <1>0, <2>0, <3>1, <3>3, <3>4 DEF Matches, Calling
    <2> QED
      BY <2>1, <2>2
  <1>6. ASSUME NEW d \in Clients, Awake(d) PROVE Matches(q, c)'
    <2>0. /\ clock' = clock /\ issued' = issued /\ context' = context
          /\ pc[d] = "sleeping" /\ clock >= wake[d]
          /\ pc' = [pc EXCEPT ![d] = "decide"]
          /\ wake' = [wake EXCEPT ![d] = 0]
      BY <1>6 DEF Awake
    <2>1. CASE c # d
      <3>1. pc'[c] = pc[c] /\ wake'[c] = wake[c]
        BY <1>0, <2>0, <2>1 DEF PcType
      <3> QED
        BY <1>1, <2>0, <3>1
    <2>2. CASE c = d
      <3>1. q.at < clock
        BY <1>0, <2>0, <2>2 DEF Matches
      <3>2. pc'[c] = "decide"
        BY <1>0, <2>0, <2>2 DEF PcType
      <3> QED
        BY <1>0, <2>0, <3>1, <3>2 DEF Matches, Calling
    <2> QED
      BY <2>1, <2>2
  <1> QED
    BY <1>2, <1>3, <1>4, <1>5, <1>6 DEF Next

\* Only Decide makes a request, which matches the call it begins; a request
\* taken is the one handled, until the handling ends.
LEMMA CallsStep ==
    ASSUME TypeOK, CallsInv, [Next]_vars
    PROVE  CallsInv'
  <1>0. \A q \in requests : q.from \in Clients /\ q.at \in Nat
    BY CallNumbers
  <1>1. \A q \in requests : Matches(q, q.from)'
    BY <1>0, MatchKept DEF CallsInv
  <1>2. ASSUME requests' \subseteq requests, serving' = serving
        PROVE  CallsInv'
    <2>1. ASSUME NEW s, s = serving, Busy PROVE Matches(s, s.from)'
      <3>1. s.from \in Clients /\ s.at \in Nat /\ Matches(s, s.from)
        BY <2>1, Numbers, CallNumbers DEF CallsInv
      <3> QED
        BY <3>1, MatchKept
    <2>2. \A s : s = serving' /\ Busy' => Matches(s, s.from)'
      BY <1>2, <2>1 DEF Busy
    <2> QED
      BY <1>1, <1>2, <2>2 DEF CallsInv, Matches, Calling
  <1>3. CASE UNCHANGED vars
    BY <1>2, <1>3 DEF vars, network
  <1>4. CASE Tick \/ (\E d \in Callers : AppCall(d) \/ AppCheck(d))
    BY <1>2, <1>4 DEF Tick, AppCall, AppCheck, network
  <1>5. CASE \E d \in Clients : \/ ApplyReturns(d) \/ RenewalReturns(d)
                                \/ SendFails(d) \/ CallFails(d)
                                \/ Awake(d)
    BY <1>2, <1>5
    DEF ApplyReturns, RenewalReturns, SendFails, CallFails, Awake, network
  <1>6. CASE Apply \/ Renewal
    <2>1. requests' = requests /\ serving' = Idle
      BY <1>6 DEF Apply, Grant, Renewal, Respond
    <2> QED
      BY <1>1, <2>1 DEF CallsInv, Busy, Idle
  <1>7. ASSUME NEW r \in requests, Take(r) PROVE CallsInv'
    <2>1. /\ requests' \subseteq requests
          /\ serving'.from = r.from /\ serving'.at = r.at
          /\ serving'.api = r.api /\ serving'.lease = r.lease
      BY <1>7 DEF Take
    <2>2. Matches(r, r.from)'
      BY <1>1
    <2>3. Matches(serving, serving.from)'
      BY <2>1, <2>2 DEF Matches, Calling
    <2> QED
      BY <1>1, <2>1, <2>3 DEF CallsInv
  <1>8. ASSUME NEW d \in Clients, Decide(d) PROVE CallsInv'
    <2>1. serving' = serving /\ clock' = clock /\ context' = context
          /\ issued' = [issued EXCEPT ![d] = clock]
      BY <1>8 DEF Decide, Call
    <2>2. PICK api \in Apis, id \in Times :
              /\ Call(d, api, id)
              /\ pc' = [pc EXCEPT ![d] = IF api = "renewal" THEN "renewing"
                                         ELSE "applying"]
              /\ api = "renewal" => id = context[d]
      <3>1. 0 \in Times /\ context[d] \in Times
        BY LeaseAssumption, CallNumbers DEF Times
      <3> QED
        BY <1>8, <3>1 DEF Decide, Apis
    <2>3. PICK new :
              /\ new = [from |-> d, api |-> api, lease |-> id, at |-> clock]
              /\ requests' = requests \union {new}
      BY <2>2 DEF Call
    <2>4. Matches(new, new.from)'
      <3>1. /\ issued'[d] = clock
            /\ pc'[d] = IF api = "renewal" THEN "renewing" ELSE "applying"
        BY <2>1, <2>2, CallNumbers DEF PcType
      <3>2. clock \in Nat
        BY Numbers
      <3> QED
        BY <2>1, <2>2, <2>3, <3>1, <3>2 DEF Matches, Calling
    <2>5. Busy' => Matches(serving, serving.from)'
      <3>1. ASSUME NEW s, s = serving, Busy PROVE Matches(s, s.from)'
        <4>1. s.from \in Clients /\ s.at \in Nat /\ Matches(s, s.from)
          BY <3>1, Numbers, CallNumbers DEF CallsInv
        <4> QED
          BY <4>1, MatchKept
      <3> QED
        BY <2>1, <3>1 DEF Busy, Matches, Calling
    <2>6. \A q \in requests' : Matches(q, q.from)'
      BY <1>1, <2>3, <2>4
    <2> QED
      BY <2>5, <2>6 DEF CallsInv
  <1> QED
    BY <1>3, <1>4, <1>5, <1>6, <1>7, <1>8 DEF Next

\* A NOT_EXIST that a renewing client will see speaks of the id it holds, and
\* that id never comes back.
LEMMA DenialStep ==
    ASSUME JInv, [Next]_vars
    PROVE  DenialInv'
  <1>0. /\ TypeOK /\ ClockInv /\ GrantInv /\ HolderWasGranted
        /\ CallsInv /\ DenialInv
    BY DEF JInv, IInv
  <1>1. /\ pc \in PcType /\ answer \in AnswerType
        /\ context \in [Clients -> Times]
    BY <1>0, CallNumbers
  <1> SUFFICES ASSUME NEW c \in Clients
               PROVE  /\ pc'[c] = "applying" => context'[c] = 0
                      /\ pc'[c] = "renewing" /\ answer'[c].code = "not_exist"
                             => context'[c] = 0 \/ cache'.id # context'[c]
    BY DEF DenialInv
  <1>2. ASSUME pc'[c] = pc[c], answer'[c] = answer[c],
               context'[c] = context[c],
               cache'.id = cache.id \/ cache'.id = 0
        PROVE  /\ pc'[c] = "applying" => context'[c] = 0
               /\ pc'[c] = "renewing" /\ answer'[c].code = "not_exist"
                      => context'[c] = 0 \/ cache'.id # context'[c]
    BY <1>0, <1>2 DEF DenialInv
  <1>3. CASE UNCHANGED vars
    BY <1>2, <1>3 DEF vars, lease, thread, network
  <1>4. CASE Tick \/ (\E q \in requests : Take(q))
             \/ (\E d \in Callers : AppCall(d) \/ AppCheck(d))
    BY <1>2, <1>4
    DEF Tick, Take, AppCall, AppCheck, Cleared, lease, thread, network
  <1>5. ASSUME NEW d \in Clients, Decide(d)
        PROVE  /\ pc'[c] = "applying" => context'[c] = 0
               /\ pc'[c] = "renewing" /\ answer'[c].code = "not_exist"
                      => context'[c] = 0 \/ cache'.id # context'[c]
    <2>1. cache' = cache /\ context' = context
          /\ answer' = [answer EXCEPT ![d] = NoAnswer]
          /\ pc' = [pc EXCEPT ![d] = IF context[d] # 0 THEN "renewing"
                                     ELSE "applying"]
      BY <1>5 DEF Decide, Call, lease
    <2>2. CASE c # d
      BY <1>1, <1>2, <2>1, <2>2 DEF PcType, AnswerType
    <2>3. CASE c = d
      BY <1>1, <2>1, <2>3 DEF PcType, AnswerType, NoAnswer
    <2> QED
      BY <2>2, <2>3
  <1>6. ASSUME NEW d \in Clients,
               \/ ApplyReturns(d) \/ RenewalReturns(d)
               \/ SendFails(d) \/ CallFails(d)
        PROVE  /\ pc'[c] = "applying" => context'[c] = 0
               /\ pc'[c] = "renewing" /\ answer'[c].code = "not_exist"
                      => context'[c] = 0 \/ cache'.id # context'[c]
    <2>1. cache' = cache
          /\ answer' = [answer EXCEPT ![d] = NoAnswer]
          /\ pc' = [pc EXCEPT ![d] = "sleeping"]
      BY <1>6
      DEF ApplyReturns, RenewalReturns, SendFails, CallFails, ThenSleep, lease
    <2>2. CASE c # d
      <3>1. context'[c] = context[c]
        BY <1>1, <1>6, <2>2
        DEF ApplyReturns, RenewalReturns, SendFails, CallFails
      <3> QED
        BY <1>1, <1>2, <2>1, <2>2, <3>1 DEF PcType, AnswerType
    <2>3. CASE c = d
      BY <1>1, <2>1, <2>3 DEF PcType
    <2> QED
      BY <2>2, <2>3
  <1>7. ASSUME NEW d \in Clients, Awake(d)
        PROVE  /\ pc'[c] = "applying" => context'[c] = 0
               /\ pc'[c] = "renewing" /\ answer'[c].code = "not_exist"
                      => context'[c] = 0 \/ cache'.id # context'[c]
    <2>1. cache' = cache /\ answer' = answer /\ context' = context
          /\ pc' = [pc EXCEPT ![d] = "decide"]
      BY <1>7 DEF Awake, lease, network
    <2>2. CASE c # d
      BY <1>1, <1>2, <2>1, <2>2 DEF PcType
    <2>3. CASE c = d
      BY <1>1, <2>1, <2>3 DEF PcType
    <2> QED
      BY <2>2, <2>3
  <1>8. CASE Apply
    <2>1. pc' = pc /\ context' = context
      BY <1>8 DEF Apply, thread
    <2>2. answer'[c] = answer[c] \/ answer'[c].code # "not_exist"
      <3>1. PICK code \in {"ok", "exist"}, id \in Times :
                Respond(code, id)
        <4>1. 0 \in Times /\ clock \in Times
          BY <1>0, Numbers, LeaseAssumption DEF Times
        <4> QED
          BY <1>8, <4>1 DEF Apply, Grant
      <3> QED
        BY <1>1, <3>1 DEF Respond, AnswerType
    <2>3. \/ cache' = cache
          \/ cache'.id = clock
      BY <1>8 DEF Apply, Grant, lease
    <2>4. pc[c] = "renewing" /\ context[c] # 0 => context[c] # clock
      <3>1. pc[c] = "renewing" /\ context[c] # 0 => context[c] < clock
        BY DEF JInv, AgeInv
      <3>2. context[c] \in Nat /\ clock \in Nat
        BY <1>0, Numbers
      <3> QED
        BY <3>1, <3>2
    <2> QED
      BY <1>0, <2>1, <2>2, <2>3, <2>4 DEF DenialInv
  <1>9. CASE Renewal
    <2>1. pc' = pc /\ context' = context
      BY <1>9 DEF Renewal, thread
    <2>2. cache'.id = cache.id \/ cache'.id = 0
      <3>1. cache \in [id : Times, lastModified : Times]
        BY <1>0, Numbers
      <3> QED
        BY <1>9, <3>1 DEF Renewal, Cleared, lease
    <2>3. CASE answer'[c] = answer[c]
      BY <1>2, <2>1, <2>2, <2>3
    <2>4. CASE answer'[c] # answer[c] /\ answer'[c].code = "not_exist"
      <3>1. PICK code, id : Respond(code, id)
        BY <1>9 DEF Renewal
      <3>2. c = serving.from /\ issued[c] = serving.at
        BY <1>1, <2>4, <3>1 DEF Respond, AnswerType
      <3>3. pc[c] = "renewing" => serving.lease = context[c]
        BY <1>0, <1>9, <3>2 DEF CallsInv, Matches, Renewal
      <3>4. cache'.id = 0 \/ cache'.id # serving.lease
        <4>1. CASE cache.id # serving.lease
          BY <1>9, <4>1 DEF Renewal, lease
        <4>2. CASE cache.id = serving.lease /\ Expired(serving.now)
          BY <1>9, <4>2 DEF Renewal, Cleared
        <4>3. CASE cache.id = serving.lease /\ ~Expired(serving.now)
          <5>1. Respond("ok", 0)
            BY <1>9, <4>3 DEF Renewal
          <5>2. answer'[c].code = "ok"
            BY <1>1, <2>4, <5>1 DEF Respond, AnswerType
          <5> QED
            BY <2>4, <5>2
        <4> QED
          BY <4>1, <4>2, <4>3
      <3> QED
        BY <1>0, <2>1, <3>3, <3>4 DEF DenialInv
    <2> QED
      BY <1>0, <2>1, <2>3, <2>4 DEF DenialInv
  <1> QED
    BY <1>3, <1>4, <1>5, <1>6, <1>7, <1>8, <1>9 DEF Next

\* A lease is told of no earlier than it is granted, and then the client sleeps
\* before it calls again.
LEMMA AgeStep ==
    ASSUME JInv, [Next]_vars
    PROVE  AgeInv'
  <1>0. TypeOK /\ GrantInv /\ AnswerInv /\ DenialInv /\ AgeInv
    BY DEF JInv, IInv
  <1>1. /\ pc \in PcType /\ wake \in [Clients -> Nat]
        /\ answer \in AnswerType /\ context \in [Clients -> Times]
        /\ clock \in Nat /\ \A i \in Times : i \in Nat
    BY <1>0, CallNumbers, Numbers
  <1> SUFFICES ASSUME NEW c \in Clients, context'[c] # 0
               PROVE  /\ pc'[c] = "sleeping" => context'[c] < wake'[c]
                      /\ pc'[c] \in {"decide", "renewing"} =>
                             context'[c] < clock'
    BY DEF AgeInv
  <1>2. context[c] \in Nat /\ wake[c] \in Nat
    BY <1>1
  <1>3. ASSUME clock' = clock \/ clock' = clock + 1, pc'[c] = pc[c],
               wake'[c] = wake[c], context'[c] = context[c]
        PROVE  /\ pc'[c] = "sleeping" => context'[c] < wake'[c]
               /\ pc'[c] \in {"decide", "renewing"} => context'[c] < clock'
    BY <1>0, <1>1, <1>2, <1>3 DEF AgeInv
  <1>4. CASE UNCHANGED vars
    BY <1>3, <1>4 DEF vars, thread
  <1>5. CASE Tick \/ Apply \/ Renewal \/ (\E q \in requests : Take(q))
             \/ (\E d \in Callers : AppCall(d) \/ AppCheck(d))
    BY <1>3, <1>5 DEF Tick, Apply, Renewal, Take, AppCall, AppCheck, thread
  <1>6. ASSUME NEW d \in Clients, Decide(d)
        PROVE  /\ pc'[c] = "sleeping" => context'[c] < wake'[c]
               /\ pc'[c] \in {"decide", "renewing"} => context'[c] < clock'
    <2>1. /\ clock' = clock /\ wake' = wake /\ context' = context
          /\ pc[d] = "decide"
          /\ \/ pc' = [pc EXCEPT ![d] = "renewing"]
             \/ pc' = [pc EXCEPT ![d] = "applying"]
      BY <1>6 DEF Decide
    <2> QED
      BY <1>0, <1>1, <2>1 DEF AgeInv, PcType
  <1>7. ASSUME NEW d \in Clients, Awake(d)
        PROVE  /\ pc'[c] = "sleeping" => context'[c] < wake'[c]
               /\ pc'[c] \in {"decide", "renewing"} => context'[c] < clock'
    <2>1. /\ clock' = clock /\ context' = context
          /\ pc[d] = "sleeping" /\ clock >= wake[d]
          /\ pc' = [pc EXCEPT ![d] = "decide"]
          /\ wake' = [wake EXCEPT ![d] = 0]
      BY <1>7 DEF Awake
    <2>2. CASE c # d
      <3>1. pc'[c] = pc[c] /\ wake'[c] = wake[c]
        BY <1>1, <2>1, <2>2 DEF PcType
      <3> QED
        BY <1>3, <2>1, <3>1
    <2>3. CASE c = d
      <3>1. pc'[c] = "decide" /\ context[c] < wake[c]
        BY <1>0, <1>1, <2>1, <2>3 DEF AgeInv, PcType
      <3> QED
        BY <1>2, <1>1, <2>1, <2>3, <3>1
    <2> QED
      BY <2>2, <2>3
  <1>8. ASSUME NEW d \in Clients,
               \/ ApplyReturns(d) \/ RenewalReturns(d)
               \/ SendFails(d) \/ CallFails(d)
        PROVE  /\ pc'[c] = "sleeping" => context'[c] < wake'[c]
               /\ pc'[c] \in {"decide", "renewing"} => context'[c] < clock'
    <2>1. clock' = clock /\ ThenSleep(d)
      BY <1>8 DEF ApplyReturns, RenewalReturns, SendFails, CallFails
    <2>2. CASE c # d
      <3>1. pc'[c] = pc[c] /\ wake'[c] = wake[c]
        BY <1>1, <2>1, <2>2 DEF ThenSleep, PcType
      <3>2. context'[c] = context[c]
        BY <1>1, <1>8, <2>2
        DEF ApplyReturns, RenewalReturns, SendFails, CallFails
      <3> QED
        BY <1>3, <2>1, <3>1, <3>2
    <2>3. CASE c = d
      <3>1. context'[c] \in Times /\ context'[c] <= clock
        <4>1. CASE ApplyReturns(c)
          <5>1. context[c] = 0
            BY <1>0, <4>1 DEF ApplyReturns, DenialInv
          <5>2. context'[c] = answer[c].lease
            BY <1>1, <4>1, <5>1 DEF ApplyReturns
          <5>3. answer[c].lease \in Times /\ answer[c].lease # 0
            BY <1>1, <5>2 DEF AnswerType
          <5> QED
            BY <1>0, <5>2, <5>3 DEF AnswerInv, GrantInv
        <4>2. CASE ~ApplyReturns(c)
          <5>1. context'[c] = context[c]
            BY <1>1, <1>8, <2>3, <4>2
            DEF RenewalReturns, SendFails, CallFails
          <5>2. context[c] \in Times /\ c \in granted[context[c]]
            BY <1>1, <5>1 DEF JInv, IInv, HolderWasGranted
          <5> QED
            BY <1>0, <5>1, <5>2 DEF GrantInv
        <4> QED
          BY <4>1, <4>2
      <3>2. wake'[c] > clock /\ wake' \in [Clients -> Nat]
        BY <1>0, <2>1, <2>3, <3>1, SleepType
      <3>3. pc'[c] = "sleeping"
        BY <1>1, <2>1, <2>3 DEF ThenSleep, PcType
      <3> QED
        BY <1>1, <3>1, <3>2, <3>3
    <2> QED
      BY <2>2, <2>3
  <1> QED
    BY <1>4, <1>5, <1>6, <1>7, <1>8 DEF Next

\* Every behaviour keeps requests and answers with their calls.
THEOREM CallInvariance == Spec => []JInv
  <1>1. Init => JInv
    BY InitInv, InitCalls DEF JInv
  <1>2. JInv /\ [Next]_vars => JInv'
    <2> SUFFICES ASSUME JInv, [Next]_vars PROVE JInv'
      OBVIOUS
    <2>1. IInv'
      BY InvStep DEF JInv
    <2>2. CallsInv'
      BY CallsStep DEF JInv, IInv
    <2> QED
      BY <2>1, <2>2, DenialStep, AgeStep DEF JInv
  <1> QED
    BY <1>1, <1>2, PTL DEF Spec

\* A client gives up an id only when the server has: the answer that makes it
\* do so is about the id it still holds, however many calls went before.
THEOREM ResetIsDue == Spec => ResetOnlyWhenLost
  <1>1. JInv /\ [Next]_vars =>
            [\A c \in Clients : context[c] # 0 /\ context'[c] # context[c]
                                    => cache.id # context[c]]_vars
    <2> SUFFICES ASSUME JInv, Next, NEW c \in Clients,
                        context[c] # 0, context'[c] # context[c]
                 PROVE  cache.id # context[c]
      OBVIOUS
    <2>1. context \in [Clients -> Times]
      BY DEF JInv, IInv, TypeOK
    <2>2. PICK d \in Clients : ApplyReturns(d) \/ RenewalReturns(d)
      BY DEF Next, Tick, Decide, SendFails, CallFails, Awake, AppCall,
             AppCheck, Take, Apply, Renewal, thread
    <2>3. c = d
      BY <2>1, <2>2 DEF ApplyReturns, RenewalReturns
    <2>4. CASE ApplyReturns(c)
      BY <2>4 DEF ApplyReturns, JInv, DenialInv
    <2>5. CASE RenewalReturns(c)
      <3>1. pc[c] = "renewing" /\ answer[c].code = "not_exist"
        BY <2>1, <2>5 DEF RenewalReturns
      <3> QED
        BY <3>1 DEF JInv, DenialInv
    <2> QED
      BY <2>2, <2>3, <2>4, <2>5
  <1> QED
    BY <1>1, CallInvariance, PTL DEF Spec, ResetOnlyWhenLost

-----------------------------------------------------------------------------
(* When nothing is lost and nobody dawdles.                                *)

\* Every message in time, and a term that leaves room for three of them.
Enough == Timely /\ Term >= WaitSec(Term) + 3 * Delay

\* A request or an answer is of the call its client is in.
Current(q, c) ==
    /\ Calling(c) /\ answer[c].code = "none" /\ q.at = issued[c]
    /\ q.api = "renewal" => pc[c] = "renewing"
    /\ q.api = "apply" => pc[c] = "applying"

\* Calls are not given up, so a client has one request on its way or in the
\* handler, or none.
OneRequestInv ==
    /\ \A q \in requests : Current(q, q.from)
    /\ \A q, r \in requests : q.from = r.from => q = r
    /\ Busy => /\ Current(serving, serving.from)
               /\ serving.at <= serving.now
               /\ \A q \in requests : q.from # serving.from

\* A client is no later than time waits for.
Late(c) ==
    /\ pc[c] = "sleeping" => clock <= wake[c]
    /\ Calling(c) /\ answer[c].code = "none" => clock <= issued[c] + Delay
    /\ Calling(c) /\ answer[c].code # "none" =>
           /\ answer[c].at <= issued[c] + Delay
           /\ clock <= answer[c].at + Delay

\* The next renewal of a lease is asked for so long after the last at most.
Between == WaitSec(Term) + 2 * Delay

\* A holder's id is the server's, and was renewed not too long ago.
Held(c) == context[c] # 0 =>
    /\ cache.id = context[c]
    /\ pc[c] = "decide" => clock <= cache.lastModified + Between
    /\ pc[c] = "sleeping" => wake[c] <= cache.lastModified + Between
    /\ pc[c] = "renewing" /\ answer[c].code = "none" =>
           issued[c] <= cache.lastModified + Between
    /\ pc[c] = "renewing" /\ answer[c].code # "none" =>
           answer[c].code = "ok" /\ issued[c] <= cache.lastModified

\* A client about to be told of a lease of its own.
AboutToHold(c) == pc[c] = "applying" /\ answer[c].code = "ok"

\* The id that it is told is the server's too.
Told(c) == AboutToHold(c) =>
    /\ cache.id = answer[c].lease /\ cache.id # 0
    /\ issued[c] <= cache.lastModified

Holds(c) == context[c] # 0 \/ AboutToHold(c)

\* One client at a time holds a lease.
OneHolderInv == \A c, d \in Clients : Holds(c) /\ Holds(d) => c = d

TimelyInv ==
    /\ OneRequestInv
    /\ OneHolderInv
    /\ \A c \in Clients : Late(c) /\ Held(c) /\ Told(c)

\* The inductive invariant for TimelyHolderKeepsLease.
KInv == JInv /\ TimelyInv

\* Nothing has been asked for at first.
LEMMA InitTimely == Init => TimelyInv
  <1> SUFFICES ASSUME Init PROVE TimelyInv
    OBVIOUS
  <1>1. OneRequestInv
    BY DEF Init, OneRequestInv, Busy, Idle
  <1>2. \A c \in Clients : Late(c) /\ Held(c) /\ Told(c)
    BY DEF Init, Late, Held, Told, AboutToHold, Calling
  <1>3. OneHolderInv
    BY DEF Init, OneHolderInv, Holds, AboutToHold
  <1> QED
    BY <1>1, <1>2, <1>3 DEF TimelyInv

\* The numbers that the bounds below are about.
LEMMA TimelyNumbers ==
    ASSUME KInv
    PROVE  /\ clock \in Nat /\ cache.id \in Nat /\ cache.lastModified \in Nat
           /\ serving.now \in Nat /\ serving.at \in Nat
           /\ Delay \in Nat /\ Term \in Nat
           /\ WaitSec(Term) \in Nat /\ Between \in Nat
           /\ \A c \in Clients :
                  /\ issued[c] \in Nat /\ wake[c] \in Nat
                  /\ answer[c].at \in Nat /\ answer[c].lease \in Times
                  /\ answer[c].code \in Codes /\ context[c] \in Times
           /\ Busy => serving.now <= clock /\ serving.from \in Clients
  <1>1. TypeOK /\ ClockInv
    BY DEF KInv, JInv, IInv
  <1>2. Delay \in Nat /\ Term \in Nat /\ Term \in Nat \ {0}
    BY LeaseAssumption
  <1>3. WaitSec(Term) \in Nat
    BY <1>2, SleepIsPositive
  <1>4. Between \in Nat
    BY <1>2, <1>3 DEF Between
  <1>5. \A c \in Clients : /\ answer[c].at \in Nat
                           /\ answer[c].lease \in Times
                           /\ answer[c].code \in Codes
    <2>1. answer \in AnswerType /\ \A i \in Times : i \in Nat
      BY <1>1, CallNumbers DEF Times
    <2> QED
      BY <2>1 DEF AnswerType
  <1>6. /\ clock \in Nat /\ cache.id \in Nat /\ cache.lastModified \in Nat
        /\ serving.now \in Nat /\ (Busy => serving.from \in Clients)
        /\ \A c \in Clients : context[c] \in Times
    BY <1>1, Numbers
  <1>7. serving.at \in Nat
        /\ \A c \in Clients : issued[c] \in Nat /\ wake[c] \in Nat
    BY <1>1, CallNumbers
  <1>8. Busy => serving.now <= clock
    BY <1>1 DEF ClockInv
  <1> QED
    BY <1>2, <1>3, <1>4, <1>5, <1>6, <1>7, <1>8

\* A lease that somebody holds or is about to hold has not run out.
LEMMA NotRunOut ==
    ASSUME KInv, Enough, NEW c \in Clients, Holds(c)
    PROVE  /\ cache.id # 0
           /\ ~Expired(clock) /\ (Busy => ~Expired(serving.now))
  <1>0. Late(c) /\ Held(c) /\ Told(c)
    BY DEF KInv, TimelyInv
  <1>1. pc[c] \in {"decide", "applying", "renewing", "sleeping"}
        /\ (pc[c] = "applying" => context[c] = 0)
    BY DEF KInv, JInv, IInv, TypeOK, DenialInv
  <1>2. cache.id # 0
    BY <1>0 DEF Holds, Held, Told
  <1>3. clock <= cache.lastModified + Between + Delay
    <2>1. CASE pc[c] = "decide"
      BY <1>0, <2>1, TimelyNumbers DEF Held, Holds, AboutToHold
    <2>2. CASE pc[c] = "sleeping"
      BY <1>0, <2>2, TimelyNumbers DEF Held, Late, Holds, AboutToHold
    <2>3. CASE Calling(c) /\ answer[c].code = "none"
      BY <1>0, <1>1, <2>3, TimelyNumbers
      DEF Held, Late, Holds, AboutToHold, Calling
    <2>4. CASE Calling(c) /\ answer[c].code # "none"
      <3>1. issued[c] <= cache.lastModified
        BY <1>0, <1>1, <2>4 DEF Held, Told, Holds, AboutToHold, Calling
      <3>2. clock <= issued[c] + Delay + Delay
        BY <1>0, <2>4, TimelyNumbers DEF Late
      <3> QED
        BY <3>1, <3>2, TimelyNumbers DEF Between
    <2> QED
      BY <1>1, <2>1, <2>2, <2>3, <2>4 DEF Calling
  <1>4. clock <= cache.lastModified + Term
    BY <1>3, TimelyNumbers DEF Enough, Between
  <1> QED
    BY <1>2, <1>4, TimelyNumbers DEF Expired

\* So nobody clears it, and nobody but the client itself touches it.
LEMMA LeaseStays ==
    ASSUME KInv, Enough, Next, NEW c \in Clients, Holds(c),
           ~(Renewal /\ serving.from = c)
    PROVE  cache' = cache
  <1>1. /\ cache.id # 0
        /\ ~Expired(clock) /\ (Busy => ~Expired(serving.now))
    BY NotRunOut
  <1>2. CASE Apply
    BY <1>1, <1>2 DEF Apply, lease
  <1>3. CASE Renewal
    <2>1. serving.from \in Clients
      BY <1>3, TimelyNumbers DEF Renewal
    <2>2. serving.lease = context[serving.from]
      BY <1>3 DEF Renewal, KInv, JInv, CallsInv, Matches,
                  TimelyInv, OneRequestInv, Current
    <2>3. serving.lease = 0
      BY <1>3, <2>1, <2>2 DEF KInv, TimelyInv, OneHolderInv, Holds
    <2>4. cache.id # serving.lease
      BY <1>1, <2>3
    <2> QED
      BY <1>3, <2>4 DEF Renewal, lease
  <1>4. CASE \E d \in Callers : AppCheck(d)
    BY <1>1, <1>4 DEF AppCheck
  <1>5. CASE ~Apply /\ ~Renewal /\ ~(\E d \in Callers : AppCheck(d))
    BY <1>5 DEF Next, Tick, Decide, ApplyReturns, RenewalReturns, SendFails,
                CallFails, Awake, AppCall, Take, lease
  <1> QED
    BY <1>2, <1>3, <1>4, <1>5

\* What a client is in does not change by what others do.
LEMMA OthersLeaveAlone ==
    ASSUME KInv, Enough, Next, NEW c \in Clients,
           clock' = clock, pc'[c] = pc[c], issued'[c] = issued[c],
           wake'[c] = wake[c], answer'[c] = answer[c],
           context'[c] = context[c],
           ~(Renewal /\ serving.from = c)
    PROVE  Late(c)' /\ Held(c)' /\ Told(c)'
  <1>0. Late(c) /\ Held(c) /\ Told(c)
    BY DEF KInv, TimelyInv
  <1>1. Late(c)'
    BY <1>0 DEF Late, Calling
  <1>2. Held(c)'
    BY <1>0, LeaseStays DEF Held, Holds
  <1>3. Told(c)'
    BY <1>0, LeaseStays DEF Told, Holds, AboutToHold
  <1> QED
    BY <1>1, <1>2, <1>3

\* A request stays of its client's call while that client does nothing.
LEMMA CurrentKept ==
    ASSUME NEW q, NEW c, Current(q, c), pc'[c] = pc[c],
           issued'[c] = issued[c], answer'[c] = answer[c]
    PROVE  Current(q, c)'
  BY DEF Current, Calling

\* One request at a time: a client asks when it has nothing on its way, and
\* goes on when it has its answer.
LEMMA OneRequestStep ==
    ASSUME KInv, Enough, Next
    PROVE  OneRequestInv'
  <1>0. /\ pc \in PcType /\ answer \in AnswerType
        /\ issued \in [Clients -> Times]
        /\ \A q \in requests : q.from \in Clients
        /\ Busy => serving.from \in Clients
    BY CallNumbers, TimelyNumbers DEF KInv, JInv, IInv
  <1>i. OneRequestInv
    BY DEF KInv, TimelyInv
  <1>1. CASE Tick \/ (\E d \in Callers : AppCall(d) \/ AppCheck(d))
    <2>1. /\ requests' = requests /\ serving' = serving
          /\ pc' = pc /\ issued' = issued /\ answer' = answer
      BY <1>1 DEF Tick, AppCall, AppCheck, thread, network
    <2> QED
      BY <1>i, <2>1 DEF OneRequestInv, Current, Calling, Busy
  <1>2. ASSUME NEW d \in Clients,
               requests' = requests, serving' = serving,
               \A q \in requests : q.from # d, Busy => serving.from # d,
               \A c \in Clients \ {d} : /\ pc'[c] = pc[c]
                                        /\ issued'[c] = issued[c]
                                        /\ answer'[c] = answer[c]
        PROVE  OneRequestInv'
    <2>1. \A q \in requests : Current(q, q.from)'
      BY <1>0, <1>i, <1>2, CurrentKept DEF OneRequestInv
    <2>2. Busy => Current(serving, serving.from)'
      BY <1>0, <1>i, <1>2 DEF OneRequestInv, Current, Calling
    <2> QED
      BY <1>i, <1>2, <2>1, <2>2 DEF OneRequestInv, Current, Calling, Busy
  <1>3. ASSUME NEW d \in Clients, Decide(d) PROVE OneRequestInv'
    <2>1. /\ issued' = [issued EXCEPT ![d] = clock]
          /\ answer' = [answer EXCEPT ![d] = NoAnswer]
          /\ serving' = serving
      BY <1>3 DEF Decide, Call
    <2>2. PICK new :
              /\ requests' = requests \union {new}
              /\ new.from = d /\ new.at = clock
              /\ \/ new.api = "renewal"
                    /\ pc' = [pc EXCEPT ![d] = "renewing"]
                 \/ new.api = "apply"
                    /\ pc' = [pc EXCEPT ![d] = "applying"]
      <3>1. PICK api \in Apis, id \in Times :
                /\ Call(d, api, id)
                /\ \/ api = "renewal" /\ pc' = [pc EXCEPT ![d] = "renewing"]
                   \/ api = "apply" /\ pc' = [pc EXCEPT ![d] = "applying"]
        <4>1. 0 \in Times /\ context[d] \in Times
          BY TimelyNumbers, LeaseAssumption DEF Times
        <4> QED
          BY <1>3, <4>1 DEF Decide, Apis
      <3>2. PICK q : q = [from |-> d, api |-> api, lease |-> id, at |-> clock]
        OBVIOUS
      <3>3. q.from = d /\ q.at = clock /\ q.api = api
        BY <3>2
      <3>4. requests' = requests \union {q}
        BY <3>1, <3>2 DEF Call
      <3> QED
        BY <3>1, <3>3, <3>4
    <2>3. (\A q \in requests : q.from # d) /\ (Busy => serving.from # d)
      BY <1>i, <1>3 DEF Decide, OneRequestInv, Current, Calling
    <2>4. \A c \in Clients \ {d} : /\ pc'[c] = pc[c]
                                   /\ issued'[c] = issued[c]
                                   /\ answer'[c] = answer[c]
      BY <1>0, <2>1, <2>2 DEF PcType, AnswerType
    <2>5. Current(new, new.from)'
      BY <1>0, <2>1, <2>2 DEF Current, Calling, NoAnswer, PcType, AnswerType
    <2>6. \A q \in requests : Current(q, q.from)'
      BY <1>0, <1>i, <2>3, <2>4, CurrentKept DEF OneRequestInv
    <2>7. Busy => Current(serving, serving.from)'
      BY <1>0, <1>i, <2>1, <2>3, <2>4 DEF OneRequestInv, Current, Calling
    <2>8. \A q \in requests' : Current(q, q.from)'
      BY <2>2, <2>5, <2>6
    <2>9. \A q, r \in requests' : q.from = r.from => q = r
      BY <1>i, <2>2, <2>3 DEF OneRequestInv
    <2>10. Busy' => \A q \in requests' : q.from # serving'.from
      BY <1>i, <2>1, <2>2, <2>3 DEF OneRequestInv, Busy
    <2>11. Busy' => serving'.at <= serving'.now
      BY <1>i, <2>1 DEF OneRequestInv, Busy
    <2> QED
      BY <2>1, <2>7, <2>8, <2>9, <2>10, <2>11
      DEF OneRequestInv, Busy, Current, Calling
  <1>4. ASSUME NEW d \in Clients,
               ApplyReturns(d) \/ RenewalReturns(d) \/ Awake(d)
        PROVE  OneRequestInv'
    <2>1. requests' = requests /\ serving' = serving
      BY <1>4 DEF ApplyReturns, RenewalReturns, Awake, network
    <2>2. (\A q \in requests : q.from # d) /\ (Busy => serving.from # d)
      BY <1>i, <1>4 DEF ApplyReturns, RenewalReturns, Awake, OneRequestInv,
                        Current, Calling
    <2>3. \A c \in Clients \ {d} : /\ pc'[c] = pc[c]
                                   /\ issued'[c] = issued[c]
                                   /\ answer'[c] = answer[c]
      BY <1>0, <1>4 DEF ApplyReturns, RenewalReturns, Awake, ThenSleep,
                        network, PcType, AnswerType
    <2> QED
      BY <1>2, <2>1, <2>2, <2>3
  <1>5. ASSUME NEW d \in Clients, SendFails(d) \/ CallFails(d) PROVE FALSE
    BY <1>5 DEF SendFails, CallFails, Enough
  <1>6. ASSUME NEW r \in requests, Take(r) PROVE OneRequestInv'
    <2>1. /\ requests' = requests \ {r}
          /\ serving'.from = r.from /\ serving'.at = r.at
          /\ serving'.api = r.api /\ serving'.now = clock
          /\ pc' = pc /\ issued' = issued /\ answer' = answer
      BY <1>6 DEF Take, thread
    <2>2. r.at <= clock
      BY DEF KInv, JInv, CallsInv, Matches
    <2>3. Current(serving, serving.from)'
      BY <1>i, <2>1 DEF OneRequestInv, Current, Calling
    <2>4. \A q \in requests' : q.from # serving'.from
      BY <1>i, <2>1 DEF OneRequestInv
    <2>5. \A q \in requests' : Current(q, q.from)'
      BY <1>i, <2>1 DEF OneRequestInv, Current, Calling
    <2> QED
      BY <1>i, <2>1, <2>2, <2>3, <2>4, <2>5 DEF OneRequestInv
  <1>7. CASE Apply \/ Renewal
    <2>1. PICK code, id : Respond(code, id)
      BY <1>7 DEF Apply, Grant, Renewal
    <2>2. /\ requests' = requests /\ serving' = Idle /\ Busy
          /\ pc' = pc /\ issued' = issued
      BY <1>7, <2>1 DEF Apply, Renewal, Respond, thread
    <2>3. \A c \in Clients : c # serving.from => answer'[c] = answer[c]
      BY <1>0, <2>1 DEF Respond, AnswerType
    <2>4. \A q \in requests : Current(q, q.from)'
      BY <1>0, <1>i, <2>2, <2>3, CurrentKept DEF OneRequestInv
    <2> QED
      BY <1>i, <2>2, <2>4 DEF OneRequestInv, Busy, Idle, Current, Calling
  <1> QED
    BY <1>1, <1>3, <1>4, <1>5, <1>6, <1>7 DEF Next

\* A tick comes only when nobody is due.
LEMMA TickTimely ==
    ASSUME KInv, Enough, Tick, NEW c \in Clients
    PROVE  Late(c)' /\ Held(c)' /\ Told(c)'
  <1>0. Late(c) /\ Held(c) /\ Told(c)
    BY DEF KInv, TimelyInv
  <1>1. /\ clock' = clock + 1 /\ cache' = cache /\ pc' = pc /\ wake' = wake
        /\ issued' = issued /\ answer' = answer /\ context' = context
    BY DEF Tick, lease, thread, network
  <1>2. /\ pc[c] # "decide"
        /\ pc[c] = "sleeping" => clock < wake[c]
        /\ Calling(c) /\ answer[c].code = "none" => clock < issued[c] + Delay
        /\ Calling(c) /\ answer[c].code # "none" =>
               clock < answer[c].at + Delay
    BY DEF Tick, MayTick, Enough
  <1>3. Late(c)'
    BY <1>0, <1>1, <1>2, TimelyNumbers DEF Late, Calling
  <1>4. Held(c)'
    BY <1>0, <1>1, <1>2 DEF Held
  <1>5. Told(c)'
    BY <1>0, <1>1 DEF Told, AboutToHold
  <1> QED
    BY <1>3, <1>4, <1>5

\* A call begins when the sleep is over and ends when its answer has come.
LEMMA ThreadTimely ==
    ASSUME KInv, Enough, NEW c \in Clients,
           \/ Decide(c) \/ ApplyReturns(c) \/ RenewalReturns(c) \/ Awake(c)
    PROVE  Late(c)' /\ Held(c)' /\ Told(c)'
  <1>0. Late(c) /\ Held(c) /\ Told(c)
    BY DEF KInv, TimelyInv
  <1>t. /\ pc \in PcType /\ answer \in AnswerType
        /\ issued \in [Clients -> Times] /\ wake \in [Clients -> Nat]
        /\ context \in [Clients -> Times]
    BY CallNumbers DEF KInv, JInv, IInv
  <1>1. CASE Decide(c)
    <2>1. /\ pc[c] = "decide" /\ clock' = clock /\ cache' = cache
          /\ context' = context /\ issued'[c] = clock
          /\ answer'[c].code = "none"
          /\ pc'[c] = IF context[c] # 0 THEN "renewing" ELSE "applying"
      BY <1>1, <1>t DEF Decide, Call, lease, NoAnswer, PcType, AnswerType
    <2>2. Late(c)'
      BY <2>1, TimelyNumbers DEF Late, Calling
    <2>3. Held(c)'
      BY <1>0, <2>1 DEF Held
    <2>4. Told(c)'
      BY <2>1 DEF Told, AboutToHold
    <2> QED
      BY <2>2, <2>3, <2>4
  <1>2. CASE Awake(c)
    <2>1. /\ pc[c] = "sleeping" /\ clock' = clock /\ cache' = cache
          /\ context' = context /\ pc'[c] = "decide"
      BY <1>2, <1>t DEF Awake, lease, PcType
    <2>2. Late(c)' /\ Told(c)'
      BY <2>1 DEF Late, Calling, Told, AboutToHold
    <2>3. Held(c)'
      BY <1>0, <2>1, TimelyNumbers DEF Held, Late
    <2> QED
      BY <2>2, <2>3
  <1>3. CASE ApplyReturns(c) \/ RenewalReturns(c)
    <2>1. /\ clock' = clock /\ cache' = cache /\ Calling(c)
          /\ answer[c].code # "none" /\ ThenSleep(c)
      BY <1>3 DEF ApplyReturns, RenewalReturns, lease, Calling
    <2>2. /\ pc'[c] = "sleeping"
          /\ wake'[c] = clock + WaitSec(TermOf(context'[c]))
      BY <1>t, <2>1 DEF ThenSleep, PcType
    <2>3. context'[c] \in Times
      <3>1. 0 \in Times /\ answer[c].lease \in Times
        BY TimelyNumbers, LeaseAssumption DEF Times
      <3> QED
        BY <1>3, <1>t, <3>1 DEF ApplyReturns, RenewalReturns
    <2>4. WaitSec(TermOf(context'[c])) \in Nat
      BY <2>3, TermIsPositive, SleepIsPositive DEF Times
    <2>5. Late(c)' /\ Told(c)'
      BY <2>1, <2>2, <2>4, TimelyNumbers DEF Late, Calling, Told, AboutToHold
    <2>6. ASSUME context'[c] # 0
          PROVE  /\ cache.id = context'[c]
                 /\ issued[c] <= cache.lastModified
      <3>1. CASE ApplyReturns(c)
        <4>1. context[c] = 0
          BY <3>1 DEF ApplyReturns, KInv, JInv, DenialInv
        <4>2. AboutToHold(c) /\ context'[c] = answer[c].lease
          BY <1>t, <2>6, <3>1, <4>1 DEF ApplyReturns, AboutToHold
        <4> QED
          BY <1>0, <4>2 DEF Told
      <3>2. CASE RenewalReturns(c)
        BY <1>0, <1>t, <2>6, <3>2 DEF RenewalReturns, Held
      <3> QED
        BY <1>3, <3>1, <3>2
    <2>7. ASSUME context'[c] # 0
          PROVE  wake'[c] <= cache.lastModified + Between
      <3>1. clock <= issued[c] + Delay + Delay
        BY <1>0, <2>1, TimelyNumbers DEF Late
      <3>2. wake'[c] = clock + WaitSec(Term)
        BY <2>2, <2>7 DEF TermOf
      <3> QED
        BY <2>6, <2>7, <3>1, <3>2, TimelyNumbers DEF Between
    <2>8. Held(c)'
      BY <2>1, <2>2, <2>6, <2>7 DEF Held
    <2> QED
      BY <2>5, <2>8
  <1> QED
    BY <1>1, <1>2, <1>3

\* An answer leaves when the request was not late, and its renewal is not
\* older than the call.
LEMMA AnswerTimely ==
    ASSUME KInv, Enough, Apply \/ Renewal, NEW c \in Clients,
           serving.from = c
    PROVE  Late(c)' /\ Held(c)' /\ Told(c)'
  <1>0. Late(c) /\ Held(c) /\ Told(c)
    BY DEF KInv, TimelyInv
  <1>t. answer \in AnswerType
    BY CallNumbers DEF KInv, JInv, IInv
  <1>1. /\ Busy /\ clock' = clock /\ pc' = pc /\ issued' = issued
        /\ context' = context
    BY DEF Apply, Renewal, thread
  <1>2. Current(serving, c) /\ serving.at <= serving.now
    BY <1>1 DEF KInv, TimelyInv, OneRequestInv
  <1>3. /\ Calling(c) /\ answer[c].code = "none" /\ serving.at = issued[c]
        /\ serving.api = "renewal" => pc[c] = "renewing"
        /\ serving.api = "apply" => pc[c] = "applying"
    BY <1>2 DEF Current
  <1>5. clock <= issued[c] + Delay
    BY <1>0, <1>3 DEF Late
  <1>6. answer'[c].at = clock /\ answer'[c].code # "none"
    <2>1. PICK code \in {"ok", "exist", "not_exist"}, id \in {0, clock} :
              Respond(code, id)
      BY DEF Apply, Grant, Renewal
    <2> QED
      BY <1>3, <1>t, <2>1 DEF Respond, AnswerType
  <1>7. Late(c)'
    BY <1>1, <1>3, <1>5, <1>6, TimelyNumbers DEF Late, Calling
  <1>8. CASE Apply
    <2>1. pc[c] = "applying" /\ context[c] = 0
      BY <1>3, <1>8 DEF Apply, KInv, JInv, DenialInv
    <2>2. Held(c)'
      BY <1>1, <2>1 DEF Held
    <2>3. ASSUME answer'[c].code = "ok"
          PROVE  /\ answer'[c].lease = clock
                 /\ cache' = [id |-> clock, lastModified |-> serving.now]
      <3>1. CASE cache.id = 0 \/ Expired(serving.now)
        <4>1. /\ Respond("ok", clock)
              /\ cache' = [id |-> clock, lastModified |-> serving.now]
          BY <1>8, <3>1 DEF Apply, Grant
        <4> QED
          BY <1>3, <1>t, <4>1 DEF Respond, AnswerType
      <3>2. CASE ~(cache.id = 0 \/ Expired(serving.now))
        <4>1. Respond("exist", 0)
          BY <1>8, <3>2 DEF Apply
        <4>2. answer'[c].code = "exist"
          BY <1>3, <1>t, <4>1 DEF Respond, AnswerType
        <4> QED
          BY <2>3, <4>2
      <3> QED
        BY <3>1, <3>2
    <2>4. clock # 0
      BY TimelyNumbers DEF KInv, JInv, IInv, ClockInv
    <2>5. Told(c)'
      BY <1>1, <1>2, <1>3, <2>3, <2>4 DEF Told, AboutToHold
    <2> QED
      BY <1>7, <2>2, <2>5
  <1>9. CASE Renewal
    <2>1. pc[c] = "renewing"
      BY <1>3, <1>9 DEF Renewal
    <2>2. Told(c)'
      BY <1>1, <2>1 DEF Told, AboutToHold
    <2>3. serving.lease = context[c]
      BY <1>1, <1>3, <2>1 DEF KInv, JInv, CallsInv, Matches
    <2>4. ASSUME context[c] # 0
          PROVE  /\ answer'[c].code = "ok"
                 /\ cache'.id = context[c]
                 /\ cache'.lastModified = serving.now
      <3>1. cache.id = serving.lease /\ ~Expired(serving.now)
        BY <1>0, <1>1, <2>3, <2>4, NotRunOut DEF Held, Holds
      <3>2. /\ Respond("ok", 0)
            /\ cache' = [cache EXCEPT !.lastModified = serving.now]
        BY <1>9, <3>1 DEF Renewal
      <3>3. cache \in [id : Times, lastModified : Times]
        BY Numbers DEF KInv, JInv, IInv
      <3>4. answer'[c].code = "ok"
        BY <1>3, <1>t, <3>2 DEF Respond, AnswerType
      <3>5. cache'.id = cache.id /\ cache'.lastModified = serving.now
        BY <3>2, <3>3
      <3> QED
        BY <2>3, <3>1, <3>4, <3>5
    <2>5. Held(c)'
      BY <1>1, <1>2, <1>3, <2>1, <2>4 DEF Held
    <2> QED
      BY <1>7, <2>2, <2>5
  <1> QED
    BY <1>8, <1>9

\* A client comes to hold a lease when it is granted one, and then nobody did.
LEMMA OneHolderStep ==
    ASSUME KInv, Enough, Next
    PROVE  OneHolderInv'
  <1>0. /\ pc \in PcType /\ answer \in AnswerType
        /\ context \in [Clients -> Times]
        /\ Busy => serving.from \in Clients
    BY CallNumbers, TimelyNumbers DEF KInv, JInv, IInv
  <1>i. OneHolderInv
    BY DEF KInv, TimelyInv
  <1>1. ASSUME \A c \in Clients : Holds(c)' => Holds(c)
        PROVE  OneHolderInv'
    BY <1>i, <1>1 DEF OneHolderInv
  <1>2. CASE Tick \/ (\E q \in requests : Take(q))
             \/ (\E d \in Callers : AppCall(d) \/ AppCheck(d))
    <2>1. pc' = pc /\ answer' = answer /\ context' = context
      BY <1>2 DEF Tick, Take, AppCall, AppCheck, thread, network
    <2> QED
      BY <1>1, <2>1 DEF Holds, AboutToHold
  <1>3. ASSUME NEW d \in Clients,
               \/ Decide(d) \/ ApplyReturns(d) \/ RenewalReturns(d)
               \/ Awake(d)
        PROVE  OneHolderInv'
    <2>1. \A c \in Clients \ {d} : /\ pc'[c] = pc[c]
                                   /\ answer'[c] = answer[c]
                                   /\ context'[c] = context[c]
      BY <1>0, <1>3
      DEF Decide, Call, ApplyReturns, RenewalReturns, Awake, ThenSleep,
          network, PcType, AnswerType
    <2>2. ~AboutToHold(d)'
      BY <1>0, <1>3
      DEF Decide, Call, ApplyReturns, RenewalReturns, Awake, ThenSleep,
          NoAnswer, AboutToHold, PcType, AnswerType
    <2>3. context'[d] # 0 => Holds(d)
      BY <1>0, <1>3
      DEF Decide, ApplyReturns, RenewalReturns, Awake, Holds, AboutToHold
    <2>4. \A c \in Clients : Holds(c)' => Holds(c)
      BY <2>1, <2>2, <2>3 DEF Holds, AboutToHold
    <2> QED
      BY <1>1, <2>4
  <1>4. ASSUME NEW d \in Clients, SendFails(d) \/ CallFails(d) PROVE FALSE
    BY <1>4 DEF SendFails, CallFails, Enough
  <1>5. CASE Apply \/ Renewal
    <2>1. pc' = pc /\ context' = context /\ Busy
      BY <1>5 DEF Apply, Renewal, thread
    <2>2. PICK code, id : Respond(code, id)
      BY <1>5 DEF Apply, Grant, Renewal
    <2>3. \A c \in Clients : c # serving.from => answer'[c] = answer[c]
      BY <1>0, <2>2 DEF Respond, AnswerType
    <2>4. CASE \A c \in Clients : ~Holds(c)
      BY <2>1, <2>3, <2>4 DEF OneHolderInv, Holds, AboutToHold
    <2>5. ASSUME NEW c \in Clients, Holds(c) PROVE OneHolderInv'
      <3>1. cache.id # 0 /\ ~Expired(serving.now)
        BY <2>1, <2>5, NotRunOut
      <3>2. CASE Apply
        <4>1. Respond("exist", 0)
          BY <3>1, <3>2 DEF Apply
        <4>2. \A d \in Clients : AboutToHold(d)' => AboutToHold(d)
          BY <1>0, <2>1, <4>1 DEF Respond, AboutToHold, AnswerType
        <4> QED
          BY <1>1, <2>1, <4>2 DEF Holds
      <3>3. CASE Renewal
        <4>1. pc[serving.from] # "applying"
          BY <3>3 DEF Renewal, KInv, TimelyInv, OneRequestInv, Current
        <4>2. \A d \in Clients : AboutToHold(d)' => AboutToHold(d)
          BY <2>1, <2>3, <4>1 DEF AboutToHold
        <4> QED
          BY <1>1, <2>1, <4>2 DEF Holds
      <3> QED
        BY <1>5, <3>2, <3>3
    <2> QED
      BY <2>4, <2>5
  <1> QED
    BY <1>2, <1>3, <1>4, <1>5 DEF Next

\* Every step keeps every client in time and its lease with it.
LEMMA TimelyStep ==
    ASSUME KInv, Enough, Next
    PROVE  TimelyInv'
  <1>0. /\ pc \in PcType /\ answer \in AnswerType
        /\ issued \in [Clients -> Times] /\ wake \in [Clients -> Nat]
        /\ context \in [Clients -> Times]
    BY CallNumbers DEF KInv, JInv, IInv
  <1>1. ASSUME NEW c \in Clients PROVE Late(c)' /\ Held(c)' /\ Told(c)'
    <2>1. CASE Tick
      BY <2>1, TickTimely
    <2>2. CASE (\E q \in requests : Take(q))
               \/ (\E d \in Callers : AppCall(d) \/ AppCheck(d))
      <3>1. /\ clock' = clock /\ pc' = pc /\ issued' = issued /\ wake' = wake
            /\ answer' = answer /\ context' = context
        BY <2>2 DEF Take, AppCall, AppCheck, thread, network
      <3>2. ~Renewal
        <4>1. CASE \E q \in requests : Take(q)
          BY <4>1 DEF Take, Renewal
        <4>2. CASE \E d \in Callers : AppCall(d) \/ AppCheck(d)
          <5>1. serving' = serving
            BY <4>2 DEF AppCall, AppCheck
          <5> QED
            BY <5>1 DEF Renewal, Respond, Busy, Idle
        <4> QED
          BY <2>2, <4>1, <4>2
      <3> QED
        BY <3>1, <3>2, OthersLeaveAlone
    <2>3. ASSUME NEW d \in Clients,
                 \/ Decide(d) \/ ApplyReturns(d) \/ RenewalReturns(d)
                 \/ Awake(d)
          PROVE  Late(c)' /\ Held(c)' /\ Told(c)'
      <3>1. CASE c = d
        BY <2>3, <3>1, ThreadTimely
      <3>2. CASE c # d
        <4>1. clock' = clock /\ pc'[c] = pc[c] /\ issued'[c] = issued[c]
              /\ wake'[c] = wake[c]
          BY <1>0, <2>3, <3>2
          DEF Decide, Call, ApplyReturns, RenewalReturns, Awake, ThenSleep,
              PcType
        <4>2. answer'[c] = answer[c] /\ context'[c] = context[c]
          BY <1>0, <2>3, <3>2
          DEF Decide, Call, ApplyReturns, RenewalReturns, Awake, ThenSleep,
              network, AnswerType
        <4>3. ~Renewal
          <5>1. pc'[d] # pc[d]
            BY <1>0, <2>3
            DEF Decide, ApplyReturns, RenewalReturns, Awake, ThenSleep, PcType
          <5> QED
            BY <5>1 DEF Renewal, thread
        <4> QED
          BY <4>1, <4>2, <4>3, OthersLeaveAlone
      <3> QED
        BY <3>1, <3>2
    <2>4. CASE Apply \/ Renewal
      <3>1. CASE serving.from = c
        BY <2>4, <3>1, AnswerTimely
      <3>2. CASE serving.from # c
        <4>1. clock' = clock /\ pc' = pc /\ issued' = issued /\ wake' = wake
              /\ context' = context
          BY <2>4 DEF Apply, Renewal, thread
        <4>2. PICK code, id : Respond(code, id)
          BY <2>4 DEF Apply, Grant, Renewal
        <4>3. answer'[c] = answer[c]
          BY <1>0, <3>2, <4>2 DEF Respond, AnswerType
        <4> QED
          BY <3>2, <4>1, <4>3, OthersLeaveAlone
      <3> QED
        BY <3>1, <3>2
    <2>5. ~(\E d \in Clients : SendFails(d) \/ CallFails(d))
      BY DEF SendFails, CallFails, Enough
    <2> QED
      BY <2>1, <2>2, <2>3, <2>4, <2>5 DEF Next
  <1> QED
    BY <1>1, OneRequestStep, OneHolderStep DEF TimelyInv

\* While nothing is lost and nobody dawdles a holder keeps its lease, if the
\* term leaves room for a sleep, the request, its answer and the next request.
THEOREM HolderKeeps ==
    ASSUME Term >= WaitSec(Term) + 3 * Delay
    PROVE  Spec => []TimelyHolderKeepsLease
  <1>1. Init /\ Timely => KInv
    BY InitInv, InitCalls, InitTimely DEF JInv, KInv
  <1>2. Timely /\ KInv /\ [Next]_vars => KInv'
    <2> SUFFICES ASSUME Timely, KInv, [Next]_vars PROVE KInv'
      OBVIOUS
    <2>1. JInv'
      BY InvStep, CallsStep, DenialStep, AgeStep DEF KInv, JInv, IInv
    <2>2. CASE Next
      BY <2>1, <2>2, TimelyStep DEF KInv, Enough
    <2>3. CASE UNCHANGED vars
      <3>1. /\ clock' = clock /\ cache' = cache /\ serving' = serving
            /\ pc' = pc /\ issued' = issued /\ wake' = wake
            /\ context' = context /\ requests' = requests /\ answer' = answer
        BY <2>3 DEF vars, lease, thread, network
      <3>2. OneRequestInv'
        BY <3>1 DEF KInv, TimelyInv, OneRequestInv, Current, Calling, Busy
      <3>3. \A c \in Clients : Late(c)' /\ Held(c)' /\ Told(c)'
        BY <3>1 DEF KInv, TimelyInv, Late, Held, Told, AboutToHold, Calling
      <3>4. OneHolderInv'
        BY <3>1 DEF KInv, TimelyInv, OneHolderInv, Holds, AboutToHold
      <3> QED
        BY <2>1, <3>2, <3>3, <3>4 DEF KInv, TimelyInv
    <2> QED
      BY <2>2, <2>3
  <1>3. Timely /\ KInv => TimelyHolderKeepsLease
    BY NotRunOut
    DEF Enough, TimelyHolderKeepsLease, KInv, TimelyInv, Held, Holds
  <1>4. ~Timely => TimelyHolderKeepsLease
    BY DEF TimelyHolderKeepsLease
  <1>5. CASE Timely
    <2>1. Init => KInv
      BY <1>1, <1>5
    <2>2. KInv /\ [Next]_vars => KInv'
      BY <1>2, <1>5
    <2>3. KInv => TimelyHolderKeepsLease
      BY <1>3, <1>5
    <2> QED
      BY <2>1, <2>2, <2>3, PTL DEF Spec
  <1>6. CASE ~Timely
    <2>1. TimelyHolderKeepsLease
      BY <1>4, <1>6
    <2> QED
      BY <2>1, PTL DEF Spec
  <1> QED
    BY <1>5, <1>6
=============================================================================

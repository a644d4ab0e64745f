------------------------------- MODULE Lease -------------------------------
(***************************************************************************)
(* Leases: the threads of LeaseClient, one per client process, against a   *)
(* LeaseServer and the leased calls it admits.                             *)
(*                                                                         *)
(* The calls are taken at the contract of RpcAbstract: a request runs at   *)
(* most once and possibly after its caller has given up; an answer reaches *)
(* the call it belongs to.  What is lost is what is never taken.           *)
(* time.time_ns() is a clock in ticks.                                     *)
(***************************************************************************)
EXTENDS Integers

CONSTANTS Clients,
          Callers,     \* those of them that make leased calls
          Term,        \* the server's term (StartLease)
          DefaultTerm, \* RPC_LEASE_TERM, the client's term before it has one
          CallTimeout, \* time limit of the client's calls
          MaxTime,     \* bound: the clock stops here
          Timely,      \* nothing is lost, nobody dawdles (see MayTick)
          Delay,       \* how long a request or an answer takes when Timely
          None

ASSUME LeaseAssumption ==
    /\ Term \in Nat \ {0} /\ DefaultTerm \in Nat \ {0}
    /\ CallTimeout \in Nat /\ MaxTime \in Nat \ {0} /\ Delay \in Nat
    /\ Timely \in BOOLEAN
    /\ Callers \subseteq Clients
    /\ None \notin Clients

VARIABLES
    clock,
    cache,     \* LeaseCache: the current lease's id (0: none), lastModified
    serving,   \* request in the LeaseServer's handler, and when it came
    context,   \* per client: LeaseContext.id
    pc,        \* per client: where its lease thread is
    issued,    \* per client: when its call began, which identifies it (0: none)
    wake,      \* per client: when its sleep ends (0: awake)
    requests,  \* requests on their way
    answer,    \* per client: answer to the current call on its way
    app,       \* per client: lease id of a leased call, and its fate
    granted,   \* history: to whom an id was granted
    renewed    \* history: when an id was last granted or renewed

lease   == <<cache, granted, renewed>>
thread  == <<context, pc, issued, wake>>
network == <<requests, answer>>
vars    == <<clock, lease, serving, thread, network, app>>

Times   == 0..MaxTime
Apis    == {"apply", "renewal"}
Codes   == {"none", "ok", "exist", "not_exist"}
Request == [from : Clients, api : Apis, lease : Times, at : Times]

Idle     == [from |-> None, api |-> "none", lease |-> 0, at |-> 0, now |-> 0]
NoAnswer == [code |-> "none", lease |-> 0, at |-> 0]
NoCall   == [lease |-> 0, fate |-> "none"]

-----------------------------------------------------------------------------
(* Faulty variants of the operators below.  No specification uses them.    *)

WaitWholeTerm(term) == term
ExpiredOnTime(now) == now >= cache.lastModified + Term

-----------------------------------------------------------------------------
\* The client sleeps 0.3 of its term, counted in whole ticks.
WaitSec(term) == (3 * term + 9) \div 10
TermOf(id) == IF id # 0 THEN Term ELSE DefaultTerm

Expired(now) == now > cache.lastModified + Term

\* LeaseCache.Clear.
Cleared == [id |-> 0, lastModified |-> 0]

TypeOK ==
    /\ clock \in Times
    /\ cache \in [id : Times, lastModified : Times]
    /\ serving \in [from : Clients \union {None}, api : Apis \union {"none"},
                   lease : Times, at : Times, now : Times]
    /\ context \in [Clients -> Times]
    /\ pc \in [Clients -> {"decide", "applying", "renewing", "sleeping"}]
    /\ issued \in [Clients -> Times]
    /\ wake \in [Clients -> Nat]
    /\ requests \subseteq Request
    /\ answer \in [Clients -> [code : Codes, lease : Times, at : Times]]
    /\ app \in [Callers -> [lease : Times,
                            fate : {"none", "sent", "admitted", "denied"}]]
    /\ granted \in [Times -> SUBSET Clients]
    /\ renewed \in [Times -> Times]

Init ==
    /\ clock = 1
    /\ cache = [id |-> 0, lastModified |-> 0]
    /\ serving = Idle
    /\ context = [c \in Clients |-> 0]
    /\ pc = [c \in Clients |-> "decide"]
    /\ issued = [c \in Clients |-> 0]
    /\ wake = [c \in Clients |-> 0]
    /\ requests = {}
    /\ answer = [c \in Clients |-> NoAnswer]
    /\ app = [c \in Callers |-> NoCall]
    /\ granted = [i \in Times |-> {}]
    /\ renewed = [i \in Times |-> 0]

Busy == serving.from # None
Calling(c) == pc[c] \in {"applying", "renewing"}

-----------------------------------------------------------------------------
(* Time.                                                                   *)

\* When Timely, time waits for whoever is due: a thread between two waits, a
\* sleeper whose time is over, a request and its answer after Delay each.
MayTick ==
    /\ clock < MaxTime
    /\ Timely =>
        \A c \in Clients :
            /\ pc[c] # "decide"
            /\ pc[c] = "sleeping" => clock < wake[c]
            /\ (Calling(c) /\ answer[c].code = "none") =>
                   clock < issued[c] + Delay
            /\ (Calling(c) /\ answer[c].code # "none") =>
                   clock < answer[c].at + Delay

Tick == /\ MayTick
        /\ clock' = clock + 1
        /\ UNCHANGED <<lease, serving, thread, network, app>>

-----------------------------------------------------------------------------
(* LeaseClient.__ThreadFunc.                                               *)

Call(c, api, id) ==
    /\ issued' = [issued EXCEPT ![c] = clock]
    /\ answer' = [answer EXCEPT ![c] = NoAnswer]
    /\ requests' = requests \union
                   {[from |-> c, api |-> api, lease |-> id, at |-> clock]}

\* A valid context is renewed, an invalid one is applied for.
Decide(c) ==
    /\ pc[c] = "decide"
    /\ IF context[c] # 0
       THEN /\ Call(c, "renewal", context[c])
            /\ pc' = [pc EXCEPT ![c] = "renewing"]
       ELSE /\ Call(c, "apply", 0)
            /\ pc' = [pc EXCEPT ![c] = "applying"]
    /\ UNCHANGED <<clock, lease, serving, context, wake, app>>

\* After the call the thread sleeps 0.3 of the term its context has by then.
ThenSleep(c) ==
    /\ pc' = [pc EXCEPT ![c] = "sleeping"]
    /\ wake' = [wake EXCEPT ![c] = clock + WaitSec(TermOf(context'[c]))]
    /\ issued' = [issued EXCEPT ![c] = 0]
    /\ answer' = [answer EXCEPT ![c] = NoAnswer]

\* __Apply: the lease is taken over on success, any error is retried later.
ApplyReturns(c) ==
    /\ pc[c] = "applying"
    /\ answer[c].code # "none"
    /\ context' = [context EXCEPT ![c] =
                      IF answer[c].code = "ok" THEN answer[c].lease ELSE @]
    /\ ThenSleep(c)
    /\ UNCHANGED <<clock, lease, serving, requests, app>>

\* __Renewal: only NOT_EXIST resets the context.
RenewalReturns(c) ==
    /\ pc[c] = "renewing"
    /\ answer[c].code # "none"
    /\ context' = [context EXCEPT ![c] =
                      IF answer[c].code = "not_exist" THEN 0 ELSE @]
    /\ ThenSleep(c)
    /\ UNCHANGED <<clock, lease, serving, requests, app>>

\* Faulty variant of CallFails, which no specification uses: any error makes
\* the client give its lease up.
CallFailsResets(c) ==
    /\ Calling(c)
    /\ ~Timely
    /\ clock >= issued[c] + CallTimeout
    /\ context' = [context EXCEPT ![c] = 0]
    /\ ThenSleep(c)
    /\ UNCHANGED <<clock, lease, serving, requests, app>>

\* The request could not be written, in time or at all: the call returns, and
\* the context stays as it is.
SendFails(c) ==
    /\ pc[c] = "decide"
    /\ ~Timely
    /\ UNCHANGED context
    /\ ThenSleep(c)
    /\ UNCHANGED <<clock, lease, serving, requests, app>>

\* The wait for the answer timed out: the context stays as it is.
CallFails(c) ==
    /\ Calling(c)
    /\ ~Timely
    /\ clock >= issued[c] + CallTimeout
    /\ UNCHANGED context
    /\ ThenSleep(c)
    /\ UNCHANGED <<clock, lease, serving, requests, app>>

Awake(c) ==
    /\ pc[c] = "sleeping"
    /\ clock >= wake[c]
    /\ pc' = [pc EXCEPT ![c] = "decide"]
    /\ wake' = [wake EXCEPT ![c] = 0]
    /\ UNCHANGED <<clock, lease, serving, context, issued, network, app>>

-----------------------------------------------------------------------------
(* LeaseServer, whose only queue has one thread.                           *)

\* The handler reads the time before it takes the lock.
Take(q) ==
    /\ ~Busy
    /\ q \in requests
    /\ requests' = requests \ {q}
    /\ serving' = [from |-> q.from, api |-> q.api, lease |-> q.lease,
                   at |-> q.at, now |-> clock]
    /\ UNCHANGED <<clock, lease, thread, answer, app>>

\* The answer is ignored by a caller that has given up.
Respond(code, id) ==
    LET c == serving.from IN
    /\ serving' = Idle
    /\ answer' = IF Calling(c) /\ issued[c] = serving.at
                 THEN [answer EXCEPT ![c] = [code |-> code, lease |-> id,
                                             at |-> clock]]
                 ELSE answer
    /\ UNCHANGED requests

\* The server grants id to the client it is serving.
Grant(id) ==
    /\ cache' = [id |-> id, lastModified |-> serving.now]
    /\ granted' = [granted EXCEPT ![id] = @ \union {serving.from}]
    /\ renewed' = [renewed EXCEPT ![id] = serving.now]
    /\ Respond("ok", id)

\* Faulty variant of __Apply, which no specification uses: the id is the time
\* that the handler read before it took the lock.
ApplyReusesNow ==
    /\ Busy /\ serving.api = "apply"
    /\ IF cache.id = 0 \/ Expired(serving.now)
       THEN Grant(serving.now)
       ELSE UNCHANGED lease /\ Respond("exist", 0)
    /\ UNCHANGED <<clock, thread, app>>

\* __Apply under the lock.  The id is the time now, lastModified the time
\* the handler read when it began.
Apply ==
    /\ Busy /\ serving.api = "apply"
    /\ IF cache.id = 0 \/ Expired(serving.now)
       THEN Grant(clock)
       ELSE UNCHANGED lease /\ Respond("exist", 0)
    /\ UNCHANGED <<clock, thread, app>>

\* __Renewal under the lock.
Renewal ==
    /\ Busy /\ serving.api = "renewal"
    /\ \/ /\ cache.id # serving.lease
          /\ UNCHANGED lease
          /\ Respond("not_exist", 0)
       \/ /\ cache.id = serving.lease /\ Expired(serving.now)
          /\ cache' = Cleared
          /\ UNCHANGED <<granted, renewed>>
          /\ Respond("not_exist", 0)
       \/ /\ cache.id = serving.lease /\ ~Expired(serving.now)
          /\ cache' = [cache EXCEPT !.lastModified = serving.now]
          /\ renewed' = [renewed EXCEPT ![cache.id] = serving.now]
          /\ UNCHANGED granted
          /\ Respond("ok", 0)
    /\ UNCHANGED <<clock, thread, app>>

-----------------------------------------------------------------------------
(* Leased calls: Client.__CheckApi on one side, __CheckLeaseDenied in the  *)
(* server's queue threads on the other.                                    *)

\* The call carries the id the context has now, 0 if there is none.
AppCall(c) ==
    /\ app[c].fate # "sent"
    /\ app' = [app EXCEPT ![c] = [lease |-> context[c], fate |-> "sent"]]
    /\ UNCHANGED <<clock, lease, serving, thread, network>>

\* Faulty variant of AppCheck, which no specification uses: the term is left
\* out of the comparison.
AppCheckForgetsTerm(c) ==
    LET id == app[c].lease IN
    /\ app[c].fate = "sent"
    /\ \/ /\ cache.id = 0 \/ clock <= cache.lastModified
          /\ app' = [app EXCEPT ![c].fate = IF cache.id = id THEN "admitted"
                                            ELSE "denied"]
          /\ UNCHANGED cache
       \/ /\ cache.id # 0 /\ clock > cache.lastModified
          /\ cache' = Cleared
          /\ app' = [app EXCEPT ![c].fate = "admitted"]
    /\ UNCHANGED <<clock, granted, renewed, serving, thread, network>>

\* CheckRequestLeaseDenied.  An expired lease is cleared and the call that
\* found it is admitted, whatever its id.
AppCheck(c) ==
    LET id == app[c].lease IN
    /\ app[c].fate = "sent"
    /\ \/ /\ cache.id = 0 \/ ~Expired(clock)
          /\ app' = [app EXCEPT ![c].fate = IF cache.id = id THEN "admitted"
                                            ELSE "denied"]
          /\ UNCHANGED cache
       \/ /\ cache.id # 0 /\ Expired(clock)
          /\ cache' = Cleared
          /\ app' = [app EXCEPT ![c].fate = "admitted"]
    /\ UNCHANGED <<clock, granted, renewed, serving, thread, network>>

-----------------------------------------------------------------------------
Next == \/ Tick
        \/ \E c \in Clients : \/ Decide(c) \/ ApplyReturns(c)
                              \/ RenewalReturns(c) \/ SendFails(c)
                              \/ CallFails(c) \/ Awake(c)
        \/ \E c \in Callers : AppCall(c) \/ AppCheck(c)
        \/ \E q \in requests : Take(q)
        \/ Apply \/ Renewal

Spec == Init /\ [][Next]_vars

-----------------------------------------------------------------------------
(* Properties.                                                             *)

\* A client only ever holds an id the server granted to it, whatever requests
\* and answers came late.
HolderWasGranted ==
    \A c \in Clients : context[c] # 0 => c \in granted[context[c]]

\* An id is the time at which it is granted, and a second client gets the same
\* one only if the lease had run out before it was granted: the handler was
\* suspended for longer than Term after it read the time.  However many
\* requests are handled within one tick, no two clients share a lease that was
\* ever good.
IdsAreFresh ==
    [][\A i \in Times : granted[i] # {} /\ granted'[i] # granted[i]
                             => renewed[i] + Term < i]_vars

\* A lease that is no longer the server's current one has expired: nobody
\* takes over a lease within Term of its last renewal.
LostOnlyByExpiry ==
    \A i \in Times : granted[i] # {} /\ cache.id # i
                         => clock > renewed[i] + Term

\* A client gives up an id only when the server has, never because a renewal
\* was lost or late.
ResetOnlyWhenLost ==
    [][\A c \in Clients : context[c] # 0 /\ context'[c] # context[c]
                              => cache.id # context[c]]_vars

\* A call made under a lease is denied only when that lease has run out.
DeniedOnlyAfterExpiry ==
    [][\A c \in Callers :
           /\ app[c].fate = "sent" /\ app'[c].fate = "denied"
           /\ app[c].lease # 0
           => clock > renewed[app[c].lease] + Term]_vars

\* While nothing is lost and nobody dawdles, a holder keeps its lease: it is
\* renewed often enough, given a Term of at least WaitSec(Term) + 3 * Delay.
TimelyHolderKeepsLease ==
    Timely => \A c \in Clients : context[c] # 0 =>
        cache.id = context[c] /\ ~Expired(clock)
=============================================================================

------------------------------ MODULE ApiGateway ------------------------------
(***************************************************************************)
(* APIGatewayService.make_request (services/api_gateway.py) for one SIS    *)
(* provider: concurrent requests pass the rate limiter, pick an endpoint,  *)
(* and try it up to MaxRetries + 1 times through its circuit breaker, with *)
(* a backoff between two attempts.                                         *)
(*                                                                         *)
(* breaker[e], waiters[e], holder[e] and outcome[e] are the circuit        *)
(* breaker of e and its lock, as in CircuitBreaker.  The metrics of the    *)
(* breakers and of the gateway are left out, and the rate limiter admits   *)
(* or refuses nondeterministically.  delivered is history: how often the   *)
(* provider has carried a client's request out.                            *)
(***************************************************************************)
EXTENDS BreakerOps, Sequences, FiniteSets, SequencesExt

CONSTANTS
    Clients,        \* coroutines that call make_request, again and again
    NoClient,       \* the holder of a free lock
    NumEndpoints,   \* endpoints of the provider, in the order they were added
    MaxRetries      \* ProviderEndpoint.max_retries

ASSUME GatewayAssumption ==
    /\ NoClient \notin Clients
    /\ NumEndpoints \in Nat \ {0}
    /\ MaxRetries \in Nat

VARIABLES breaker, waiters, holder, outcome, pc, target, attempt, answer,
          delivered

locks == <<waiters, holder, outcome>>
vars == <<breaker, locks, pc, target, attempt, answer, delivered>>

Endpoints == 1 .. NumEndpoints

\* "ok" and "rejected" carry the provider's response, success or HTTP error.
Answers == {"none", "ok", "rejected", "limited", "unavailable", "failed", "cancelled"}

TypeOK ==
    /\ breaker \in [Endpoints -> Breaker]
    /\ waiters \in [Endpoints -> Seq(Clients)]
    /\ holder \in [Endpoints -> Clients \cup {NoClient}]
    /\ outcome \in [Endpoints -> {"none", "succeeded", "failed", "abandoned"}]
    /\ pc \in [Clients -> {"idle", "waiting", "running", "backoff"}]
    /\ target \in [Clients -> Endpoints]
    /\ attempt \in [Clients -> 0 .. MaxRetries]
    /\ answer \in [Clients -> Answers]
    /\ delivered \in [Clients -> 0 .. MaxRetries + 1]

Init ==
    /\ breaker = [e \in Endpoints |-> InitBreaker]
    /\ waiters = [e \in Endpoints |-> <<>>]
    /\ holder = [e \in Endpoints |-> NoClient]
    /\ outcome = [e \in Endpoints |-> "none"]
    /\ pc = [c \in Clients |-> "idle"]
    /\ target = [c \in Clients |-> 1]
    /\ attempt = [c \in Clients |-> 0]
    /\ answer = [c \in Clients |-> "none"]
    /\ delivered = [c \in Clients |-> 0]

-------------------------------------------------------------------------------
Available == {e \in Endpoints : breaker[e].state # "open"}

SelectEndpoint == CHOOSE e \in Available : \A f \in Available : e <= f

\* A new request of c starts with a clean record.
Fresh(c) ==
    /\ pc[c] = "idle"
    /\ attempt' = [attempt EXCEPT ![c] = 0]
    /\ delivered' = [delivered EXCEPT ![c] = 0]

Answer(c, a) ==
    /\ answer' = [answer EXCEPT ![c] = a]
    /\ pc' = [pc EXCEPT ![c] = "idle"]

\* The rate limiter refuses (429).
RateLimited(c) ==
    /\ Fresh(c)
    /\ Answer(c, "limited")
    /\ UNCHANGED <<breaker, locks, target>>

\* Every endpoint's circuit is open (503).
NoEndpoint(c) ==
    /\ Fresh(c)
    /\ Available = {}
    /\ Answer(c, "unavailable")
    /\ UNCHANGED <<breaker, locks, target>>

\* Mutant: a newcomer is served before those who wait.
Enqueue_AtHead(c, e) ==
    /\ pc' = [pc EXCEPT ![c] = "waiting"]
    /\ waiters' = [waiters EXCEPT ![e] = <<c>> \o @]

Enqueue(c, e) ==
    /\ pc' = [pc EXCEPT ![c] = "waiting"]
    /\ waiters' = [waiters EXCEPT ![e] = Append(@, c)]

Admit(c) ==
    /\ Fresh(c)
    /\ Available # {}
    /\ Enqueue(c, SelectEndpoint)
    /\ target' = [target EXCEPT ![c] = SelectEndpoint]
    /\ answer' = [answer EXCEPT ![c] = "none"]
    /\ UNCHANGED <<breaker, holder, outcome>>

-------------------------------------------------------------------------------
\* An exception of any kind ends the attempt: another one after a backoff,
\* or the answer after the last one.
AttemptFailed(c) ==
    IF attempt[c] < MaxRetries
    THEN /\ pc' = [pc EXCEPT ![c] = "backoff"]
         /\ UNCHANGED answer
    ELSE Answer(c, "failed")

\* asyncio.sleep(retry_delay * 2 ** attempt) ends; the endpoint is not
\* selected again.
Retry(c) ==
    /\ pc[c] = "backoff"
    /\ attempt' = [attempt EXCEPT ![c] = @ + 1]
    /\ Enqueue(c, target[c])
    /\ UNCHANGED <<breaker, holder, target, answer, delivered, outcome>>

HasTurn(c) ==
    /\ pc[c] = "waiting"
    /\ holder[target[c]] = NoClient
    /\ Head(waiters[target[c]]) = c

Proceeds(e) == CheckStateTransition(breaker[e]).state # "open"

FailFast(c) ==
    /\ HasTurn(c)
    /\ ~Proceeds(target[c])
    /\ waiters' = [waiters EXCEPT ![target[c]] = Tail(@)]
    /\ AttemptFailed(c)
    /\ UNCHANGED <<breaker, holder, target, attempt, delivered, outcome>>

StartCall(c) ==
    /\ HasTurn(c)
    /\ Proceeds(target[c])
    /\ breaker' = [breaker EXCEPT ![target[c]] = CheckStateTransition(@)]
    /\ waiters' = [waiters EXCEPT ![target[c]] = Tail(@)]
    /\ holder' = [holder EXCEPT ![target[c]] = c]
    /\ pc' = [pc EXCEPT ![c] = "running"]
    /\ UNCHANGED <<target, attempt, answer, delivered, outcome>>

Release(c, how) ==
    /\ pc[c] = "running"
    /\ outcome' = [outcome EXCEPT ![target[c]] = how]
    /\ holder' = [holder EXCEPT ![target[c]] = NoClient]
    /\ UNCHANGED <<waiters, target, attempt>>

\* The provider carries the request out once more.
Deliver(c) == delivered' = [delivered EXCEPT ![c] = @ + 1]

\* The provider responds, whatever the HTTP status: a success to the
\* breaker.  response.json() may still raise.
Respond(c) ==
    /\ Release(c, "succeeded")
    /\ Deliver(c)
    /\ breaker' = [breaker EXCEPT ![target[c]] = OnSuccess(@)]
    /\ (\E a \in {"ok", "rejected"} : Answer(c, a)) \/ AttemptFailed(c)

\* Mutant: the breaker does not hear of a timeout.
CallRaises_Uncounted(c) ==
    /\ Release(c, "failed")
    /\ breaker' = [breaker EXCEPT ![target[c]].success_count = 0]
    /\ Deliver(c) \/ UNCHANGED delivered
    /\ AttemptFailed(c)

\* A connection error or a timeout: the provider may have acted all the same.
CallRaises(c) ==
    /\ Release(c, "failed")
    /\ breaker' = [breaker EXCEPT ![target[c]] = OnFailure(@)]
    /\ Deliver(c) \/ UNCHANGED delivered
    /\ AttemptFailed(c)

\* A coroutine that is cancelled in line leaves it.
CancelWaiting(c) ==
    /\ pc[c] = "waiting"
    /\ \E i \in DOMAIN waiters[target[c]] :
         /\ waiters[target[c]][i] = c
         /\ waiters' = [waiters EXCEPT ![target[c]] = RemoveAt(@, i)]
    /\ UNCHANGED <<holder, outcome, target, attempt, delivered>>

\* A call that is broken off counts as neither success nor failure; the
\* provider may have acted.
CancelRunning(c) == Release(c, "abandoned") /\ (Deliver(c) \/ UNCHANGED delivered)

CancelBackoff(c) ==
    /\ pc[c] = "backoff"
    /\ UNCHANGED <<locks, target, attempt, delivered>>

\* The coroutine is cancelled, wherever it waits.
Cancel(c) ==
    /\ CancelWaiting(c) \/ CancelRunning(c) \/ CancelBackoff(c)
    /\ Answer(c, "cancelled")
    /\ UNCHANGED breaker

RecoveryTimeout(e) ==
    /\ breaker[e].next_attempt = "waiting"
    /\ breaker' = [breaker EXCEPT ![e] = RecoveryElapsed(@)]
    /\ UNCHANGED <<locks, pc, target, attempt, answer, delivered>>

-------------------------------------------------------------------------------
Submit(c) == RateLimited(c) \/ NoEndpoint(c) \/ Admit(c)

TakeLock(c) == FailFast(c) \/ StartCall(c)

EndCall(c) == Respond(c) \/ CallRaises(c)

Next ==
    \/ \E c \in Clients : Submit(c) \/ TakeLock(c) \/ EndCall(c) \/ Retry(c) \/ Cancel(c)
    \/ \E e \in Endpoints : RecoveryTimeout(e)

Spec == Init /\ [][Next]_vars

(* The event loop runs the coroutine whose turn at a lock has come, a call *)
(* ends within the breaker's timeout, and a sleep ends.                    *)
Fairness == \A c \in Clients : /\ WF_vars(TakeLock(c))
                               /\ WF_vars(EndCall(c))
                               /\ WF_vars(Retry(c))

FairSpec == Spec /\ Fairness

-------------------------------------------------------------------------------
(* An endpoint's lock knows exactly the requests that make_request has     *)
(* under way on it: one entry for each, wherever retries and cancellations *)
(* find them.                                                              *)
LockDiscipline ==
    \A e \in Endpoints :
        /\ IsInjective(waiters[e])
        /\ Range(waiters[e]) = {c \in Clients : pc[c] = "waiting" /\ target[c] = e}
        /\ {c \in Clients : pc[c] = "running" /\ target[c] = e} = {holder[e]} \ {NoClient}

(* However requests queue up behind an endpoint while it fails, the ones   *)
(* that reach the head of the line after it opened are not sent.           *)
SilentWhileOpen ==
    [][\A c \in Clients : delivered'[c] > delivered[c]
                          => breaker[target[c]].state # "open"]_vars

(* make_request skips open endpoints, and nothing but a call takes a       *)
(* circuit out of the open state: an endpoint that is open with no request *)
(* under way on it is out of service for good.                             *)
OutOfService(e) ==
    /\ breaker[e].state = "open"
    /\ ~\E c \in Clients : pc[c] # "idle" /\ target[c] = e

OutOfServiceForGood ==
    [][\A e \in Endpoints : OutOfService(e) => OutOfService(e)']_vars

(* A request tries the endpoint whose recovery timeout is over: it is not  *)
(* refused because every circuit is open (503).  The comment on            *)
(* recovery_timeout says so; the code refuses it all the same.             *)
TriedAfterRecovery ==
    [][\A c \in Clients, e \in Endpoints :
         breaker[e].state = "open" /\ breaker[e].next_attempt = "due"
           => ~(answer[c] # "unavailable" /\ answer'[c] = "unavailable")]_vars

(* Every endpoint's breaker, called from retry loops that overlap, still   *)
(* behaves as BreakerSpec says.                                            *)
Run(b) == IF b.state = "closed" THEN b.failure_count
          ELSE IF b.state = "half_open" THEN b.success_count ELSE 0

Abstract(e) == INSTANCE BreakerSpec
               WITH mode <- breaker[e].state, run <- Run(breaker[e]),
                    call <- (IF holder[e] = NoClient THEN outcome[e] ELSE "running")

ImplementsBreakers ==
    /\ \A e \in Endpoints : Abstract(e)!Init
    /\ [][\A e \in Endpoints : [Abstract(e)!Next]_(Abstract(e)!bvars)]_vars

(* The caller gets an answer, whatever the provider and the others do.     *)
EveryRequestAnswered == \A c \in Clients : (pc[c] # "idle") ~> (pc[c] = "idle")
===============================================================================

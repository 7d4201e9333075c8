------------------------------ MODULE RateLimiter ------------------------------
(***************************************************************************)
(* The rate limiter of a provider (middleware/rate_limiting.py): a token   *)
(* bucket refilled when it is asked, the deque of requests that wait, the  *)
(* processor that serves it every 0.1 s, callers that time out or are      *)
(* cancelled, start and stop.                                              *)
(*                                                                         *)
(* Time is a count of ticks, and one token takes Cost ticks to refill.     *)
(* consume never suspends, as its lock is never contended, so a pass of    *)
(* the processor is one action.  wait_for cancels the future when the time *)
(* is over, and the caller resumes later; a result set in between is lost  *)
(* (asyncio.timeout, Python 3.12 and later).  Metrics are left out.        *)
(***************************************************************************)
EXTENDS Naturals, Sequences, FiniteSets, SequencesExt

CONSTANTS
    Requests,       \* the calls of acquire
    Capacity,       \* burst_limit, in units
    Cost,           \* units of one token: ticks between two tokens
    MaxQueueSize,   \* max_queue_size
    Timeout,        \* timeout of acquire, in ticks
    MaxTime         \* bound: the last tick

ASSUME LimiterAssumption ==
    /\ Capacity \in Nat
    /\ Cost \in Nat \ {0}
    /\ MaxQueueSize \in Nat /\ Timeout \in Nat /\ MaxTime \in Nat

VARIABLES
    now,
    tokens, last_update,    \* the bucket as it was left by the last refill
    request_queue,
    timestamp,              \* when each request called acquire
    future,                 \* the future of each request that waits
    leaving,                \* how its wait was broken off
    answer,                 \* what acquire returned or raised
    processor,              \* the processor task runs
    stopping,               \* _stop_processing, since stop() was called
    charged                 \* history: requests that a token was taken for

bucketvars == <<tokens, last_update>>

callers == <<request_queue, timestamp, future, leaving, answer>>

control == <<processor, stopping>>

vars == <<now, bucketvars, callers, control, charged>>

TypeOK ==
    /\ now \in Nat /\ last_update \in Nat
    /\ tokens \in Nat
    /\ request_queue \in Seq(Requests)
    /\ timestamp \in [Requests -> Nat]
    /\ future \in [Requests -> {"none", "pending", "result", "expired", "cancelled", "shutdown"}]
    /\ leaving \in [Requests -> {"no", "timed_out", "cancelled"}]
    /\ answer \in [Requests -> {"none", "allowed", "denied", "raised"}]
    /\ processor \in BOOLEAN /\ stopping \in BOOLEAN
    /\ charged \in SUBSET Requests

Init ==
    /\ now = 0 /\ last_update = 0
    /\ tokens = Capacity
    /\ request_queue = <<>>
    /\ timestamp = [r \in Requests |-> 0]
    /\ future = [r \in Requests |-> "none"]
    /\ leaving = [r \in Requests |-> "no"]
    /\ answer = [r \in Requests |-> "none"]
    /\ processor = FALSE /\ stopping = FALSE
    /\ charged = {}

Tick ==
    /\ now < MaxTime
    /\ now' = now + 1
    /\ UNCHANGED <<bucketvars, callers, control, charged>>

-------------------------------------------------------------------------------
(* The bucket.                                                             *)

\* Mutant: the refill is not limited to the capacity.
Level_Unlimited == tokens + (now - last_update)

\* tokens plus what the time since last_update has added.
Level ==
    LET refilled == tokens + (now - last_update)
    IN  IF refilled <= Capacity THEN refilled ELSE Capacity

\* The refill of consume, and k tokens taken.
Refill(k) == tokens' = Level - k * Cost /\ last_update' = now

HasTokens(k) == k * Cost <= Level

-------------------------------------------------------------------------------
(* acquire.  The last conjunct of New bounds the model: what comes in has  *)
(* time to expire.                                                         *)

New(r) ==
    /\ future[r] = "none" /\ answer[r] = "none"
    /\ now + Timeout < MaxTime

\* A newcomer is not asked to queue behind those who wait.
Admit(r) ==
    /\ New(r)
    /\ HasTokens(1)
    /\ Refill(1)
    /\ charged' = charged \cup {r}
    /\ answer' = [answer EXCEPT ![r] = "allowed"]
    /\ UNCHANGED <<now, request_queue, timestamp, future, leaving, control>>

Deny(r) ==
    /\ New(r)
    /\ ~HasTokens(1) /\ Refill(0)
    /\ Len(request_queue) >= MaxQueueSize
    /\ answer' = [answer EXCEPT ![r] = "denied"]
    /\ UNCHANGED <<now, request_queue, timestamp, future, leaving, control, charged>>

Enqueue(r) ==
    /\ New(r)
    /\ ~HasTokens(1) /\ Refill(0)
    /\ Len(request_queue) < MaxQueueSize
    /\ request_queue' = Append(request_queue, r)
    /\ timestamp' = [timestamp EXCEPT ![r] = now]
    /\ future' = [future EXCEPT ![r] = "pending"]
    /\ UNCHANGED <<now, leaving, answer, control, charged>>

Waiting(r) == future[r] # "none" /\ answer[r] = "none"

Settle(S, how) == [r \in Requests |-> IF r \in S /\ future[r] = "pending" THEN how ELSE future[r]]

\* Mutant: wait_for is given no timeout.
TimeIsOver_Never(r) == FALSE

TimeIsOver(r) == now >= timestamp[r] + Timeout

\* wait_for's timer fires, whether or not the future is done.
TimerFires(r) ==
    /\ Waiting(r) /\ leaving[r] = "no"
    /\ TimeIsOver(r)
    /\ leaving' = [leaving EXCEPT ![r] = "timed_out"]
    /\ future' = Settle({r}, "cancelled")
    /\ UNCHANGED <<now, bucketvars, request_queue, timestamp, answer, control, charged>>

CallerCancelled(r) ==
    /\ Waiting(r) /\ leaving[r] # "cancelled"
    /\ leaving' = [leaving EXCEPT ![r] = "cancelled"]
    /\ future' = Settle({r}, "cancelled")
    /\ UNCHANGED <<now, bucketvars, request_queue, timestamp, answer, control, charged>>

Resumes(r, how) ==
    /\ Waiting(r) /\ future[r] # "pending"
    /\ answer' = [answer EXCEPT ![r] = how]
    /\ UNCHANGED <<now, bucketvars, timestamp, future, leaving, control, charged>>

\* The caller resumes: with the result, with a TimeoutError, which takes the
\* request out of the deque, or with a CancelledError, which does not.
ResumeAllowed(r) ==
    /\ leaving[r] = "no" /\ future[r] = "result"
    /\ Resumes(r, "allowed")
    /\ UNCHANGED request_queue

\* It leaves the deque, if it is there.
Dequeued(r) ==
    \/ \E i \in DOMAIN request_queue :
         request_queue[i] = r /\ request_queue' = RemoveAt(request_queue, i)
    \/ r \notin Range(request_queue) /\ UNCHANGED request_queue

ResumeDenied(r) ==
    /\ leaving[r] = "timed_out" \/ (leaving[r] = "no" /\ future[r] = "expired")
    /\ Resumes(r, "denied")
    /\ Dequeued(r)

ResumeRaised(r) ==
    /\ leaving[r] = "cancelled" \/ (leaving[r] = "no" /\ future[r] = "shutdown")
    /\ Resumes(r, "raised")
    /\ UNCHANGED request_queue

Resume(r) == ResumeAllowed(r) \/ ResumeDenied(r) \/ ResumeRaised(r)

-------------------------------------------------------------------------------
(* The processor.                                                          *)

IsExpired(r) == now > timestamp[r] + Timeout

\* How many requests are expired.
Expired == Cardinality({i \in DOMAIN request_queue : IsExpired(request_queue[i])})

\* The requests that _cleanup_expired_requests leaves.  The deque is in order
\* of arrival and all have the same timeout, so the expired ones are in front.
InTime == SubSeq(request_queue, Expired + 1, Len(request_queue))

\* Mutant: the futures of the requests swept are not settled.
Outcomes_Silent(k) ==
    LET served == {InTime[i] : i \in 1 .. k}
    IN  [r \in Requests |-> IF future[r] = "pending" /\ r \in served THEN "result" ELSE future[r]]

\* Mutant: a request whose time is just over is expired when it is served.
Outcomes_Late(k) ==
    LET served == {InTime[i] : i \in 1 .. k}
    IN  [r \in Requests |->
           IF future[r] # "pending" THEN future[r]
           ELSE IF r \in Range(request_queue) /\ TimeIsOver(r) THEN "expired"
           ELSE IF r \in served THEN "result" ELSE "pending"]

\* What a pass that serves the first k requests in time does to the futures.
Outcomes(k) ==
    LET served == {InTime[i] : i \in 1 .. k}
    IN  [r \in Requests |->
           IF future[r] # "pending" THEN future[r]
           ELSE IF r \in served THEN "result"
           ELSE IF r \in Range(request_queue) /\ IsExpired(r) THEN "expired"
           ELSE "pending"]

\* Expired requests go; then each token there is goes to the next request,
\* without a look at whether it still waits.
Process(k) ==
    /\ processor /\ ~stopping
    /\ k \in 0 .. Len(InTime) /\ HasTokens(k)
    /\ k = Len(InTime) \/ ~HasTokens(k + 1)
    /\ request_queue' = SubSeq(InTime, k + 1, Len(InTime))
    /\ future' = Outcomes(k)
    /\ IF InTime = <<>> THEN UNCHANGED bucketvars ELSE Refill(k)
    /\ charged' = charged \cup {InTime[i] : i \in 1 .. k}
    /\ UNCHANGED <<now, timestamp, leaving, answer, control>>

Start ==
    /\ ~processor
    /\ processor' = TRUE /\ stopping' = FALSE
    /\ UNCHANGED <<now, bucketvars, callers, charged>>

\* stop() waits until the processor has seen the flag, then releases the queue.
Stop ==
    /\ processor /\ ~stopping
    /\ stopping' = TRUE
    /\ UNCHANGED <<now, bucketvars, callers, processor, charged>>

Stopped ==
    /\ processor /\ stopping
    /\ processor' = FALSE
    /\ future' = Settle(Range(request_queue), "shutdown")
    /\ request_queue' = <<>>
    /\ UNCHANGED <<now, bucketvars, timestamp, leaving, answer, stopping, charged>>

-------------------------------------------------------------------------------
Acquire(r) == Admit(r) \/ Deny(r) \/ Enqueue(r)

CallerStep(r) == Acquire(r) \/ TimerFires(r) \/ CallerCancelled(r) \/ Resume(r)

Next ==
    \/ Tick \/ Start \/ Stop \/ Stopped
    \/ \E r \in Requests : CallerStep(r)
    \/ \E k \in 0 .. Len(request_queue) : Process(k)

Spec == Init /\ [][Next]_vars

(* Time passes, timers fire and callers resume.  Nobody has to start the   *)
(* limiter, and the gateway that creates its own never does.               *)
Fairness ==
    /\ WF_vars(Tick)
    /\ \A r \in Requests : WF_vars(TimerFires(r)) /\ WF_vars(Resume(r))

FairSpec == Spec /\ Fairness

-------------------------------------------------------------------------------
(* However acquire, the processor and time interleave, the bucket filled   *)
(* when asked behaves as one filled all the time.                          *)
Bucket == INSTANCE EagerBucket WITH level <- Level, spent <- Cardinality(charged)

ImplementsBucket == Bucket!Spec

(* In the time up to now no more tokens are taken than the burst and the   *)
(* refill of that time.                                                    *)
RateBound == Cost * Cardinality(charged) + Level <= Capacity + now

(* A caller that waits is in the deque exactly once, whatever sweeps,      *)
(* timeouts, cancellations and stops do: it cannot be forgotten.           *)
Remembered ==
    /\ IsInjective(request_queue)
    /\ \A r \in Requests : future[r] = "pending" => r \in Range(request_queue)

(* Whoever is let through was paid for with a token of its own.            *)
AllowedIsPaid ==
    \A r \in Requests : answer[r] = "allowed" \/ future[r] = "result" => r \in charged

(* A token is wasted only on a caller whose time was over or who was       *)
(* cancelled when the processor, or the result, reached it.                *)
WasteExplained ==
    \A r \in charged : answer[r] = "allowed" \/ future[r] = "result" \/ leaving[r] # "no"

(* Every caller gets an answer, with or without a processor.               *)
EveryCallerAnswered == \A r \in Requests : Waiting(r) ~> answer[r] # "none"
===============================================================================

----------------------------- MODULE RequestQueue -----------------------------
(***************************************************************************)
(* The gateway's request queue (gateway/request_queue.py): processor       *)
(* workers, retry tasks that sleep and put a request back, a sweep for     *)
(* expired requests, callers that wait (enqueue_and_wait) or leave a       *)
(* callback (enqueue), cancellation, and the stop of the queue.            *)
(*                                                                         *)
(* Code between two suspension points of the event loop is one action.     *)
(* The queues of all strategies are one sequence in order of submitted_at: *)
(* a provider's queue is its subsequence.  Of the metrics only the number  *)
(* of records per request is kept (reports); averages are left out.  The   *)
(* sweep handles the requests it found in any order.                       *)
(***************************************************************************)
EXTENDS Naturals, Sequences, FiniteSets, SequencesExt

CONSTANTS
    Requests,       \* requests that may be enqueued, each with its own id
    Waiters,        \* those submitted by enqueue_and_wait, the others have a callback
    Workers,        \* processor tasks
    NoRequest,      \* what an idle task handles
    Providers,
    Provider,       \* the provider of each request
    Priority,       \* the RequestPriority of each request
    Strategy,       \* QueueStrategy
    MaxSize,        \* max_size
    MaxRetries      \* max_retries of a request

ASSUME QueueAssumption ==
    /\ Waiters \subseteq Requests
    /\ NoRequest \notin Requests
    /\ Provider \in [Requests -> Providers]
    /\ Priority \in [Requests -> 1 .. 4]
    /\ Strategy \in {"fifo", "priority", "round_robin", "weighted_fair"}
    /\ MaxSize \in Nat /\ MaxRetries \in Nat

VARIABLES
    queue,              \* queued requests, oldest submission first
    provider_order,     \* keys of _provider_queues, in order of insertion
    active,             \* keys of _active_requests
    future,             \* each request's future, "none" before it is enqueued
    expired,            \* the requests whose is_expired holds
    retry_count,
    worker,             \* what each worker awaits, and for which request
    sleeping,           \* requests in the sleep of _schedule_retry
    sweep,              \* the sweep's list, and the request it handles
    stopping,           \* stop() has cancelled the tasks and waits for them
    leaving,            \* how each wait in enqueue_and_wait was broken off
    tries,              \* history: calls of the processor
    reports             \* history: records of completion or expiry

queues == <<queue, provider_order>>

table == <<active, future>>

history == <<tries, reports>>

vars == <<queues, table, expired, retry_count, worker, sleeping, sweep,
          stopping, leaving, history>>

PerProvider == Strategy \in {"round_robin", "weighted_fair"}

Settled == {"ok", "failed", "expired", "cancelled"}

IdleTask == [pc |-> "idle", req |-> NoRequest]

IdleSweep == [todo |-> {}, req |-> NoRequest]

Task == {IdleTask} \cup [pc : {"process", "callback"}, req : Requests]

TypeOK ==
    /\ queue \in Seq(Requests)
    /\ provider_order \in Seq(Providers)
    /\ active \in SUBSET Requests
    /\ future \in [Requests -> {"none", "pending"} \cup Settled]
    /\ expired \in SUBSET Requests
    /\ retry_count \in [Requests -> 0 .. MaxRetries]
    /\ worker \in [Workers -> Task]
    /\ sleeping \in SUBSET Requests
    /\ sweep \in [todo : SUBSET Requests, req : Requests \cup {NoRequest}]
    /\ stopping \in BOOLEAN
    /\ leaving \in [Waiters -> {"no", "timed_out", "cancelled", "gone"}]
    /\ tries \in [Requests -> Nat]
    /\ reports \in [Requests -> Nat]

Init ==
    /\ queue = <<>>
    /\ provider_order = <<>>
    /\ active = {}
    /\ future = [r \in Requests |-> "none"]
    /\ expired = {}
    /\ retry_count = [r \in Requests |-> 0]
    /\ worker = [w \in Workers |-> IdleTask]
    /\ sleeping = {}
    /\ sweep = IdleSweep
    /\ stopping = FALSE
    /\ leaving = [r \in Waiters |-> "no"]
    /\ tries = [r \in Requests |-> 0]
    /\ reports = [r \in Requests |-> 0]

-------------------------------------------------------------------------------
(* The choice of the next request.                                         *)

\* The position of the oldest queued request of S.
First(S) == CHOOSE i \in DOMAIN queue :
              queue[i] \in S /\ \A j \in DOMAIN queue : queue[j] \in S => i <= j

Oldest(p) == First({r \in Requests : Provider[r] = p})

Rank(p) == CHOOSE i \in DOMAIN provider_order : provider_order[i] = p

NonEmpty == {Provider[r] : r \in Range(queue)}

FirstProvider == CHOOSE p \in NonEmpty : \A q \in NonEmpty : Rank(p) <= Rank(q)

\* The provider whose oldest request has the highest priority.
WeightedProvider ==
    LET prio(p) == Priority[queue[Oldest(p)]]
    IN  CHOOSE p \in NonEmpty :
          \A q \in NonEmpty : \/ prio(p) > prio(q)
                              \/ prio(p) = prio(q) /\ Rank(p) <= Rank(q)

TopPriority ==
    First({r \in Range(queue) : \A s \in Range(queue) : Priority[s] <= Priority[r]})

NextRequest ==
    CASE Strategy = "fifo"          -> 1
      [] Strategy = "priority"      -> TopPriority
      [] Strategy = "round_robin"   -> Oldest(FirstProvider)
      [] Strategy = "weighted_fair" -> Oldest(WeightedProvider)

-------------------------------------------------------------------------------
\* Mutant: the result is set on a future that is done already.
Resolve_Overwrites(r, how) == future' = [future EXCEPT ![r] = how]

Resolve(r, how) ==
    future' = IF future[r] = "pending" THEN [future EXCEPT ![r] = how] ELSE future

\* _remove_from_queue: the request leaves the queue, if it is there.
Dequeue(r) ==
    \/ \E i \in DOMAIN queue : queue[i] = r /\ queue' = RemoveAt(queue, i)
    \/ r \notin Range(queue) /\ UNCHANGED queue

Report(r) == reports' = [reports EXCEPT ![r] = @ + 1]

\* _is_queue_full lets a new request in; a refusal (QueueFull) changes nothing.
Enqueue(r) ==
    /\ future[r] = "none"
    /\ Len(queue) < MaxSize
    /\ queue' = Append(queue, r)
    /\ provider_order' = IF PerProvider /\ Provider[r] \notin Range(provider_order)
                         THEN Append(provider_order, Provider[r]) ELSE provider_order
    /\ active' = active \cup {r}
    /\ future' = [future EXCEPT ![r] = "pending"]
    /\ UNCHANGED <<expired, retry_count, worker, sleeping, sweep, stopping,
                   leaving, history>>

\* timeout seconds since submitted_at are over.
Expire(r) ==
    /\ r \in (active \cup Range(queue)) \ expired
    /\ expired' = expired \cup {r}
    /\ UNCHANGED <<queues, table, retry_count, worker, sleeping, sweep,
                   stopping, leaving, history>>

\* A retry resets submitted_at, never the deadline of enqueue_and_wait.
DeadlinePassed(r) ==
    \/ r \in expired
    \/ retry_count[r] > (IF r \in sleeping THEN 1 ELSE 0)

\* wait_for cancels the future, and the task that waits resumes only later:
\* what finds the request in between does not know that it is over.
BreakOff(r, how) ==
    /\ Resolve(r, "cancelled")
    /\ leaving' = [leaving EXCEPT ![r] = how]
    /\ UNCHANGED <<queues, active, expired, retry_count, worker, sleeping, sweep,
                   stopping, history>>

WaitTimeout(r) ==
    /\ r \in Waiters /\ future[r] = "pending"
    /\ DeadlinePassed(r)
    /\ BreakOff(r, "timed_out")

\* The task in enqueue_and_wait is cancelled, before or after its timeout.
WaiterCancelled(r) ==
    /\ r \in Waiters
    /\ future[r] = "pending" \/ leaving[r] = "timed_out"
    /\ BreakOff(r, "cancelled")

\* The task resumes.  After a timeout _cleanup_request takes the request out
\* of the queue; after a cancellation only the finally clause runs.
WaiterResumes(r) ==
    /\ r \in Waiters
    /\ \/ /\ leaving[r] = "timed_out"
          /\ IF r \in active THEN Dequeue(r) ELSE UNCHANGED queue
          /\ leaving' = [leaving EXCEPT ![r] = "no"]
       \/ /\ leaving[r] = "cancelled"
          /\ leaving' = [leaving EXCEPT ![r] = "gone"]
          /\ UNCHANGED queue
    /\ active' = active \ {r}
    /\ UNCHANGED <<provider_order, future, expired, retry_count, worker, sleeping,
                   sweep, stopping, history>>

\* cancel_request.
CancelRequest(r) ==
    /\ r \in active
    /\ Resolve(r, "cancelled")
    /\ Dequeue(r)
    /\ active' = active \ {r}
    /\ UNCHANGED <<provider_order, expired, retry_count, worker, sleeping,
                   sweep, stopping, leaving, history>>

-------------------------------------------------------------------------------
(* The workers.  Complete is the common tail of the handlers: the callback *)
(* is awaited before the request leaves _active_requests.                  *)

Complete(w, r) ==
    IF r \in Waiters
    THEN active' = active \ {r} /\ worker' = [worker EXCEPT ![w] = IdleTask]
    ELSE /\ worker' = [worker EXCEPT ![w] = [pc |-> "callback", req |-> r]]
         /\ UNCHANGED active

\* Mutant: the request is looked at, not removed.
Take_Peeks(w, r) ==
    /\ worker[w] = IdleTask /\ ~stopping
    /\ queue # <<>>
    /\ r = queue[NextRequest]
    /\ UNCHANGED <<queues, expired, retry_count, sleeping, sweep, stopping,
                   leaving>>

Take(w, r) ==
    /\ worker[w] = IdleTask /\ ~stopping
    /\ queue # <<>>
    /\ r = queue[NextRequest]
    /\ queue' = RemoveAt(queue, NextRequest)
    /\ UNCHANGED <<provider_order, expired, retry_count, sleeping, sweep,
                   stopping, leaving>>

TakeExpired(w, r) ==
    /\ r \in expired
    /\ Take(w, r)
    /\ Report(r)
    /\ Resolve(r, "expired")
    /\ Complete(w, r)
    /\ UNCHANGED tries

\* A request that has not expired goes to the processor.
Dispatch(w, r) ==
    /\ r \notin expired
    /\ Take(w, r)
    /\ worker' = [worker EXCEPT ![w] = [pc |-> "process", req |-> r]]
    /\ tries' = [tries EXCEPT ![r] = @ + 1]
    /\ UNCHANGED <<table, reports>>

Processed(w, r) ==
    /\ worker[w] = [pc |-> "process", req |-> r]
    /\ UNCHANGED <<queues, expired, sweep, stopping, leaving, tries>>

Succeed(w, r) ==
    /\ Processed(w, r)
    /\ Report(r)
    /\ Resolve(r, "ok")
    /\ Complete(w, r)
    /\ UNCHANGED <<retry_count, sleeping>>

ScheduleRetry(w, r) ==
    /\ Processed(w, r)
    /\ retry_count[r] < MaxRetries
    /\ retry_count' = [retry_count EXCEPT ![r] = @ + 1]
    /\ sleeping' = sleeping \cup {r}
    /\ worker' = [worker EXCEPT ![w] = IdleTask]
    /\ UNCHANGED <<table, reports>>

GiveUp(w, r) ==
    /\ Processed(w, r)
    /\ retry_count[r] >= MaxRetries
    /\ Report(r)
    /\ Resolve(r, "failed")
    /\ Complete(w, r)
    /\ UNCHANGED <<retry_count, sleeping>>

CallbackReturns(w, r) ==
    /\ worker[w] = [pc |-> "callback", req |-> r]
    /\ worker' = [worker EXCEPT ![w] = IdleTask]
    /\ active' = active \ {r}
    /\ UNCHANGED <<queues, future, expired, retry_count, sleeping, sweep,
                   stopping, leaving, history>>

\* Mutant: a retry does not look whether its request is still active.
WakeRetry_Inactive(r) ==
    /\ r \in sleeping
    /\ sleeping' = sleeping \ {r}
    /\ queue' = IF r \notin expired THEN Append(queue, r) ELSE queue
    /\ UNCHANGED <<provider_order, table, expired, retry_count, worker, sweep,
                   stopping, leaving, history>>

\* The sleep of _schedule_retry ends.
WakeRetry(r) ==
    /\ r \in sleeping
    /\ sleeping' = sleeping \ {r}
    /\ queue' = IF r \in active \ expired THEN Append(queue, r) ELSE queue
    /\ UNCHANGED <<provider_order, table, expired, retry_count, worker, sweep,
                   stopping, leaving, history>>

-------------------------------------------------------------------------------
(* The sweep of _cleanup_expired_requests: a list, then one by one.        *)

\* Mutant: the sweep looks at the queue only.
SweepStarts_Queued ==
    /\ sweep = IdleSweep /\ ~stopping
    /\ Range(queue) \cap expired # {}
    /\ sweep' = [sweep EXCEPT !.todo = Range(queue) \cap expired]
    /\ UNCHANGED <<queues, table, expired, retry_count, worker, sleeping,
                   stopping, leaving, history>>

SweepStarts ==
    /\ sweep = IdleSweep /\ ~stopping
    /\ active \cap expired # {}
    /\ sweep' = [sweep EXCEPT !.todo = active \cap expired]
    /\ UNCHANGED <<queues, table, expired, retry_count, worker, sleeping,
                   stopping, leaving, history>>

SweepSkips(r) ==
    /\ r \in sweep.todo \ active /\ sweep.req = NoRequest
    /\ sweep' = [sweep EXCEPT !.todo = @ \ {r}]
    /\ UNCHANGED <<queues, table, expired, retry_count, worker, sleeping,
                   stopping, leaving, history>>

SweepExpires(r) ==
    /\ r \in sweep.todo \cap active /\ sweep.req = NoRequest
    /\ Dequeue(r)
    /\ Report(r)
    /\ Resolve(r, "expired")
    /\ IF r \in Waiters
       THEN active' = active \ {r} /\ sweep' = [sweep EXCEPT !.todo = @ \ {r}]
       ELSE /\ sweep' = [todo |-> sweep.todo \ {r}, req |-> r]
            /\ UNCHANGED active
    /\ UNCHANGED <<provider_order, expired, retry_count, worker, sleeping,
                   stopping, leaving, tries>>

\* Mutant: the request is not removed after its callback.
SweepCallbackReturns_Keeps(r) ==
    /\ sweep.req = r
    /\ sweep' = [sweep EXCEPT !.req = NoRequest]
    /\ UNCHANGED <<queues, table, expired, retry_count, worker, sleeping,
                   stopping, leaving, history>>

SweepCallbackReturns(r) ==
    /\ sweep.req = r
    /\ sweep' = [sweep EXCEPT !.req = NoRequest]
    /\ active' = active \ {r}
    /\ UNCHANGED <<queues, future, expired, retry_count, worker, sleeping,
                   stopping, leaving, history>>

-------------------------------------------------------------------------------
(* stop() cancels workers and sweep wherever they wait; retry tasks live   *)
(* on.  Once they have ended it cancels what is active, and the admin      *)
(* command clear_request_queue puts a new queue in its place.              *)

Stop ==
    /\ ~stopping
    /\ stopping' = TRUE
    /\ worker' = [w \in Workers |-> IdleTask]
    /\ sweep' = IdleSweep
    /\ UNCHANGED <<queues, table, expired, retry_count, sleeping, leaving, history>>

\* Mutant: the table is cleared before the futures are cancelled.
Stopped_ForgetsFutures ==
    /\ stopping
    /\ stopping' = FALSE
    /\ active' = {}
    /\ queue' = <<>>
    /\ provider_order' = <<>>
    /\ UNCHANGED <<future, expired, retry_count, worker, sleeping, sweep,
                   leaving, history>>

Stopped ==
    /\ stopping
    /\ stopping' = FALSE
    /\ future' = [r \in Requests |-> IF r \in active /\ future[r] = "pending"
                                     THEN "cancelled" ELSE future[r]]
    /\ active' = {}
    /\ queue' = <<>>
    /\ provider_order' = <<>>
    /\ UNCHANGED <<expired, retry_count, worker, sleeping, sweep, leaving, history>>

-------------------------------------------------------------------------------
WorkerStep(w) ==
    \E r \in Requests : \/ TakeExpired(w, r) \/ Dispatch(w, r)
                        \/ Succeed(w, r) \/ ScheduleRetry(w, r) \/ GiveUp(w, r)
                        \/ CallbackReturns(w, r)

SweepStep ==
    \/ SweepStarts
    \/ \E r \in Requests : SweepSkips(r) \/ SweepExpires(r) \/ SweepCallbackReturns(r)

CallerStep(r) == Enqueue(r) \/ WaiterCancelled(r) \/ CancelRequest(r)

WaiterStep(r) == WaitTimeout(r) \/ WaiterResumes(r)

Next ==
    \/ \E r \in Requests : CallerStep(r) \/ WaiterStep(r) \/ Expire(r) \/ WakeRetry(r)
    \/ \E w \in Workers : WorkerStep(w)
    \/ SweepStep \/ Stop \/ Stopped

Spec == Init /\ [][Next]_vars

(* Time passes, so sleeps and timeouts end; the event loop runs every task *)
(* that can run; the processor and the callbacks return.                   *)
Fairness ==
    /\ \A r \in Requests : WF_vars(Expire(r)) /\ WF_vars(WaiterStep(r))
                           /\ WF_vars(WakeRetry(r))
    /\ \A w \in Workers : WF_vars(WorkerStep(w))
    /\ WF_vars(SweepStep) /\ WF_vars(Stopped)

FairSpec == Spec /\ Fairness

-------------------------------------------------------------------------------
\* What the workers have yet to bring to an end.
ToReport ==
    Range(queue) \cup sleeping
    \cup {r \in Requests : \E w \in Workers : worker[w] = [pc |-> "process", req |-> r]}

(* A caller still waiting is in _active_requests, the only table expiry,   *)
(* cancellation and shutdown look at, and something is under way that can  *)
(* settle it: its request is queued, processed or asleep, the sweep finds  *)
(* it because its timeout is over, or stop() is about to cancel it.        *)
Tracked ==
    \A r \in Requests : future[r] = "pending" =>
      r \in active /\ (r \in ToReport \cup expired \/ stopping)

(* One request is never in two hands: it waits in the queue once, or one   *)
(* worker processes it, or one retry task sleeps on it.                    *)
Processing(w) == worker[w].pc = "process"

OneHand ==
    /\ IsInjective(queue)
    /\ sleeping \cap Range(queue) = {}
    /\ \A w \in Workers : Processing(w) =>
         /\ worker[w].req \notin Range(queue) \cup sleeping
         /\ \A v \in Workers \ {w} : Processing(v) => worker[v].req # worker[w].req

(* Nothing is sent to a provider for a caller that has its answer.  Only a *)
(* waiter that was cancelled leaves its request in the queue, and one that *)
(* has timed out until its task resumes.                                   *)
WantedOnly ==
    [][\A r \in Requests : tries'[r] > tries[r]
          => future[r] = "pending" \/ (r \in Waiters /\ leaving[r] # "no")]_vars

(* Metrics and callback hear of one request twice at most: a worker and    *)
(* the sweep may both report it, neither of them twice.                    *)
TwoReportsAtMost == \A r \in Requests : reports[r] <= 2

(* The queue implements the life cycle of requests.                        *)
Lifecycle == INSTANCE RequestLifecycle WITH status <- future

ImplementsLifecycle == Lifecycle!Spec

(* Every accepted request is settled.                                      *)
EveryRequestSettles ==
    \A r \in Requests : (future[r] = "pending") ~> (future[r] \in Settled)

(* Retries are put back without a look at max_size, but they are all that   *)
(* overfills the queue: the requests in it that were never tried fit.      *)
NewcomersFit == Cardinality({r \in Range(queue) : retry_count[r] = 0}) <= MaxSize
===============================================================================

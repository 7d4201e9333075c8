---------------------------- MODULE CircuitBreaker ----------------------------
(***************************************************************************)
(* One circuit breaker of core/circuit_breaker.py under concurrent tasks.  *)
(* call, force_open and force_closed all run under one asyncio.Lock, and   *)
(* call keeps it for as long as the protected function runs.  The lock is  *)
(* first come, first served.  A task may be cancelled (the request queue   *)
(* cancels its workers when it stops, a client disconnects) while it waits *)
(* or while the protected function runs.  reset_metrics takes no lock.     *)
(***************************************************************************)
EXTENDS BreakerOps, Sequences, SequencesExt

CONSTANTS
    Tasks,      \* the coroutines that use the breaker
    NoTask,     \* the holder of a free lock
    MaxCalls    \* calls counted between two resets of the metrics (model bound)

ASSUME TasksAssumption == NoTask \notin Tasks /\ MaxCalls \in Nat

VARIABLES
    breaker,    \* the state machine and its counters
    metrics,    \* CircuitBreakerMetrics
    op,         \* what each task asked for, "idle" between two requests
    waiters,    \* tasks waiting for the lock, in order of arrival
    holder,     \* the task whose protected function is running
    outcome     \* history: how the latest protected call ended

vars == <<breaker, metrics, op, waiters, holder, outcome>>

Operations == {"call", "force_open", "force_closed"}

NoMetrics == [total |-> 0, successful |-> 0, failed |-> 0,
              timeout |-> 0, open |-> 0]

Metrics == [total : Nat, successful : Nat, failed : Nat,
            timeout : Nat, open : Nat]

TypeOK ==
    /\ breaker \in Breaker
    /\ metrics \in Metrics
    /\ op \in [Tasks -> Operations \cup {"idle"}]
    /\ waiters \in Seq(Tasks)
    /\ holder \in Tasks \cup {NoTask}
    /\ outcome \in {"none", "succeeded", "failed", "abandoned"}

Init ==
    /\ breaker = InitBreaker
    /\ metrics = NoMetrics
    /\ op = [t \in Tasks |-> "idle"]
    /\ waiters = <<>>
    /\ holder = NoTask
    /\ outcome = "none"

-------------------------------------------------------------------------------
\* Mutant: a newcomer is served before those who wait.
Request_Barging(t, o) ==
    /\ op[t] = "idle"
    /\ metrics.total < MaxCalls
    /\ op' = [op EXCEPT ![t] = o]
    /\ waiters' = <<t>> \o waiters
    /\ UNCHANGED <<breaker, metrics, holder, outcome>>

\* A task asks for the lock.  It gets it at once when nobody is before it:
\* that is the TakeLock step that follows.
Request(t, o) ==
    /\ op[t] = "idle"
    /\ metrics.total < MaxCalls
    /\ op' = [op EXCEPT ![t] = o]
    /\ waiters' = Append(waiters, t)
    /\ UNCHANGED <<breaker, metrics, holder, outcome>>

HasTurn(t, o) ==
    /\ holder = NoTask
    /\ waiters # <<>>
    /\ Head(waiters) = t
    /\ op[t] = o

Leave(t) ==
    /\ op' = [op EXCEPT ![t] = "idle"]
    /\ waiters' = Tail(waiters)

\* Mutant: the request is counted after the check that fails it fast.
FailFast_Uncounted(t) ==
    /\ HasTurn(t, "call")
    /\ CheckStateTransition(breaker).state = "open"
    /\ metrics' = [metrics EXCEPT !.open = @ + 1]
    /\ Leave(t)
    /\ UNCHANGED <<breaker, holder, outcome>>

\* call finds the circuit open and the recovery time not reached.
FailFast(t) ==
    /\ HasTurn(t, "call")
    /\ CheckStateTransition(breaker).state = "open"
    /\ metrics' = [metrics EXCEPT !.total = @ + 1, !.open = @ + 1]
    /\ Leave(t)
    /\ UNCHANGED <<breaker, holder, outcome>>

\* call starts the protected function and keeps the lock.
StartCall(t) ==
    /\ HasTurn(t, "call")
    /\ CheckStateTransition(breaker).state # "open"
    /\ breaker' = CheckStateTransition(breaker)
    /\ metrics' = [metrics EXCEPT !.total = @ + 1]
    /\ holder' = t
    /\ waiters' = Tail(waiters)
    /\ UNCHANGED <<op, outcome>>

Finish(t, how) ==
    /\ holder = t
    /\ holder' = NoTask
    /\ outcome' = how
    /\ op' = [op EXCEPT ![t] = "idle"]
    /\ UNCHANGED waiters

CallSucceeds(t) ==
    /\ Finish(t, "succeeded")
    /\ breaker' = OnSuccess(breaker)
    /\ metrics' = [metrics EXCEPT !.successful = @ + 1]

\* An exception of the protected function, expected or not.
CallFails(t) ==
    /\ Finish(t, "failed")
    /\ breaker' = OnFailure(breaker)
    /\ metrics' = [metrics EXCEPT !.failed = @ + 1]

\* wait_for gives up on the protected function.
CallTimesOut(t) ==
    /\ Finish(t, "failed")
    /\ breaker' = OnFailure(breaker)
    /\ metrics' = [metrics EXCEPT !.timeout = @ + 1, !.failed = @ + 1]

\* CancelledError is no Exception: no handler of call sees it.
CancelRunning(t) == Finish(t, "abandoned") /\ UNCHANGED <<breaker, metrics>>

CancelWaiting(t) ==
    /\ \E i \in DOMAIN waiters : waiters[i] = t /\ waiters' = RemoveAt(waiters, i)
    /\ op' = [op EXCEPT ![t] = "idle"]
    /\ UNCHANGED <<breaker, metrics, holder, outcome>>

ForceOpen(t) ==
    /\ HasTurn(t, "force_open")
    /\ breaker' = ForcedOpen(breaker)
    /\ Leave(t)
    /\ UNCHANGED <<metrics, holder, outcome>>

ForceClosed(t) ==
    /\ HasTurn(t, "force_closed")
    /\ breaker' = ForcedClosed(breaker)
    /\ Leave(t)
    /\ UNCHANGED <<metrics, holder, outcome>>

ResetMetrics ==
    /\ metrics' = NoMetrics
    /\ UNCHANGED <<breaker, op, waiters, holder, outcome>>

\* The recovery timeout of an open circuit runs out.
RecoveryTimeout ==
    /\ breaker.next_attempt = "waiting"
    /\ breaker' = RecoveryElapsed(breaker)
    /\ UNCHANGED <<metrics, op, waiters, holder, outcome>>

-------------------------------------------------------------------------------
TakeLock(t) == FailFast(t) \/ StartCall(t) \/ ForceOpen(t) \/ ForceClosed(t)

EndCall(t) == CallSucceeds(t) \/ CallFails(t) \/ CallTimesOut(t)

Next ==
    \/ \E t \in Tasks : \/ \E o \in Operations : Request(t, o)
                        \/ TakeLock(t)
                        \/ EndCall(t)
                        \/ CancelRunning(t)
                        \/ CancelWaiting(t)
    \/ ResetMetrics
    \/ RecoveryTimeout

(* The event loop runs a task whose turn has come, and wait_for ends every *)
(* protected call after config.timeout at the latest.                      *)
Fairness == \A t \in Tasks : WF_vars(TakeLock(t)) /\ WF_vars(EndCall(t))

Spec == Init /\ [][Next]_vars

FairSpec == Spec /\ Fairness

-------------------------------------------------------------------------------
(* The lock is held for the whole of a protected call, through every       *)
(* await of call: no overlap with a forced transition or another call can  *)
(* leave a call running behind an open circuit, or a state whose counters  *)
(* say it should have been left already.                                   *)
Consistent ==
    /\ BreakerConsistent(breaker)
    /\ holder # NoTask => breaker.state # "open"

(* A task is known to the lock exactly while it has something to do with   *)
(* it: waiting once, or running, never both, whatever was cancelled.       *)
LockDiscipline ==
    /\ IsInjective(waiters)
    /\ holder \notin Range(waiters)
    /\ \A t \in Tasks : op[t] # "idle" <=> (t = holder \/ t \in Range(waiters))

(* get_status divides these counters by each other.  reset_metrics runs    *)
(* without the lock, so the call in flight is counted when it ends though  *)
(* not when it began: the outcomes may exceed the total, but only by it.   *)
MetricsOverrunByOne ==
    /\ metrics.successful + metrics.failed + metrics.open
         + (IF holder = NoTask THEN 0 ELSE 1) <= metrics.total + 1
    /\ metrics.timeout <= metrics.failed

(* The breaker with its lock, counters and timer does what BreakerSpec     *)
(* says of circuit breakers.                                               *)
Run(b) == IF b.state = "closed" THEN b.failure_count
          ELSE IF b.state = "half_open" THEN b.success_count ELSE 0

Abstract == INSTANCE BreakerSpec
            WITH mode <- breaker.state, run <- Run(breaker),
                 call <- (IF holder = NoTask THEN outcome ELSE "running")

ImplementsBreaker == Abstract!Spec

(* Nobody waits for the breaker forever, though a call holds its lock for  *)
(* as long as the provider takes: neither callers nor forced transitions.  *)
NobodyStarves == \A t \in Tasks : (op[t] # "idle") ~> (op[t] = "idle")
===============================================================================

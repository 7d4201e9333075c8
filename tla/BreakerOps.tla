------------------------------ MODULE BreakerOps ------------------------------
(***************************************************************************)
(* The state transitions of one circuit breaker (core/circuit_breaker.py), *)
(* as operators on a breaker record.  CircuitBreaker builds one lockable   *)
(* breaker from them, ApiGateway one breaker per provider endpoint.        *)
(*                                                                         *)
(* next_attempt abstracts next_attempt_time: "none" is Python's None,      *)
(* "waiting" a time still ahead of the clock, "due" one already reached.   *)
(***************************************************************************)
EXTENDS Integers

CONSTANTS
    FailureThreshold,   \* failures in a row that open a closed circuit
    SuccessThreshold,   \* successes in a row that close a half-open one
    FailureCap          \* where failure_count stops counting (model bound)

ASSUME ThresholdAssumption ==
    /\ FailureThreshold \in Nat \ {0}
    /\ SuccessThreshold \in Nat \ {0}
    /\ FailureCap \in Nat
    /\ FailureCap >= FailureThreshold

CircuitState == {"closed", "open", "half_open"}

Breaker == [state : CircuitState,
            failure_count : 0 .. FailureCap,
            success_count : Nat,
            next_attempt : {"none", "waiting", "due"}]

InitBreaker == [state |-> "closed", failure_count |-> 0,
                success_count |-> 0, next_attempt |-> "none"]

\* failure_count is only ever compared with FailureThreshold, so counting
\* stops at FailureCap: beyond it get_status alone would differ.
CountFailure(n) == IF n < FailureCap THEN n + 1 ELSE n

TransitionToOpen(b) ==
    [b EXCEPT !.state = "open", !.next_attempt = "waiting"]

TransitionToHalfOpen(b) ==
    [b EXCEPT !.state = "half_open", !.success_count = 0]

TransitionToClosed(b) ==
    [b EXCEPT !.state = "closed", !.failure_count = 0,
              !.success_count = 0, !.next_attempt = "none"]

\* Run at the head of every call, with the lock held.
CheckStateTransition(b) ==
    IF b.state = "open" /\ b.next_attempt = "due"
    THEN TransitionToHalfOpen(b) ELSE b

\* Mutant: a success in the closed state does not reset failure_count.
OnSuccess_NoReset(b) ==
    IF b.state = "half_open"
    THEN IF b.success_count + 1 >= SuccessThreshold
         THEN TransitionToClosed(b) ELSE [b EXCEPT !.success_count = @ + 1]
    ELSE b

OnSuccess(b) ==
    IF b.state = "half_open"
    THEN LET counted == [b EXCEPT !.success_count = @ + 1]
         IN  IF counted.success_count >= SuccessThreshold
             THEN TransitionToClosed(counted) ELSE counted
    ELSE [b EXCEPT !.failure_count = 0]

OnFailure(b) ==
    LET counted == [b EXCEPT !.failure_count = CountFailure(@)]
    IN  IF \/ b.state = "half_open"
           \/ b.state = "closed" /\ counted.failure_count >= FailureThreshold
        THEN TransitionToOpen(counted) ELSE counted

ForcedOpen(b) == TransitionToOpen(b)

ForcedClosed(b) == TransitionToClosed(b)

\* The clock passes next_attempt_time.
RecoveryElapsed(b) == [b EXCEPT !.next_attempt = "due"]

(***************************************************************************)
(* What the counters mean in each state.                                   *)
(***************************************************************************)
BreakerConsistent(b) ==
    /\ b.state = "closed" => /\ b.failure_count < FailureThreshold
                             /\ b.next_attempt = "none"
    /\ b.state = "open" => b.next_attempt # "none"
    /\ b.state = "half_open" => b.success_count < SuccessThreshold

===============================================================================

------------------------- MODULE CircuitBreakerProofs -------------------------
(***************************************************************************)
(* What CircuitBreaker guarantees for every set of tasks, every pair of    *)
(* thresholds and every bound.  The inductive invariant is IInv.           *)
(***************************************************************************)
EXTENDS CircuitBreaker, LineLemmas, TLAPS

USE ThresholdAssumption, TasksAssumption DEF ThresholdAssumption, TasksAssumption

-------------------------------------------------------------------------------
(* The transitions of the breaker record keep its type and the meaning of  *)
(* its counters.                                                           *)

LEMMA InitBreakerOK == InitBreaker \in Breaker /\ BreakerConsistent(InitBreaker)
  BY DEF InitBreaker, Breaker, CircuitState, BreakerConsistent

LEMMA TransitionsTyped ==
  ASSUME NEW b \in Breaker
  PROVE  /\ TransitionToOpen(b) \in Breaker
         /\ TransitionToHalfOpen(b) \in Breaker
         /\ TransitionToClosed(b) \in Breaker
<1>1. 0 \in 0 .. FailureCap
  OBVIOUS
<1>2. TransitionToOpen(b) \in Breaker
  BY DEF Breaker, CircuitState, TransitionToOpen
<1>3. TransitionToHalfOpen(b) \in Breaker
  BY DEF Breaker, CircuitState, TransitionToHalfOpen
<1>4. TransitionToClosed(b) \in Breaker
  BY <1>1 DEF Breaker, CircuitState, TransitionToClosed
<1>. QED
  BY <1>2, <1>3, <1>4

LEMMA TransitionsConsistent ==
  ASSUME NEW b \in Breaker
  PROVE  /\ BreakerConsistent(TransitionToOpen(b))
         /\ BreakerConsistent(TransitionToHalfOpen(b))
         /\ BreakerConsistent(TransitionToClosed(b))
<1>1. BreakerConsistent(TransitionToOpen(b))
  BY DEF Breaker, BreakerConsistent, TransitionToOpen
<1>2. BreakerConsistent(TransitionToHalfOpen(b))
  BY DEF Breaker, BreakerConsistent, TransitionToHalfOpen
<1>3. BreakerConsistent(TransitionToClosed(b))
  BY DEF Breaker, BreakerConsistent, TransitionToClosed
<1>. QED
  BY <1>1, <1>2, <1>3

LEMMA CheckOK ==
  ASSUME NEW b \in Breaker, BreakerConsistent(b)
  PROVE  /\ CheckStateTransition(b) \in Breaker
         /\ BreakerConsistent(CheckStateTransition(b))
  BY TransitionsTyped, TransitionsConsistent DEF CheckStateTransition

LEMMA OnSuccessOK ==
  ASSUME NEW b \in Breaker, BreakerConsistent(b)
  PROVE  OnSuccess(b) \in Breaker /\ BreakerConsistent(OnSuccess(b))
<1> DEFINE counted == [b EXCEPT !.success_count = @ + 1]
<1>1. CASE b.state # "half_open"
  BY <1>1 DEF OnSuccess, Breaker, CircuitState, BreakerConsistent
<1>2. CASE b.state = "half_open"
  <2>1. counted \in Breaker
    BY DEF Breaker
  <2>2. CASE counted.success_count >= SuccessThreshold
    BY <1>2, <2>1, <2>2, TransitionsTyped, TransitionsConsistent DEF OnSuccess
  <2>3. CASE ~(counted.success_count >= SuccessThreshold)
    <3>1. OnSuccess(b) = counted
      BY <1>2, <2>3 DEF OnSuccess
    <3>2. counted.state = "half_open"
      BY <1>2 DEF Breaker
    <3>. QED
      BY <2>1, <2>3, <3>1, <3>2 DEF BreakerConsistent, Breaker
  <2>. QED
    BY <2>2, <2>3
<1>. QED
  BY <1>1, <1>2

LEMMA OnFailureOK ==
  ASSUME NEW b \in Breaker, BreakerConsistent(b)
  PROVE  OnFailure(b) \in Breaker /\ BreakerConsistent(OnFailure(b))
<1> DEFINE counted == [b EXCEPT !.failure_count = CountFailure(@)]
           opens == \/ b.state = "half_open"
                    \/ b.state = "closed" /\ counted.failure_count >= FailureThreshold
<1>1. counted \in Breaker
  BY DEF Breaker, CountFailure
<1>2. CASE opens
  BY <1>1, <1>2, TransitionsTyped, TransitionsConsistent DEF OnFailure
<1>3. CASE ~opens
  <2>1. OnFailure(b) = counted
    BY <1>3 DEF OnFailure
  <2>2. counted.state = b.state /\ counted.next_attempt = b.next_attempt
    BY DEF Breaker
  <2>. QED
    BY <1>1, <1>3, <2>1, <2>2 DEF BreakerConsistent, Breaker, CircuitState
<1>. QED
  BY <1>2, <1>3

LEMMA RecoveryOK ==
  ASSUME NEW b \in Breaker, BreakerConsistent(b), b.next_attempt = "waiting"
  PROVE  RecoveryElapsed(b) \in Breaker /\ BreakerConsistent(RecoveryElapsed(b))
  BY DEF RecoveryElapsed, Breaker, CircuitState, BreakerConsistent

LEMMA MetricsTyped ==
  ASSUME NEW m \in Metrics
  PROVE  /\ [m EXCEPT !.total = @ + 1] \in Metrics
         /\ [m EXCEPT !.successful = @ + 1] \in Metrics
         /\ [m EXCEPT !.failed = @ + 1] \in Metrics
         /\ [m EXCEPT !.total = @ + 1, !.open = @ + 1] \in Metrics
         /\ [m EXCEPT !.timeout = @ + 1, !.failed = @ + 1] \in Metrics
<1>1. /\ m.total + 1 \in Nat /\ m.open + 1 \in Nat
      /\ m.timeout + 1 \in Nat /\ m.failed + 1 \in Nat
  BY DEF Metrics
<1>2. /\ [m EXCEPT !.total = @ + 1] \in Metrics
      /\ [m EXCEPT !.successful = @ + 1] \in Metrics
      /\ [m EXCEPT !.failed = @ + 1] \in Metrics
      /\ [m EXCEPT !.timeout = @ + 1] \in Metrics
  BY DEF Metrics
<1>3. [m EXCEPT !.total = @ + 1, !.open = @ + 1] \in Metrics
  BY <1>1, <1>2 DEF Metrics
<1>4. [m EXCEPT !.timeout = @ + 1, !.failed = @ + 1] \in Metrics
  BY <1>1, <1>2 DEF Metrics
<1>. QED
  BY <1>2, <1>3, <1>4

-------------------------------------------------------------------------------
(* The inductive invariant: the type, what the counters mean, who is in    *)
(* line for the lock, and the books of the metrics.                        *)

IInv == TypeOK /\ Consistent /\ LockDiscipline /\ MetricsOverrunByOne

THEOREM InitIInv == Init => IInv
<1>. SUFFICES ASSUME Init PROVE IInv
  OBVIOUS
<1>1. TypeOK /\ Consistent
  BY InitBreakerOK DEF Init, TypeOK, Consistent, Operations, NoMetrics, Metrics
<1>2. LockDiscipline
  BY DEF Init, LockDiscipline, IsInjective, Range
<1>3. MetricsOverrunByOne
  BY DEF Init, MetricsOverrunByOne, NoMetrics
<1>. QED
  BY <1>1, <1>2, <1>3 DEF IInv

(* A step of any task leaves the type and the counters' meaning intact.    *)
LEMMA TypeStep ==
  ASSUME IInv, [Next]_vars
  PROVE  TypeOK' /\ Consistent'
<1>. USE DEF TypeOK, Consistent, Operations
<1>1. ASSUME NEW t \in Tasks, NEW o \in Operations, Request(t, o)
      PROVE  TypeOK' /\ Consistent'
  BY <1>1, AppendProperties DEF Request, IInv
<1>2. ASSUME NEW t \in Tasks, waiters # <<>>
      PROVE  Tail(waiters) \in Seq(Tasks)
  BY <1>2, HeadTailProperties DEF IInv
<1>3. ASSUME NEW t \in Tasks, FailFast(t)
      PROVE  TypeOK' /\ Consistent'
  <2>1. Tail(waiters) \in Seq(Tasks) /\ op' \in [Tasks -> Operations \cup {"idle"}]
    BY <1>2, <1>3 DEF FailFast, HasTurn, Leave, IInv
  <2>2. metrics' \in Metrics
    BY <1>3, MetricsTyped DEF FailFast, IInv
  <2>. QED
    BY <1>3, <2>1, <2>2 DEF FailFast, Leave, IInv
<1>4. ASSUME NEW t \in Tasks, StartCall(t)
      PROVE  TypeOK' /\ Consistent'
  <2>1. waiters' \in Seq(Tasks)
    BY <1>2, <1>4 DEF StartCall, HasTurn
  <2>2. metrics' \in Metrics
    BY <1>4, MetricsTyped DEF StartCall, IInv
  <2>3. breaker' \in Breaker /\ BreakerConsistent(breaker') /\ breaker'.state # "open"
    BY <1>4, CheckOK DEF StartCall, IInv
  <2>. QED
    BY <1>4, <2>1, <2>2, <2>3 DEF StartCall, IInv
<1>5. ASSUME NEW t \in Tasks, CallSucceeds(t)
      PROVE  TypeOK' /\ Consistent'
  BY <1>5, OnSuccessOK, MetricsTyped DEF CallSucceeds, Finish, IInv
<1>6. ASSUME NEW t \in Tasks, CallFails(t) \/ CallTimesOut(t)
      PROVE  TypeOK' /\ Consistent'
  <2>1. metrics' \in Metrics
    BY <1>6, MetricsTyped DEF CallFails, CallTimesOut, IInv
  <2>. QED
    BY <1>6, <2>1, OnFailureOK DEF CallFails, CallTimesOut, Finish, IInv
<1>7. ASSUME NEW t \in Tasks, CancelRunning(t)
      PROVE  TypeOK' /\ Consistent'
  BY <1>7 DEF CancelRunning, Finish, IInv
<1>8. ASSUME NEW t \in Tasks, CancelWaiting(t)
      PROVE  TypeOK' /\ Consistent'
  BY <1>8, RemoveAtSeq, LenProperties DEF CancelWaiting, IInv
<1>9. ASSUME NEW t \in Tasks, ForceOpen(t) \/ ForceClosed(t)
      PROVE  TypeOK' /\ Consistent'
  BY <1>2, <1>9, TransitionsTyped, TransitionsConsistent
     DEF ForceOpen, ForceClosed, ForcedOpen, ForcedClosed, HasTurn, Leave, IInv
<1>10. CASE ResetMetrics
  BY <1>10 DEF ResetMetrics, NoMetrics, Metrics, IInv
<1>11. CASE RecoveryTimeout
  <2>1. RecoveryElapsed(breaker).state = breaker.state
    BY DEF RecoveryElapsed, Breaker, IInv
  <2>. QED
    BY <1>11, <2>1, RecoveryOK DEF RecoveryTimeout, IInv
<1>12. CASE UNCHANGED vars
  BY <1>12 DEF vars, IInv
<1>. QED
  BY <1>1, <1>3, <1>4, <1>5, <1>6, <1>7, <1>8, <1>9, <1>10, <1>11, <1>12
     DEF Next, TakeLock, EndCall

(* Taking the lock, releasing it and giving up on it keep the line exact.  *)
LEMMA LineStep ==
  ASSUME IInv, [Next]_vars
  PROVE  LockDiscipline'
<1>. USE DEF TypeOK, LockDiscipline, IInv
<1>1. ASSUME NEW t \in Tasks, NEW o \in Operations, Request(t, o)
      PROVE  LockDiscipline'
  <2>1. t \notin Range(waiters) /\ t # holder
    BY <1>1 DEF Request
  <2>2. IsInjective(waiters') /\ Range(waiters') = Range(waiters) \cup {t}
    BY <1>1, <2>1, AppendLine DEF Request
  <2>. QED
    BY <1>1, <2>1, <2>2 DEF Request, Operations
<1>2. ASSUME NEW t \in Tasks, NEW o \in Operations, HasTurn(t, o)
      PROVE  /\ t \in Range(waiters)
             /\ IsInjective(Tail(waiters))
             /\ Range(Tail(waiters)) = Range(waiters) \ {t}
  <2>1. Head(waiters) = waiters[1] /\ 1 \in DOMAIN waiters
    BY <1>2, EmptySeq, LenProperties DEF HasTurn
  <2>. QED
    BY <1>2, <2>1, TailLine DEF HasTurn, Range
<1>3. ASSUME NEW t \in Tasks, FailFast(t) \/ ForceOpen(t) \/ ForceClosed(t)
      PROVE  LockDiscipline'
  <2>1. PICK o \in Operations : HasTurn(t, o)
    BY <1>3 DEF FailFast, ForceOpen, ForceClosed, Operations
  <2>2. Leave(t) /\ holder' = holder /\ holder = NoTask
    BY <1>3 DEF FailFast, ForceOpen, ForceClosed, HasTurn
  <2>. QED
    BY <1>2, <2>1, <2>2 DEF Leave
<1>4. ASSUME NEW t \in Tasks, StartCall(t)
      PROVE  LockDiscipline'
  <2>1. HasTurn(t, "call") /\ "call" \in Operations
    BY <1>4 DEF StartCall, Operations
  <2>2. holder = NoTask /\ holder' = t /\ waiters' = Tail(waiters) /\ op' = op
    BY <1>4, <2>1 DEF StartCall, HasTurn
  <2>. QED
    BY <1>2, <2>1, <2>2
<1>5. ASSUME NEW t \in Tasks, NEW how, Finish(t, how)
      PROVE  LockDiscipline'
  BY <1>5, RangeOfSeq DEF Finish
<1>6. ASSUME NEW t \in Tasks, CancelWaiting(t)
      PROVE  LockDiscipline'
  <2>1. PICK i \in DOMAIN waiters : waiters[i] = t /\ waiters' = RemoveAt(waiters, i)
    BY <1>6 DEF CancelWaiting
  <2>2. i \in 1 .. Len(waiters)
    BY LenProperties
  <2>3. IsInjective(waiters') /\ Range(waiters') = Range(waiters) \ {t}
    BY <2>1, <2>2, RemoveAtLine
  <2>4. t \in Range(waiters)
    BY <2>1 DEF Range
  <2>. QED
    BY <1>6, <2>3, <2>4 DEF CancelWaiting
<1>7. CASE ResetMetrics \/ RecoveryTimeout \/ UNCHANGED vars
  BY <1>7 DEF ResetMetrics, RecoveryTimeout, vars
<1>. QED
  BY <1>1, <1>3, <1>4, <1>5, <1>6, <1>7
     DEF Next, TakeLock, EndCall, CallSucceeds, CallFails, CallTimesOut, CancelRunning

(* The books: a call is counted in total when it starts and as one outcome *)
(* when it ends.                                                           *)
LEMMA MetricsStep ==
  ASSUME IInv, [Next]_vars
  PROVE  MetricsOverrunByOne'
<1>. USE DEF TypeOK, Metrics, IInv
<1>1. ASSUME NEW t \in Tasks, FailFast(t)
      PROVE  MetricsOverrunByOne'
  BY <1>1 DEF FailFast, HasTurn, MetricsOverrunByOne
<1>2. ASSUME NEW t \in Tasks, StartCall(t)
      PROVE  MetricsOverrunByOne'
  BY <1>2 DEF StartCall, HasTurn, MetricsOverrunByOne
<1>3. ASSUME NEW t \in Tasks, CallSucceeds(t)
      PROVE  MetricsOverrunByOne'
  BY <1>3 DEF CallSucceeds, Finish, MetricsOverrunByOne
<1>4. ASSUME NEW t \in Tasks, CallFails(t) \/ CallTimesOut(t)
      PROVE  MetricsOverrunByOne'
  <2>1. holder # NoTask /\ holder' = NoTask
    BY <1>4 DEF CallFails, CallTimesOut, Finish
  <2>2. /\ metrics'.failed = metrics.failed + 1
        /\ metrics'.timeout \in {metrics.timeout, metrics.timeout + 1}
        /\ metrics'.total = metrics.total
        /\ metrics'.successful = metrics.successful
        /\ metrics'.open = metrics.open
    BY <1>4 DEF CallFails, CallTimesOut
  <2>. QED
    BY <2>1, <2>2 DEF MetricsOverrunByOne
<1>5. ASSUME NEW t \in Tasks, CancelRunning(t)
      PROVE  MetricsOverrunByOne'
  BY <1>5 DEF CancelRunning, Finish, MetricsOverrunByOne
<1>6. CASE ResetMetrics
  BY <1>6 DEF ResetMetrics, NoMetrics, MetricsOverrunByOne
<1>7. CASE UNCHANGED <<metrics, holder>>
  BY <1>7 DEF MetricsOverrunByOne
<1>. QED
  BY <1>1, <1>2, <1>3, <1>4, <1>5, <1>6, <1>7
     DEF Next, TakeLock, EndCall, Request, ForceOpen, ForceClosed,
         CancelWaiting, RecoveryTimeout, vars

THEOREM NextIInv == IInv /\ [Next]_vars => IInv'
  BY TypeStep, LineStep, MetricsStep DEF IInv

(* Every reachable state of the breaker satisfies the invariant.           *)
THEOREM BreakerInvariant == Spec => []IInv
  BY InitIInv, NextIInv, PTL DEF Spec

(* The variables keep their types.                                         *)
THEOREM TypeCorrect == Spec => []TypeOK
  BY BreakerInvariant, PTL DEF IInv

(* No call runs behind an open circuit, and no state outlives its counter. *)
THEOREM AlwaysConsistent == Spec => []Consistent
  BY BreakerInvariant, PTL DEF IInv

(* Every task with business at the lock is in line once, or holds it.      *)
THEOREM AlwaysLockDiscipline == Spec => []LockDiscipline
  BY BreakerInvariant, PTL DEF IInv

(* The outcomes counted exceed the requests counted by one call at most.   *)
THEOREM AlwaysMetricsOverrunByOne == Spec => []MetricsOverrunByOne
  BY BreakerInvariant, PTL DEF IInv

-------------------------------------------------------------------------------
(* The refinement.  Each lemma says what one operation on the record does  *)
(* to the two abstract variables, the state and the run of outcomes.       *)

LEMMA SuccessRefines ==
  ASSUME NEW b \in Breaker, BreakerConsistent(b), b.state # "open"
  PROVE  \/ /\ b.state = "closed"
            /\ OnSuccess(b).state = "closed" /\ Run(OnSuccess(b)) = 0
         \/ /\ b.state = "half_open" /\ Run(b) + 1 = SuccessThreshold
            /\ OnSuccess(b).state = "closed" /\ Run(OnSuccess(b)) = 0
         \/ /\ b.state = "half_open" /\ Run(b) + 1 # SuccessThreshold
            /\ OnSuccess(b).state = "half_open"
            /\ Run(OnSuccess(b)) = Run(b) + 1
<1> DEFINE counted == [b EXCEPT !.success_count = @ + 1]
<1>1. CASE b.state = "closed"
  <2>1. OnSuccess(b) = [b EXCEPT !.failure_count = 0]
    BY <1>1 DEF OnSuccess
  <2>. QED
    BY <1>1, <2>1 DEF Run, Breaker
<1>2. CASE b.state = "half_open"
  <2>1. /\ Run(b) = b.success_count /\ b.success_count \in Nat
        /\ b.success_count < SuccessThreshold
    BY <1>2 DEF Run, Breaker, BreakerConsistent
  <2>2. counted.success_count = b.success_count + 1 /\ counted.state = "half_open"
    BY <1>2 DEF Breaker
  <2>3. CASE b.success_count + 1 = SuccessThreshold
    <3>1. OnSuccess(b) = TransitionToClosed(counted)
      BY <1>2, <2>1, <2>2, <2>3 DEF OnSuccess
    <3>2. /\ TransitionToClosed(counted).state = "closed"
          /\ TransitionToClosed(counted).failure_count = 0
      BY DEF TransitionToClosed, Breaker
    <3>. QED
      BY <1>2, <2>1, <2>3, <3>1, <3>2 DEF Run
  <2>4. CASE b.success_count + 1 # SuccessThreshold
    <3>1. ~(counted.success_count >= SuccessThreshold)
      BY <2>1, <2>2, <2>4
    <3>2. OnSuccess(b) = counted
      BY <1>2, <3>1 DEF OnSuccess
    <3>. QED
      BY <1>2, <2>1, <2>2, <2>4, <3>2 DEF Run
  <2>. QED
    BY <2>3, <2>4
<1>. QED
  BY <1>1, <1>2 DEF Breaker, CircuitState

LEMMA FailureRefines ==
  ASSUME NEW b \in Breaker, BreakerConsistent(b), b.state # "open"
  PROVE  \/ /\ b.state = "half_open"
            /\ OnFailure(b).state = "open" /\ Run(OnFailure(b)) = 0
         \/ /\ b.state = "closed" /\ Run(b) + 1 = FailureThreshold
            /\ OnFailure(b).state = "open" /\ Run(OnFailure(b)) = 0
         \/ /\ b.state = "closed" /\ Run(b) + 1 # FailureThreshold
            /\ OnFailure(b).state = "closed"
            /\ Run(OnFailure(b)) = Run(b) + 1
<1> DEFINE counted == [b EXCEPT !.failure_count = CountFailure(@)]
<1>1. TransitionToOpen(counted).state = "open"
  BY DEF TransitionToOpen, Breaker
<1>2. CASE b.state = "half_open"
  <2>1. OnFailure(b) = TransitionToOpen(counted)
    BY <1>2 DEF OnFailure
  <2>. QED
    BY <1>1, <1>2, <2>1 DEF Run
<1>3. CASE b.state = "closed"
  <2>1. /\ Run(b) = b.failure_count /\ b.failure_count \in Nat
        /\ b.failure_count < FailureThreshold
    BY <1>3 DEF Run, Breaker, BreakerConsistent
  <2>2. counted.failure_count = b.failure_count + 1 /\ counted.state = "closed"
    BY <1>3, <2>1 DEF Breaker, CountFailure
  <2>3. CASE b.failure_count + 1 = FailureThreshold
    <3>1. counted.failure_count >= FailureThreshold
      BY <2>1, <2>2, <2>3
    <3>2. OnFailure(b) = TransitionToOpen(counted)
      BY <1>3, <3>1 DEF OnFailure
    <3>. QED
      BY <1>1, <1>3, <2>1, <2>3, <3>2 DEF Run
  <2>4. CASE b.failure_count + 1 # FailureThreshold
    <3>1. ~(counted.failure_count >= FailureThreshold)
      BY <2>1, <2>2, <2>4
    <3>2. OnFailure(b) = counted
      BY <1>3, <3>1 DEF OnFailure
    <3>. QED
      BY <1>3, <2>1, <2>2, <2>4, <3>2 DEF Run
  <2>. QED
    BY <2>3, <2>4
<1>. QED
  BY <1>2, <1>3 DEF Breaker, CircuitState

LEMMA CheckRefines ==
  ASSUME NEW b \in Breaker, CheckStateTransition(b).state # "open"
  PROVE  \/ /\ b.state = "open"
            /\ CheckStateTransition(b).state = "half_open"
            /\ Run(CheckStateTransition(b)) = 0
         \/ b.state # "open" /\ CheckStateTransition(b) = b
  BY DEF CheckStateTransition, TransitionToHalfOpen, Run, Breaker

LEMMA ForcedRefines ==
  ASSUME NEW b \in Breaker
  PROVE  /\ ForcedOpen(b).state = "open" /\ Run(ForcedOpen(b)) = 0
         /\ ForcedClosed(b).state = "closed" /\ Run(ForcedClosed(b)) = 0
  BY DEF ForcedOpen, ForcedClosed, TransitionToOpen, TransitionToClosed, Run, Breaker

LEMMA RecoveryRefines ==
  ASSUME NEW b \in Breaker
  PROVE  RecoveryElapsed(b).state = b.state /\ Run(RecoveryElapsed(b)) = Run(b)
  BY DEF RecoveryElapsed, Run, Breaker

LEMMA StepRefines ==
  ASSUME IInv, [Next]_vars
  PROVE  [Abstract!Next]_(Abstract!bvars)
<1>. USE DEF TypeOK, Consistent, IInv
<1>1. ASSUME NEW t \in Tasks, StartCall(t)
      PROVE  Abstract!Begin
  BY <1>1, CheckRefines DEF StartCall, HasTurn, Abstract!Begin
<1>2. ASSUME NEW t \in Tasks, CallSucceeds(t)
      PROVE  Abstract!Succeed
  BY <1>2, SuccessRefines DEF CallSucceeds, Finish, Abstract!Succeed, Abstract!Ends
<1>3. ASSUME NEW t \in Tasks, CallFails(t) \/ CallTimesOut(t)
      PROVE  Abstract!Fail
  BY <1>3, FailureRefines DEF CallFails, CallTimesOut, Finish, Abstract!Fail, Abstract!Ends
<1>4. ASSUME NEW t \in Tasks, CancelRunning(t)
      PROVE  Abstract!Abandon
  BY <1>4 DEF CancelRunning, Finish, Abstract!Abandon, Abstract!Ends
<1>5. ASSUME NEW t \in Tasks, ForceOpen(t) \/ ForceClosed(t)
      PROVE  Abstract!Override
  BY <1>5, ForcedRefines DEF ForceOpen, ForceClosed, HasTurn, Abstract!Override
<1>6. CASE RecoveryTimeout
  BY <1>6, RecoveryRefines DEF RecoveryTimeout, Abstract!bvars
<1>7. CASE UNCHANGED <<breaker, holder, outcome>>
  BY <1>7 DEF Abstract!bvars
<1>. QED
  BY <1>1, <1>2, <1>3, <1>4, <1>5, <1>6, <1>7
     DEF Next, TakeLock, EndCall, Request, FailFast, CancelWaiting,
         ResetMetrics, vars, Abstract!Next

(* The breaker of the code implements the abstract circuit breaker.        *)
THEOREM Refinement == Spec => ImplementsBreaker
<1>1. Init => Abstract!Init
  BY DEF Init, Abstract!Init, InitBreaker, Run
<1>2. IInv /\ [Next]_vars => [Abstract!Next]_(Abstract!bvars)
  BY StepRefines
<1>. QED
  BY <1>1, <1>2, BreakerInvariant, PTL DEF Spec, Abstract!Spec, ImplementsBreaker

===============================================================================

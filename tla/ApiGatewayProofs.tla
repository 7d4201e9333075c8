--------------------------- MODULE ApiGatewayProofs ---------------------------
(***************************************************************************)
(* Proofs about ApiGateway, for any clients, endpoints, retries and        *)
(* thresholds.                                                             *)
(***************************************************************************)
EXTENDS ApiGateway, LineLemmas

\* A call runs only behind a circuit that is not open, until it ends.
NotOpen == \A c \in Clients : pc[c] = "running" => breaker[target[c]].state # "open"

\* The provider acts at most once in an attempt, and a backoff is followed by
\* one more.
Accounted ==
    \A c \in Clients :
      /\ pc[c] \in {"waiting", "running"} => delivered[c] <= attempt[c]
      /\ pc[c] = "backoff" => delivered[c] <= attempt[c] + 1 /\ attempt[c] < MaxRetries

\* The inductive invariant.
IInv == TypeOK /\ LockDiscipline /\ NotOpen /\ Accounted

-------------------------------------------------------------------------------
(* The breakers and the selection                                          *)

LEMMA BreakerTypes ==
    ASSUME NEW b \in Breaker
    PROVE  /\ InitBreaker \in Breaker
           /\ CheckStateTransition(b) \in Breaker
           /\ OnSuccess(b) \in Breaker /\ OnFailure(b) \in Breaker
           /\ RecoveryElapsed(b) \in Breaker /\ RecoveryElapsed(b).state = b.state
<1> USE ThresholdAssumption DEF ThresholdAssumption
<1>1. 0 \in 0 .. FailureCap /\ \A n \in 0 .. FailureCap : CountFailure(n) \in 0 .. FailureCap
  BY DEF CountFailure
<1>2. InitBreaker \in Breaker
  BY <1>1 DEF InitBreaker, Breaker, CircuitState
<1>3. ASSUME NEW d \in Breaker
      PROVE  /\ TransitionToOpen(d) \in Breaker /\ TransitionToHalfOpen(d) \in Breaker
             /\ TransitionToClosed(d) \in Breaker
  BY <1>1 DEF TransitionToOpen, TransitionToHalfOpen, TransitionToClosed, Breaker, CircuitState
<1>4. CheckStateTransition(b) \in Breaker
  BY <1>3 DEF CheckStateTransition
<1>5. OnSuccess(b) \in Breaker
  <2>1. [b EXCEPT !.success_count = @ + 1] \in Breaker /\ [b EXCEPT !.failure_count = 0] \in Breaker
    BY <1>1 DEF Breaker
  <2> QED
    BY <1>3, <2>1 DEF OnSuccess
<1>6. OnFailure(b) \in Breaker
  <2>1. [b EXCEPT !.failure_count = CountFailure(@)] \in Breaker
    BY <1>1 DEF Breaker
  <2> QED
    BY <1>3, <2>1 DEF OnFailure
<1>7. RecoveryElapsed(b) \in Breaker /\ RecoveryElapsed(b).state = b.state
  BY DEF RecoveryElapsed, Breaker
<1> QED
  BY <1>2, <1>4, <1>5, <1>6, <1>7

\* What is selected is available.
LEMMA SelectFacts ==
    ASSUME Available # {}
    PROVE  SelectEndpoint \in Available
<1>1. Available \subseteq Nat
  BY GatewayAssumption DEF Available, Endpoints
<1>2. \E e \in Available : \A f \in Available : e <= f
  BY <1>1, LeastNumber
<1> QED
  BY <1>2 DEF SelectEndpoint

-------------------------------------------------------------------------------
(* What a step does to one breaker and its lock.                           *)

\* The client steps in line, out of it, into the call or out of the call.
Joins(c, e) ==
    /\ pc[c] \in {"idle", "backoff"} /\ pc'[c] = "waiting" /\ target'[c] = e
    /\ waiters' = [waiters EXCEPT ![e] = Append(@, c)]
    /\ UNCHANGED <<breaker, holder, outcome>>

LeavesLine(c) ==
    /\ pc[c] = "waiting" /\ pc'[c] \in {"idle", "backoff"}
    /\ \E i \in DOMAIN waiters[target[c]] :
         /\ waiters[target[c]][i] = c
         /\ \/ waiters' = [waiters EXCEPT ![target[c]] = RemoveAt(@, i)]
            \/ i = 1 /\ waiters' = [waiters EXCEPT ![target[c]] = Tail(@)]
    /\ UNCHANGED <<breaker, holder, outcome, target>>

EndsCall(c) ==
    /\ pc[c] = "running" /\ pc'[c] \in {"idle", "backoff"}
    /\ holder' = [holder EXCEPT ![target[c]] = NoClient]
    /\ breaker' \in {breaker, [breaker EXCEPT ![target[c]] = OnSuccess(@)],
                     [breaker EXCEPT ![target[c]] = OnFailure(@)]}
    /\ UNCHANGED <<waiters, target>>

StaysAway(c) ==
    /\ pc[c] \in {"idle", "backoff"} /\ pc'[c] \in {"idle", "backoff"}
    /\ pc[c] = "idle" => pc'[c] = "idle"
    /\ UNCHANGED <<breaker, locks, target>>

Others(c) == \A d \in Clients \ {c} : pc'[d] = pc[d] /\ target'[d] = target[d]

ClientStep(c) == Submit(c) \/ TakeLock(c) \/ EndCall(c) \/ Retry(c) \/ Cancel(c)

\* The first in line is at place 1.
LEMMA TurnFacts ==
    ASSUME TypeOK, LockDiscipline, NEW c \in Clients, HasTurn(c)
    PROVE  /\ target[c] \in Endpoints /\ waiters[target[c]] \in Seq(Clients)
           /\ waiters[target[c]] # <<>>
           /\ 1 \in DOMAIN waiters[target[c]] /\ waiters[target[c]][1] = c
<1>1. target[c] \in Endpoints /\ waiters[target[c]] \in Seq(Clients)
  BY DEF TypeOK
<1>2. c \in Range(waiters[target[c]])
  BY <1>1 DEF LockDiscipline, HasTurn
<1>3. waiters[target[c]] # <<>>
  BY <1>2, EmptySeq DEF Range
<1>4. Head(waiters[target[c]]) = waiters[target[c]][1] /\ 1 \in DOMAIN waiters[target[c]]
  BY <1>1, <1>3, EmptySeq, LenProperties
<1> QED
  BY <1>1, <1>3, <1>4 DEF HasTurn

LEMMA Effects ==
    ASSUME TypeOK, LockDiscipline, NEW c \in Clients, ClientStep(c)
    PROVE  /\ Others(c)
           /\ \/ \E e \in Available : pc[c] = "idle" /\ Joins(c, e)
              \/ pc[c] = "backoff" /\ target' = target /\ Joins(c, target[c])
              \/ LeavesLine(c) \/ StartCall(c) \/ EndsCall(c) \/ StaysAway(c)
<1>0. /\ pc \in [Clients -> {"idle", "waiting", "running", "backoff"}]
      /\ target \in [Clients -> Endpoints] /\ waiters \in [Endpoints -> Seq(Clients)]
  BY DEF TypeOK
<1>1. ASSUME NEW a, Answer(c, a)
      PROVE  pc'[c] = "idle" /\ \A d \in Clients \ {c} : pc'[d] = pc[d]
  BY <1>0, <1>1 DEF Answer
<1>2. ASSUME AttemptFailed(c)
      PROVE  pc'[c] \in {"idle", "backoff"} /\ \A d \in Clients \ {c} : pc'[d] = pc[d]
  BY <1>0, <1>1, <1>2 DEF AttemptFailed
<1>3. CASE RateLimited(c) \/ NoEndpoint(c)
  BY <1>1, <1>3 DEF RateLimited, NoEndpoint, Fresh, Others, StaysAway
<1>4. CASE Admit(c)
  <2>1. SelectEndpoint \in Available
    BY <1>4, SelectFacts DEF Admit
  <2>2. SelectEndpoint \in Endpoints
    BY <2>1 DEF Available
  <2> QED
    BY <1>0, <1>4, <2>1, <2>2 DEF Admit, Fresh, Enqueue, Joins, Others
<1>5. CASE Retry(c)
  BY <1>0, <1>5 DEF Retry, Enqueue, Joins, Others
<1>6. CASE FailFast(c)
  <2>1. LeavesLine(c)
    BY <1>2, <1>6, TurnFacts DEF FailFast, HasTurn, LeavesLine
  <2> QED
    BY <1>2, <1>6, <2>1 DEF FailFast, Others
<1>7. CASE StartCall(c)
  BY <1>0, <1>7 DEF StartCall, Others
<1>8. CASE Respond(c) \/ CallRaises(c)
  BY <1>1, <1>2, <1>8 DEF Respond, CallRaises, Release, EndsCall, Others
<1>9. CASE Cancel(c)
  <2>1. pc'[c] = "idle" /\ \A d \in Clients \ {c} : pc'[d] = pc[d]
    BY <1>1, <1>9 DEF Cancel
  <2>2. CASE CancelWaiting(c)
    BY <1>9, <2>1, <2>2 DEF Cancel, CancelWaiting, LeavesLine, Others
  <2>3. CASE CancelRunning(c)
    BY <1>9, <2>1, <2>3 DEF Cancel, CancelRunning, Release, EndsCall, Others
  <2>4. CASE CancelBackoff(c)
    BY <1>9, <2>1, <2>4 DEF Cancel, CancelBackoff, StaysAway, Others
  <2> QED
    BY <1>9, <2>2, <2>3, <2>4 DEF Cancel
<1> QED
  BY <1>3, <1>4, <1>5, <1>6, <1>7, <1>8, <1>9 DEF ClientStep, Submit, TakeLock, EndCall

LEMMA NextCases ==
    ASSUME [Next]_vars
    PROVE  \/ \E c \in Clients : ClientStep(c)
           \/ \E e \in Endpoints : RecoveryTimeout(e)
           \/ UNCHANGED vars
  BY DEF Next, ClientStep

-------------------------------------------------------------------------------
(* Types                                                                   *)

LEMMA ClientTypes ==
    ASSUME IInv, NEW c \in Clients, ClientStep(c)
    PROVE  /\ pc' \in [Clients -> {"idle", "waiting", "running", "backoff"}]
           /\ attempt' \in [Clients -> 0 .. MaxRetries]
           /\ answer' \in [Clients -> Answers]
           /\ delivered' \in [Clients -> 0 .. MaxRetries + 1]
           /\ Accounted'
<1> DEFINE Phases == {"idle", "waiting", "running", "backoff"}
           Typed == /\ pc' \in [Clients -> Phases] /\ answer' \in [Clients -> Answers]
                    /\ attempt' \in [Clients -> 0 .. MaxRetries]
                    /\ delivered' \in [Clients -> 0 .. MaxRetries + 1]
<1>0. /\ pc \in [Clients -> Phases] /\ answer \in [Clients -> Answers]
      /\ attempt \in [Clients -> 0 .. MaxRetries]
      /\ delivered \in [Clients -> 0 .. MaxRetries + 1]
      /\ MaxRetries \in Nat /\ Accounted
  BY GatewayAssumption DEF IInv, TypeOK
<1>1. {"none", "ok", "rejected", "limited", "unavailable", "failed", "cancelled"} = Answers
  BY DEF Answers
<1>2. ASSUME NEW a \in Answers, Answer(c, a)
      PROVE  /\ pc' \in [Clients -> Phases] /\ answer' \in [Clients -> Answers]
             /\ pc'[c] = "idle" /\ \A d \in Clients \ {c} : pc'[d] = pc[d]
  BY <1>0, <1>2 DEF Answer
<1>3. ASSUME AttemptFailed(c)
      PROVE  /\ pc' \in [Clients -> Phases] /\ answer' \in [Clients -> Answers]
             /\ pc'[c] = "idle" \/ (pc'[c] = "backoff" /\ attempt[c] < MaxRetries)
             /\ \A d \in Clients \ {c} : pc'[d] = pc[d]
  BY <1>0, <1>1, <1>2, <1>3 DEF AttemptFailed
<1>4. ASSUME Fresh(c)
      PROVE  /\ attempt' \in [Clients -> 0 .. MaxRetries]
             /\ delivered' \in [Clients -> 0 .. MaxRetries + 1]
             /\ attempt'[c] = 0 /\ delivered'[c] = 0
             /\ \A d \in Clients \ {c} : attempt'[d] = attempt[d] /\ delivered'[d] = delivered[d]
  BY <1>0, <1>4 DEF Fresh
<1>5. ASSUME NEW e, Enqueue(c, e)
      PROVE  /\ pc' \in [Clients -> Phases] /\ pc'[c] = "waiting"
             /\ \A d \in Clients \ {c} : pc'[d] = pc[d]
  BY <1>0, <1>5 DEF Enqueue
<1>6. ASSUME pc[c] \in {"running", "waiting"}, Deliver(c) \/ UNCHANGED delivered
      PROVE  /\ delivered' \in [Clients -> 0 .. MaxRetries + 1]
             /\ delivered'[c] <= attempt[c] + 1
             /\ \A d \in Clients \ {c} : delivered'[d] = delivered[d]
  <2>1. delivered[c] <= attempt[c] /\ attempt[c] \in 0 .. MaxRetries /\ delivered[c] \in 0 .. MaxRetries + 1
    BY <1>0, <1>6 DEF Accounted
  <2>2. delivered[c] + 1 \in 0 .. MaxRetries + 1
    BY <1>0, <2>1
  <2>3. CASE UNCHANGED delivered
    BY <1>0, <2>1, <2>3
  <2>4. CASE Deliver(c)
    BY <1>0, <2>1, <2>2, <2>4 DEF Deliver
  <2> QED
    BY <1>6, <2>3, <2>4
<1>7. CASE RateLimited(c) \/ NoEndpoint(c)
  BY <1>0, <1>1, <1>2, <1>4, <1>7 DEF RateLimited, NoEndpoint, Accounted
<1>8. CASE Admit(c)
  <2>1. answer' \in [Clients -> Answers]
    BY <1>0, <1>1, <1>8 DEF Admit
  <2> QED
    BY <1>0, <1>4, <1>5, <1>8, <2>1 DEF Admit, Accounted
<1>9. CASE Retry(c)
  <2>1. attempt[c] + 1 \in 0 .. MaxRetries /\ delivered[c] <= attempt[c] + 1
    BY <1>0, <1>9 DEF Retry, Accounted
  <2>2. /\ attempt' \in [Clients -> 0 .. MaxRetries] /\ attempt'[c] = attempt[c] + 1
        /\ \A d \in Clients \ {c} : attempt'[d] = attempt[d]
    BY <1>0, <1>9, <2>1 DEF Retry
  <2> QED
    BY <1>0, <1>5, <1>9, <2>1, <2>2 DEF Retry, Accounted
<1>10. CASE FailFast(c)
  <2>1. pc[c] = "waiting" /\ UNCHANGED <<attempt, delivered>> /\ AttemptFailed(c)
    BY <1>10 DEF FailFast, HasTurn
  <2> QED
    BY <1>0, <1>3, <2>1 DEF Accounted
<1>11. CASE StartCall(c)
  <2>1. pc[c] = "waiting" /\ pc' = [pc EXCEPT ![c] = "running"] /\ UNCHANGED <<attempt, delivered, answer>>
    BY <1>11 DEF StartCall, HasTurn
  <2> QED
    BY <1>0, <2>1 DEF Accounted
<1>12. CASE Respond(c) \/ CallRaises(c)
  <2>1. /\ pc[c] = "running" /\ attempt' = attempt /\ (Deliver(c) \/ UNCHANGED delivered)
        /\ AttemptFailed(c) \/ \E a \in Answers : Answer(c, a)
    BY <1>1, <1>12 DEF Respond, CallRaises, Release
  <2> QED
    BY <1>0, <1>2, <1>3, <1>6, <2>1 DEF Accounted
<1>13. CASE Cancel(c)
  <2>1. Answer(c, "cancelled") /\ attempt' = attempt
    BY <1>13 DEF Cancel, CancelWaiting, CancelRunning, CancelBackoff, Release
  <2>2. UNCHANGED delivered \/ (pc[c] = "running" /\ Deliver(c))
    BY <1>13 DEF Cancel, CancelWaiting, CancelRunning, CancelBackoff, Release
  <2> QED
    BY <1>0, <1>1, <1>2, <1>6, <2>1, <2>2 DEF Accounted
<1> QED
  BY <1>7, <1>8, <1>9, <1>10, <1>11, <1>12, <1>13 DEF ClientStep, Submit, TakeLock, EndCall

LEMMA LockTypes ==
    ASSUME IInv, NEW c \in Clients, ClientStep(c)
    PROVE  /\ breaker' \in [Endpoints -> Breaker]
           /\ waiters' \in [Endpoints -> Seq(Clients)]
           /\ holder' \in [Endpoints -> Clients \cup {NoClient}]
           /\ outcome' \in [Endpoints -> {"none", "succeeded", "failed", "abandoned"}]
           /\ target' \in [Clients -> Endpoints]
<1>0. /\ TypeOK /\ LockDiscipline
      /\ breaker \in [Endpoints -> Breaker] /\ waiters \in [Endpoints -> Seq(Clients)]
      /\ holder \in [Endpoints -> Clients \cup {NoClient}]
      /\ outcome \in [Endpoints -> {"none", "succeeded", "failed", "abandoned"}]
      /\ target \in [Clients -> Endpoints] /\ target[c] \in Endpoints
  BY DEF IInv, TypeOK
<1>1. outcome' \in [Endpoints -> {"none", "succeeded", "failed", "abandoned"}]
  <2>1. \/ UNCHANGED outcome
        \/ \E how \in {"succeeded", "failed", "abandoned"} : outcome' = [outcome EXCEPT ![target[c]] = how]
    BY DEF ClientStep, Submit, RateLimited, NoEndpoint, Admit, TakeLock, FailFast, StartCall, EndCall,
           Respond, CallRaises, Retry, Release, Cancel, CancelWaiting, CancelRunning, CancelBackoff, locks
  <2> QED
    BY <1>0, <2>1
<1>2. target' \in [Clients -> Endpoints]
  <2>1. UNCHANGED target \/ (Available # {} /\ target' = [target EXCEPT ![c] = SelectEndpoint])
    BY DEF ClientStep, Submit, RateLimited, NoEndpoint, Admit, TakeLock, FailFast, StartCall, EndCall,
           Respond, CallRaises, Retry, Release, Cancel, CancelWaiting, CancelRunning, CancelBackoff
  <2>2. Available # {} => SelectEndpoint \in Endpoints
    BY SelectFacts DEF Available
  <2> QED
    BY <1>0, <2>1, <2>2
<1>3. ASSUME NEW e \in Endpoints, Joins(c, e)
      PROVE  /\ breaker' = breaker /\ holder' = holder
             /\ waiters' \in [Endpoints -> Seq(Clients)]
  BY <1>0, <1>3, AppendProperties DEF Joins
<1>4. CASE LeavesLine(c)
  <2>1. PICK i \in DOMAIN waiters[target[c]] :
          \/ waiters' = [waiters EXCEPT ![target[c]] = RemoveAt(@, i)]
          \/ i = 1 /\ waiters' = [waiters EXCEPT ![target[c]] = Tail(@)]
    BY <1>4 DEF LeavesLine
  <2>2. waiters[target[c]] \in Seq(Clients) /\ i \in 1 .. Len(waiters[target[c]])
    BY <1>0, LenProperties
  <2>3. RemoveAt(waiters[target[c]], i) \in Seq(Clients)
    BY <2>2, RemoveAtSeq
  <2>4. waiters[target[c]] # <<>>
    BY <2>2, EmptySeq
  <2>5. Tail(waiters[target[c]]) \in Seq(Clients)
    BY <2>2, <2>4, HeadTailProperties
  <2>6. waiters' \in [Endpoints -> Seq(Clients)]
    BY <1>0, <2>1, <2>3, <2>5
  <2> QED
    BY <1>0, <1>1, <1>2, <1>4, <2>6 DEF LeavesLine
<1>5. CASE StartCall(c)
  <2>1. /\ waiters[target[c]] \in Seq(Clients) /\ waiters[target[c]] # <<>>
    BY <1>0, <1>5, TurnFacts DEF StartCall
  <2>2. Tail(waiters[target[c]]) \in Seq(Clients) /\ CheckStateTransition(breaker[target[c]]) \in Breaker
    BY <1>0, <2>1, HeadTailProperties, BreakerTypes
  <2> QED
    BY <1>0, <1>1, <1>2, <1>5, <2>2 DEF StartCall
<1>6. CASE EndsCall(c)
  <2>1. OnSuccess(breaker[target[c]]) \in Breaker /\ OnFailure(breaker[target[c]]) \in Breaker
    BY <1>0, BreakerTypes
  <2>2. breaker' \in [Endpoints -> Breaker]
    BY <1>0, <1>6, <2>1 DEF EndsCall
  <2>3. holder' \in [Endpoints -> Clients \cup {NoClient}] /\ waiters' = waiters
    BY <1>0, <1>6 DEF EndsCall
  <2> QED
    BY <1>0, <1>1, <1>2, <2>2, <2>3
<1>7. CASE StaysAway(c)
  BY <1>0, <1>7 DEF StaysAway, locks
<1>8. CASE \E e \in Endpoints : Joins(c, e)
  BY <1>0, <1>1, <1>2, <1>3, <1>8
<1>9. \A e \in Available : e \in Endpoints
  BY DEF Available
<1>10. \/ \E e \in Endpoints : Joins(c, e)
       \/ LeavesLine(c) \/ StartCall(c) \/ EndsCall(c) \/ StaysAway(c)
  BY <1>0, <1>9, Effects
<1> QED
  BY <1>4, <1>5, <1>6, <1>7, <1>8, <1>10

LEMMA TypeStep ==
    ASSUME IInv, [Next]_vars
    PROVE  TypeOK' /\ Accounted'
<1>1. ASSUME NEW c \in Clients, ClientStep(c)
      PROVE  TypeOK' /\ Accounted'
  BY <1>1, ClientTypes, LockTypes DEF TypeOK
<1>2. ASSUME NEW e \in Endpoints, RecoveryTimeout(e)
      PROVE  TypeOK' /\ Accounted'
  <2>1. breaker' \in [Endpoints -> Breaker]
    BY <1>2, BreakerTypes DEF RecoveryTimeout, IInv, TypeOK
  <2>2. UNCHANGED <<waiters, holder, outcome, pc, target, attempt, answer, delivered>>
    BY <1>2 DEF RecoveryTimeout, locks
  <2> QED
    BY <2>1, <2>2 DEF IInv, TypeOK, Accounted
<1>3. CASE UNCHANGED vars
  <2>1. UNCHANGED <<breaker, waiters, holder, outcome, pc, target, attempt, answer, delivered>>
    BY <1>3 DEF vars, locks
  <2> QED
    BY <2>1 DEF IInv, TypeOK, Accounted
<1> QED
  BY <1>1, <1>2, <1>3, NextCases

-------------------------------------------------------------------------------
(* The locks                                                               *)

\* LockDiscipline at one endpoint.
ExactAt(e) ==
    /\ IsInjective(waiters[e])
    /\ Range(waiters[e]) = {c \in Clients : pc[c] = "waiting" /\ target[c] = e}
    /\ {c \in Clients : pc[c] = "running" /\ target[c] = e} = {holder[e]} \ {NoClient}

LEMMA JoinExact ==
    ASSUME IInv, NEW c \in Clients, NEW f \in Endpoints, Joins(c, f), Others(c), NEW e \in Endpoints
    PROVE  ExactAt(e)'
<1>0. /\ ExactAt(e) /\ ExactAt(f) /\ waiters \in [Endpoints -> Seq(Clients)]
      /\ pc[c] \notin {"waiting", "running"} /\ pc'[c] = "waiting" /\ target'[c] = f
      /\ \A d \in Clients \ {c} : pc'[d] = pc[d] /\ target'[d] = target[d]
      /\ holder' = holder
  BY DEF IInv, TypeOK, LockDiscipline, ExactAt, Joins, Others
<1>1. {d \in Clients : pc'[d] = "running" /\ target'[d] = e} = {holder'[e]} \ {NoClient}
  BY <1>0 DEF ExactAt
<1>2. CASE e = f
  <2>1. c \notin Range(waiters[f]) /\ waiters'[f] = Append(waiters[f], c) /\ waiters[f] \in Seq(Clients)
    BY <1>0 DEF ExactAt, Joins
  <2>2. IsInjective(waiters'[f]) /\ Range(waiters'[f]) = Range(waiters[f]) \cup {c}
    BY <1>0, <2>1, AppendLine DEF ExactAt
  <2> QED
    BY <1>0, <1>1, <1>2, <2>2 DEF ExactAt
<1>3. CASE e # f
  <2>1. waiters'[e] = waiters[e]
    BY <1>0, <1>3 DEF Joins
  <2> QED
    BY <1>0, <1>1, <1>3, <2>1 DEF ExactAt
<1> QED
  BY <1>2, <1>3

LEMMA LeaveExact ==
    ASSUME IInv, NEW c \in Clients, LeavesLine(c), Others(c), NEW e \in Endpoints
    PROVE  ExactAt(e)'
<1>0. /\ ExactAt(e) /\ waiters \in [Endpoints -> Seq(Clients)] /\ target[c] \in Endpoints
      /\ pc[c] = "waiting" /\ pc'[c] \notin {"waiting", "running"}
      /\ \A d \in Clients \ {c} : pc'[d] = pc[d]
      /\ holder' = holder /\ target' = target
  BY DEF IInv, TypeOK, LockDiscipline, ExactAt, LeavesLine, Others
<1>1. {d \in Clients : pc'[d] = "running" /\ target'[d] = e} = {holder'[e]} \ {NoClient}
  BY <1>0 DEF ExactAt
<1>2. CASE e = target[c]
  <2>1. PICK i \in DOMAIN waiters[e] :
          /\ waiters[e][i] = c
          /\ waiters'[e] = RemoveAt(waiters[e], i) \/ (i = 1 /\ waiters'[e] = Tail(waiters[e]))
    BY <1>0, <1>2 DEF LeavesLine
  <2>2. waiters[e] \in Seq(Clients) /\ i \in 1 .. Len(waiters[e]) /\ waiters[e] # <<>>
    BY <1>0, LenProperties, EmptySeq
  <2>3. /\ IsInjective(RemoveAt(waiters[e], i))
        /\ Range(RemoveAt(waiters[e], i)) = Range(waiters[e]) \ {c}
    BY <1>0, <2>1, <2>2, RemoveAtLine DEF ExactAt
  <2>4. i = 1 => /\ IsInjective(Tail(waiters[e]))
                 /\ Range(Tail(waiters[e])) = Range(waiters[e]) \ {c}
    <3>1. Head(waiters[e]) = waiters[e][1]
      BY <2>2
    <3>2. IsInjective(Tail(waiters[e])) /\ Range(Tail(waiters[e])) = Range(waiters[e]) \ {Head(waiters[e])}
      BY <1>0, <2>2, TailLine DEF ExactAt
    <3> QED
      BY <2>1, <3>1, <3>2
  <2>5. IsInjective(waiters'[e]) /\ Range(waiters'[e]) = Range(waiters[e]) \ {c}
    BY <2>1, <2>3, <2>4
  <2> QED
    BY <1>0, <1>1, <1>2, <2>5 DEF ExactAt
<1>3. CASE e # target[c]
  <2>1. waiters'[e] = waiters[e]
    BY <1>0, <1>3 DEF LeavesLine
  <2> QED
    BY <1>0, <1>1, <1>3, <2>1 DEF ExactAt
<1> QED
  BY <1>2, <1>3

LEMMA StartExact ==
    ASSUME IInv, NEW c \in Clients, StartCall(c), Others(c), NEW e \in Endpoints
    PROVE  ExactAt(e)'
<1>0. /\ ExactAt(e) /\ waiters \in [Endpoints -> Seq(Clients)] /\ target[c] \in Endpoints
      /\ holder \in [Endpoints -> Clients \cup {NoClient}]
      /\ pc[c] = "waiting" /\ pc'[c] = "running" /\ target' = target /\ holder[target[c]] = NoClient
      /\ waiters' = [waiters EXCEPT ![target[c]] = Tail(@)]
      /\ holder' = [holder EXCEPT ![target[c]] = c]
      /\ \A d \in Clients \ {c} : pc'[d] = pc[d]
      /\ NoClient \notin Clients
  BY GatewayAssumption DEF IInv, TypeOK, LockDiscipline, ExactAt, StartCall, HasTurn, Others
<1>1. CASE e = target[c]
  <2>1. waiters[e] \in Seq(Clients) /\ waiters[e] # <<>> /\ Head(waiters[e]) = c
    BY <1>1, TurnFacts DEF IInv, StartCall, HasTurn
  <2>2. IsInjective(Tail(waiters[e])) /\ Range(Tail(waiters[e])) = Range(waiters[e]) \ {c}
    BY <1>0, <2>1, TailLine DEF ExactAt
  <2>3. waiters'[e] = Tail(waiters[e]) /\ holder'[e] = c
    BY <1>0, <1>1
  <2> QED
    BY <1>0, <1>1, <2>2, <2>3 DEF ExactAt
<1>2. CASE e # target[c]
  <2>1. waiters'[e] = waiters[e] /\ holder'[e] = holder[e]
    BY <1>0, <1>2
  <2> QED
    BY <1>0, <1>2, <2>1 DEF ExactAt
<1> QED
  BY <1>1, <1>2

LEMMA LineStep ==
    ASSUME IInv, [Next]_vars
    PROVE  LockDiscipline'
<1> SUFFICES ASSUME NEW e \in Endpoints PROVE ExactAt(e)'
  BY DEF LockDiscipline, ExactAt
<1>0. TypeOK /\ LockDiscipline /\ ExactAt(e)
  BY DEF IInv, LockDiscipline, ExactAt
<1>1. ASSUME NEW c \in Clients, EndsCall(c), Others(c)
      PROVE  ExactAt(e)'
  <2>1. /\ pc[c] = "running" /\ pc'[c] \notin {"waiting", "running"} /\ target' = target
        /\ waiters' = waiters /\ holder \in [Endpoints -> Clients \cup {NoClient}]
        /\ holder' = [holder EXCEPT ![target[c]] = NoClient]
        /\ \A d \in Clients \ {c} : pc'[d] = pc[d]
    BY <1>0, <1>1 DEF EndsCall, Others, TypeOK
  <2>2. e = target[c] => holder[e] = c /\ holder'[e] = NoClient
    BY <1>0, <2>1 DEF ExactAt
  <2>3. e # target[c] => holder'[e] = holder[e]
    BY <2>1
  <2> QED
    BY <1>0, <2>1, <2>2, <2>3 DEF ExactAt
<1>2. ASSUME NEW c \in Clients, StaysAway(c), Others(c)
      PROVE  ExactAt(e)'
  <2>1. /\ pc[c] \notin {"waiting", "running"} /\ pc'[c] \notin {"waiting", "running"}
        /\ UNCHANGED <<waiters, holder, target>>
        /\ \A d \in Clients \ {c} : pc'[d] = pc[d]
    BY <1>2 DEF StaysAway, Others, locks
  <2> QED
    BY <1>0, <2>1 DEF ExactAt
<1>3. ASSUME NEW c \in Clients, ClientStep(c)
      PROVE  ExactAt(e)'
  <2>1. Others(c)
    BY <1>0, <1>3, Effects
  <2>2. target[c] \in Endpoints /\ \A f \in Available : f \in Endpoints
    BY <1>0 DEF TypeOK, Available
  <2>3. \/ \E f \in Endpoints : Joins(c, f)
        \/ LeavesLine(c) \/ StartCall(c) \/ EndsCall(c) \/ StaysAway(c)
    BY <1>0, <1>3, <2>2, Effects
  <2> QED
    BY <1>1, <1>2, <2>1, <2>3, JoinExact, LeaveExact, StartExact
<1>4. ASSUME (\E f \in Endpoints : RecoveryTimeout(f)) \/ UNCHANGED vars
      PROVE  ExactAt(e)'
  <2>1. UNCHANGED <<waiters, holder, pc, target>>
    BY <1>4 DEF RecoveryTimeout, vars, locks
  <2> QED
    BY <1>0, <2>1 DEF ExactAt
<1> QED
  BY <1>3, <1>4, NextCases

-------------------------------------------------------------------------------
(* Open circuits                                                           *)

\* A circuit is taken out of open, or put into it, only by the call that
\* holds its lock.
LEMMA NotOpenStep ==
    ASSUME IInv, [Next]_vars
    PROVE  NotOpen'
<1> SUFFICES ASSUME NEW d \in Clients, pc'[d] = "running"
             PROVE  breaker'[target'[d]].state # "open"
  BY DEF NotOpen
<1>0. /\ TypeOK /\ LockDiscipline /\ breaker \in [Endpoints -> Breaker]
      /\ target \in [Clients -> Endpoints] /\ target[d] \in Endpoints
      /\ pc[d] = "running" => breaker[target[d]].state # "open" /\ holder[target[d]] = d
  BY DEF IInv, TypeOK, NotOpen, LockDiscipline
<1>1. ASSUME NEW c \in Clients, ClientStep(c), c # d
      PROVE  breaker'[target'[d]].state # "open"
  <2>1. pc[d] = "running" /\ target'[d] = target[d] /\ holder[target[d]] = d
    BY <1>0, <1>1, Effects DEF Others
  <2>2. CASE StartCall(c)
    <3>1. holder[target[c]] = NoClient /\ target[c] # target[d]
      BY <1>0, <2>1, <2>2, GatewayAssumption DEF StartCall, HasTurn
    <3> QED
      BY <1>0, <2>1, <2>2, <3>1 DEF StartCall
  <2>3. CASE EndsCall(c)
    <3>1. target[c] \in Endpoints /\ holder[target[c]] = c /\ target[c] # target[d]
      BY <1>0, <1>1, <2>1, <2>3 DEF EndsCall, LockDiscipline, TypeOK
    <3>2. breaker'[target[d]] = breaker[target[d]]
      BY <1>0, <2>3, <3>1 DEF EndsCall
    <3> QED
      BY <1>0, <2>1, <3>2
  <2>4. CASE UNCHANGED breaker
    BY <1>0, <2>1, <2>4
  <2> QED
    BY <1>0, <1>1, <2>2, <2>3, <2>4, Effects DEF Joins, LeavesLine, StaysAway
<1>2. CASE ClientStep(d)
  <2>1. StartCall(d)
    BY <1>0, <1>2, Effects DEF Joins, LeavesLine, EndsCall, StaysAway
  <2>2. breaker'[target[d]] = CheckStateTransition(breaker[target[d]]) /\ target' = target
    BY <1>0, <2>1 DEF StartCall
  <2> QED
    BY <2>1, <2>2 DEF StartCall, Proceeds
<1>3. ASSUME NEW e \in Endpoints, RecoveryTimeout(e)
      PROVE  breaker'[target'[d]].state # "open"
  <2>1. UNCHANGED <<pc, target>> /\ RecoveryElapsed(breaker[e]).state = breaker[e].state
    BY <1>0, <1>3, BreakerTypes DEF RecoveryTimeout
  <2>2. breaker'[target[d]].state = breaker[target[d]].state
    BY <1>0, <1>3, <2>1 DEF RecoveryTimeout
  <2> QED
    BY <1>0, <2>1, <2>2
<1>4. CASE UNCHANGED vars
  BY <1>0, <1>4 DEF vars
<1> QED
  BY <1>1, <1>2, <1>3, <1>4, NextCases

\* Only a call that runs is delivered.
LEMMA DeliveredBy ==
    ASSUME TypeOK, [Next]_vars, NEW d \in Clients, delivered'[d] > delivered[d]
    PROVE  pc[d] = "running"
<1>0. delivered \in [Clients -> 0 .. MaxRetries + 1] /\ delivered[d] \in Nat /\ MaxRetries \in Nat
  BY GatewayAssumption DEF TypeOK
<1>1. ASSUME NEW c \in Clients, ClientStep(c)
      PROVE  \/ UNCHANGED delivered \/ (pc[c] = "running" /\ Deliver(c)) \/ Fresh(c)
  BY <1>1 DEF ClientStep, Submit, RateLimited, NoEndpoint, Admit, TakeLock, FailFast, StartCall, EndCall,
              Respond, CallRaises, Retry, Release, Cancel, CancelWaiting, CancelRunning, CancelBackoff
<1>2. ASSUME NEW c \in Clients, pc[c] = "running", Deliver(c)
      PROVE  pc[d] = "running"
  BY <1>0, <1>2 DEF Deliver
<1>3. ASSUME NEW c \in Clients, Fresh(c)
      PROVE  FALSE
  BY <1>0, <1>3 DEF Fresh
<1>4. ASSUME (\E e \in Endpoints : RecoveryTimeout(e)) \/ UNCHANGED vars
      PROVE  UNCHANGED delivered
  BY <1>4 DEF RecoveryTimeout, vars
<1>5. delivered' # delivered
  BY <1>0
<1> QED
  BY <1>1, <1>2, <1>3, <1>4, <1>5, NextCases

LEMMA OutOfServiceStep ==
    ASSUME IInv, [Next]_vars, NEW e \in Endpoints, OutOfService(e)
    PROVE  OutOfService(e)'
<1>0. /\ TypeOK /\ LockDiscipline /\ breaker \in [Endpoints -> Breaker] /\ breaker[e].state = "open"
      /\ \A d \in Clients : pc[d] = "idle" \/ target[d] # e
      /\ \A d \in Clients : target[d] \in Endpoints
  BY DEF IInv, TypeOK, OutOfService
<1>1. ASSUME breaker'[e].state = "open", \A d \in Clients : pc'[d] = "idle" \/ target'[d] # e
      PROVE  OutOfService(e)'
  BY <1>1 DEF OutOfService
<1>2. ASSUME NEW c \in Clients, ClientStep(c)
      PROVE  OutOfService(e)'
  <2>1. \A d \in Clients \ {c} : pc'[d] = "idle" \/ target'[d] # e
    BY <1>0, <1>2, Effects DEF Others
  <2>2. CASE \E f \in Available : pc[c] = "idle" /\ Joins(c, f)
    BY <1>0, <1>1, <2>1, <2>2 DEF Joins, Available
  <2>3. CASE pc[c] = "backoff" /\ Joins(c, target[c])
    BY <1>0, <1>1, <2>1, <2>3 DEF Joins
  <2>4. CASE LeavesLine(c)
    BY <1>0, <1>1, <2>1, <2>4 DEF LeavesLine
  <2>5. CASE StartCall(c)
    <3>1. target[c] # e /\ target' = target /\ breaker'[e] = breaker[e]
      BY <1>0, <2>5 DEF StartCall, HasTurn
    <3> QED
      BY <1>0, <1>1, <2>1, <3>1
  <2>6. CASE EndsCall(c)
    <3>1. target[c] # e /\ target' = target
      BY <1>0, <2>6 DEF EndsCall
    <3>2. breaker'[e] = breaker[e]
      BY <1>0, <2>6, <3>1 DEF EndsCall
    <3> QED
      BY <1>0, <1>1, <2>1, <3>1, <3>2
  <2>7. CASE StaysAway(c)
    BY <1>0, <1>1, <2>1, <2>7 DEF StaysAway
  <2> QED
    BY <1>0, <1>2, <2>2, <2>3, <2>4, <2>5, <2>6, <2>7, Effects
<1>3. ASSUME NEW f \in Endpoints, RecoveryTimeout(f)
      PROVE  OutOfService(e)'
  <2>1. UNCHANGED <<pc, target>> /\ RecoveryElapsed(breaker[f]).state = breaker[f].state
    BY <1>0, <1>3, BreakerTypes DEF RecoveryTimeout
  <2>2. breaker'[e].state = breaker[e].state
    BY <1>0, <1>3, <2>1 DEF RecoveryTimeout
  <2> QED
    BY <1>0, <1>1, <2>1, <2>2
<1>4. CASE UNCHANGED vars
  BY <1>0, <1>1, <1>4 DEF vars
<1> QED
  BY <1>2, <1>3, <1>4, NextCases

-------------------------------------------------------------------------------
(* The theorems                                                            *)

LEMMA InitHolds == Init => IInv
<1> SUFFICES ASSUME Init PROVE IInv
  OBVIOUS
<1>1. InitBreaker \in Breaker /\ 1 \in Endpoints /\ MaxRetries \in Nat
  BY GatewayAssumption, ThresholdAssumption
     DEF InitBreaker, Breaker, CircuitState, Endpoints, ThresholdAssumption
<1>2. TypeOK
  BY <1>1 DEF Init, TypeOK, Answers
<1>3. LockDiscipline
  BY EmptySeq DEF Init, LockDiscipline, IsInjective, Range
<1>4. NotOpen /\ Accounted
  BY DEF Init, NotOpen, Accounted
<1> QED
  BY <1>2, <1>3, <1>4 DEF IInv

LEMMA GatewayInvariant == Spec => []IInv
<1>1. IInv /\ [Next]_vars => IInv'
  BY TypeStep, LineStep, NotOpenStep DEF IInv
<1> QED
  BY <1>1, InitHolds, PTL DEF Spec

(* The variables keep their types: nobody makes more than MaxRetries + 1   *)
(* attempts, and the provider carries a request out no more often.         *)
THEOREM TypeCorrect == Spec => []TypeOK
  BY GatewayInvariant, PTL DEF IInv

(* The locks of the breakers know exactly the requests under way.          *)
THEOREM AlwaysLockDiscipline == Spec => []LockDiscipline
  BY GatewayInvariant, PTL DEF IInv

(* Nothing is sent to an endpoint whose circuit is open.                   *)
THEOREM AlwaysSilentWhileOpen == Spec => SilentWhileOpen
<1>1. IInv /\ [Next]_vars
        => [\A c \in Clients : delivered'[c] > delivered[c]
                               => breaker[target[c]].state # "open"]_vars
  BY DeliveredBy DEF IInv, NotOpen
<1> QED
  BY <1>1, GatewayInvariant, PTL DEF Spec, SilentWhileOpen

(* An open endpoint with no request under way is never used again.         *)
THEOREM AlwaysOutOfServiceForGood == Spec => OutOfServiceForGood
<1>1. IInv /\ [Next]_vars
        => [\A e \in Endpoints : OutOfService(e) => OutOfService(e)']_vars
  BY OutOfServiceStep
<1> QED
  BY <1>1, GatewayInvariant, PTL DEF Spec, OutOfServiceForGood

-------------------------------------------------------------------------------
(* The refinement of BreakerSpec by each endpoint's breaker                *)

\* The counters of every breaker mean what BreakerConsistent says.
Consistent == \A e \in Endpoints : BreakerConsistent(breaker[e])

LEMMA TransitionFacts ==
    ASSUME NEW b \in Breaker
    PROVE  /\ TransitionToOpen(b).state = "open" /\ BreakerConsistent(TransitionToOpen(b))
           /\ TransitionToHalfOpen(b).state = "half_open"
           /\ BreakerConsistent(TransitionToHalfOpen(b))
           /\ TransitionToClosed(b).state = "closed" /\ TransitionToClosed(b).failure_count = 0
           /\ BreakerConsistent(TransitionToClosed(b))
<1> USE ThresholdAssumption DEF ThresholdAssumption
<1>1. TransitionToOpen(b).state = "open" /\ BreakerConsistent(TransitionToOpen(b))
  BY DEF TransitionToOpen, Breaker, BreakerConsistent
<1>2. TransitionToHalfOpen(b).state = "half_open" /\ BreakerConsistent(TransitionToHalfOpen(b))
  BY DEF TransitionToHalfOpen, Breaker, BreakerConsistent
<1>3. /\ TransitionToClosed(b).state = "closed" /\ TransitionToClosed(b).failure_count = 0
      /\ BreakerConsistent(TransitionToClosed(b))
  BY DEF TransitionToClosed, Breaker, BreakerConsistent
<1> QED
  BY <1>1, <1>2, <1>3

\* The head of a call takes an open breaker to half open, or leaves it alone.
LEMMA CheckRefines ==
    ASSUME NEW b \in Breaker, BreakerConsistent(b), CheckStateTransition(b).state # "open"
    PROVE  /\ BreakerConsistent(CheckStateTransition(b))
           /\ IF b.state = "open"
              THEN CheckStateTransition(b).state = "half_open" /\ Run(CheckStateTransition(b)) = 0
              ELSE CheckStateTransition(b) = b
<1>1. CASE b.state = "open"
  <2>1. CheckStateTransition(b) = TransitionToHalfOpen(b)
    BY <1>1 DEF CheckStateTransition
  <2>2. TransitionToHalfOpen(b).success_count = 0
    BY DEF TransitionToHalfOpen, Breaker
  <2> QED
    BY <1>1, <2>1, <2>2, TransitionFacts DEF Run
<1>2. CASE b.state # "open"
  BY <1>2 DEF CheckStateTransition
<1> QED
  BY <1>1, <1>2

\* A success ends the run of failures of a closed breaker, and counts for a
\* half-open one, which closes on the last that is needed.
LEMMA SuccessRefines ==
    ASSUME NEW b \in Breaker, BreakerConsistent(b), b.state # "open"
    PROVE  /\ BreakerConsistent(OnSuccess(b))
           /\ \/ b.state = "closed" /\ OnSuccess(b).state = "closed" /\ Run(OnSuccess(b)) = 0
              \/ /\ b.state = "half_open"
                 /\ IF Run(b) + 1 = SuccessThreshold
                    THEN OnSuccess(b).state = "closed" /\ Run(OnSuccess(b)) = 0
                    ELSE OnSuccess(b).state = "half_open" /\ Run(OnSuccess(b)) = Run(b) + 1
<1> USE ThresholdAssumption DEF ThresholdAssumption
<1>1. CASE b.state = "closed"
  <2>1. OnSuccess(b) = [b EXCEPT !.failure_count = 0]
    BY <1>1 DEF OnSuccess
  <2> QED
    BY <1>1, <2>1 DEF Run, Breaker, BreakerConsistent
<1>2. CASE b.state = "half_open"
  <2> DEFINE counted == [b EXCEPT !.success_count = @ + 1]
  <2>1. /\ Run(b) = b.success_count /\ b.success_count \in Nat
        /\ b.success_count < SuccessThreshold
    BY <1>2 DEF Run, Breaker, BreakerConsistent
  <2>2. /\ counted \in Breaker /\ counted.state = "half_open"
        /\ counted.success_count = b.success_count + 1
    BY <1>2 DEF Breaker
  <2>3. OnSuccess(b) = IF counted.success_count >= SuccessThreshold
                       THEN TransitionToClosed(counted) ELSE counted
    BY <1>2 DEF OnSuccess
  <2>4. CASE Run(b) + 1 = SuccessThreshold
    <3>1. OnSuccess(b) = TransitionToClosed(counted)
      BY <2>1, <2>2, <2>3, <2>4
    <3> QED
      BY <1>2, <2>2, <2>4, <3>1, TransitionFacts DEF Run
  <2>5. CASE Run(b) + 1 # SuccessThreshold
    <3>1. OnSuccess(b) = counted /\ counted.success_count < SuccessThreshold
      BY <2>1, <2>2, <2>3, <2>5
    <3>2. BreakerConsistent(counted) /\ Run(counted) = Run(b) + 1
      BY <2>1, <2>2, <3>1 DEF BreakerConsistent, Run
    <3> QED
      BY <1>2, <2>2, <2>5, <3>1, <3>2
  <2> QED
    BY <2>4, <2>5
<1> QED
  BY <1>1, <1>2 DEF Breaker, CircuitState

\* A failure opens a half-open breaker, and a closed one on the last in a row
\* that it takes.
LEMMA FailureRefines ==
    ASSUME NEW b \in Breaker, BreakerConsistent(b), b.state # "open"
    PROVE  /\ BreakerConsistent(OnFailure(b))
           /\ \/ b.state = "half_open" /\ OnFailure(b).state = "open" /\ Run(OnFailure(b)) = 0
              \/ /\ b.state = "closed"
                 /\ IF Run(b) + 1 = FailureThreshold
                    THEN OnFailure(b).state = "open" /\ Run(OnFailure(b)) = 0
                    ELSE OnFailure(b).state = "closed" /\ Run(OnFailure(b)) = Run(b) + 1
<1> USE ThresholdAssumption DEF ThresholdAssumption
<1> DEFINE counted == [b EXCEPT !.failure_count = CountFailure(@)]
<1>1. /\ counted \in Breaker /\ counted.state = b.state /\ counted.next_attempt = b.next_attempt
      /\ counted.failure_count = CountFailure(b.failure_count)
  BY DEF Breaker, CountFailure
<1>2. OnFailure(b) = IF \/ b.state = "half_open"
                        \/ b.state = "closed" /\ counted.failure_count >= FailureThreshold
                     THEN TransitionToOpen(counted) ELSE counted
  BY DEF OnFailure
<1>3. TransitionToOpen(counted).state = "open" /\ BreakerConsistent(TransitionToOpen(counted))
  BY <1>1, TransitionFacts
<1>4. CASE b.state = "half_open"
  BY <1>2, <1>3, <1>4 DEF Run
<1>5. CASE b.state = "closed"
  <2>1. /\ Run(b) = b.failure_count /\ b.failure_count \in Nat
        /\ b.failure_count < FailureThreshold /\ b.next_attempt = "none"
    BY <1>5 DEF Run, Breaker, BreakerConsistent
  <2>2. counted.failure_count = b.failure_count + 1
    BY <1>1, <2>1 DEF CountFailure
  <2>3. CASE Run(b) + 1 = FailureThreshold
    <3>1. OnFailure(b) = TransitionToOpen(counted)
      BY <1>2, <1>5, <2>1, <2>2, <2>3
    <3> QED
      BY <1>3, <1>5, <2>3, <3>1 DEF Run
  <2>4. CASE Run(b) + 1 # FailureThreshold
    <3>1. OnFailure(b) = counted /\ counted.failure_count < FailureThreshold
      BY <1>2, <1>5, <2>1, <2>2, <2>4
    <3>2. BreakerConsistent(counted) /\ Run(counted) = Run(b) + 1
      BY <1>1, <1>5, <2>1, <2>2, <3>1 DEF BreakerConsistent, Run
    <3> QED
      BY <1>1, <1>5, <2>4, <3>1, <3>2
  <2> QED
    BY <2>3, <2>4
<1> QED
  BY <1>4, <1>5 DEF Breaker, CircuitState

LEMMA RecoveryRefines ==
    ASSUME NEW b \in Breaker, BreakerConsistent(b), b.next_attempt = "waiting"
    PROVE  /\ BreakerConsistent(RecoveryElapsed(b))
           /\ RecoveryElapsed(b).state = b.state /\ Run(RecoveryElapsed(b)) = Run(b)
BY DEF RecoveryElapsed, Run, Breaker, BreakerConsistent

\* The step of the breaker e: one of BreakerSpec, or none that it shows.
AbstractStep(e) ==
    \/ Abstract(e)!Next
    \/ UNCHANGED <<breaker[e].state, Run(breaker[e]), holder[e], outcome[e]>>

\* A step at the endpoint e changes nothing of another.
Elsewhere(e) ==
    \A f \in Endpoints \ {e} : UNCHANGED <<breaker[f], holder[f], outcome[f]>>

\* A step under the lock of e is one of the abstract breaker, and the counters
\* keep their meaning.
LEMMA EndpointStep ==
    ASSUME IInv, Consistent, NEW c \in Clients, NEW e \in Endpoints, e = target[c],
           \/ StartCall(c) \/ Respond(c) \/ CallRaises(c)
           \/ Cancel(c) /\ pc[c] = "running"
    PROVE  Abstract(e)!Next /\ BreakerConsistent(breaker'[e]) /\ Elsewhere(e)
<1> USE GatewayAssumption DEF IInv
<1>1. breaker[e] \in Breaker /\ BreakerConsistent(breaker[e])
  BY DEF TypeOK, Consistent
<1>2. CASE StartCall(c)
  <2>1. /\ breaker'[e] = CheckStateTransition(breaker[e]) /\ holder'[e] = c
        /\ holder[e] = NoClient /\ outcome'[e] = outcome[e]
        /\ CheckStateTransition(breaker[e]).state # "open"
    BY <1>1, <1>2 DEF StartCall, HasTurn, Proceeds, TypeOK
  <2>2. Elsewhere(e)
    BY <1>2 DEF StartCall, Elsewhere, TypeOK
  <2>3. outcome[e] # "running"
    BY <1>1 DEF TypeOK
  <2>4. Abstract(e)!Begin
    BY <1>1, <2>1, <2>3, CheckRefines DEF Abstract!Begin
  <2> QED
    BY <1>1, <2>1, <2>2, <2>4, CheckRefines DEF Abstract!Next
<1>3. ASSUME pc[c] = "running"
      PROVE  /\ holder[e] = c /\ holder[e] # NoClient
             /\ breaker[e].state # "open"
  BY <1>1, <1>3 DEF LockDiscipline, NotOpen
<1>4. ASSUME NEW how \in {"succeeded", "failed", "abandoned"}, Release(c, how)
      PROVE  /\ pc[c] = "running" /\ holder'[e] = NoClient /\ outcome'[e] = how
             /\ \A f \in Endpoints \ {e} : UNCHANGED <<holder[f], outcome[f]>>
  BY <1>1, <1>4 DEF Release, TypeOK
<1>5. CASE Respond(c)
  <2>1. breaker'[e] = OnSuccess(breaker[e]) /\ Elsewhere(e)
    BY <1>1, <1>4, <1>5 DEF Respond, Elsewhere, TypeOK
  <2>2. Abstract(e)!Succeed
    BY <1>1, <1>3, <1>4, <1>5, <2>1, SuccessRefines
       DEF Respond, Abstract!Succeed, Abstract!Ends
  <2> QED
    BY <1>1, <1>3, <1>4, <1>5, <2>1, <2>2, SuccessRefines DEF Respond, Abstract!Next
<1>6. CASE CallRaises(c)
  <2>1. breaker'[e] = OnFailure(breaker[e]) /\ Elsewhere(e)
    BY <1>1, <1>4, <1>6 DEF CallRaises, Elsewhere, TypeOK
  <2>2. Abstract(e)!Fail
    BY <1>1, <1>3, <1>4, <1>6, <2>1, FailureRefines
       DEF CallRaises, Abstract!Fail, Abstract!Ends
  <2> QED
    BY <1>1, <1>3, <1>4, <1>6, <2>1, <2>2, FailureRefines DEF CallRaises, Abstract!Next
<1>7. CASE Cancel(c) /\ pc[c] = "running"
  <2>1. Release(c, "abandoned") /\ breaker' = breaker
    BY <1>7 DEF Cancel, CancelWaiting, CancelBackoff, CancelRunning
  <2>2. Abstract(e)!Abandon
    BY <1>1, <1>3, <1>4, <2>1 DEF Abstract!Abandon, Abstract!Ends
  <2> QED
    BY <1>1, <1>4, <2>1, <2>2 DEF Elsewhere, Abstract!Next
<1> QED
  BY <1>2, <1>5, <1>6, <1>7

LEMMA BreakersStep ==
    ASSUME IInv, Consistent, [Next]_vars
    PROVE  Consistent' /\ \A e \in Endpoints : AbstractStep(e)
<1>1. CASE UNCHANGED <<breaker, holder, outcome>>
  BY <1>1 DEF Consistent, AbstractStep
<1>2. ASSUME NEW f \in Endpoints, Abstract(f)!Next,
             BreakerConsistent(breaker'[f]), Elsewhere(f)
      PROVE  Consistent' /\ \A e \in Endpoints : AbstractStep(e)
  <2>1. Consistent'
    BY <1>2 DEF Consistent, Elsewhere
  <2>2. ASSUME NEW e \in Endpoints
        PROVE  AbstractStep(e)
    <3>1. CASE e = f
      BY <1>2, <3>1 DEF AbstractStep
    <3>2. CASE e # f
      BY <1>2, <3>2 DEF AbstractStep, Elsewhere
    <3> QED
      BY <3>1, <3>2
  <2> QED
    BY <2>1, <2>2
<1>3. ASSUME NEW f \in Endpoints, RecoveryTimeout(f)
      PROVE  Consistent' /\ \A e \in Endpoints : AbstractStep(e)
  <2>1. /\ breaker[f] \in Breaker /\ BreakerConsistent(breaker[f])
        /\ breaker'[f] = RecoveryElapsed(breaker[f]) /\ breaker[f].next_attempt = "waiting"
        /\ \A e \in Endpoints \ {f} : breaker'[e] = breaker[e]
        /\ UNCHANGED <<holder, outcome>>
    BY <1>3 DEF RecoveryTimeout, IInv, TypeOK, Consistent, locks
  <2>2. \A e \in Endpoints : AbstractStep(e)
    BY <2>1, RecoveryRefines DEF AbstractStep
  <2> QED
    BY <2>1, <2>2, RecoveryRefines DEF Consistent
<1>4. ASSUME NEW c \in Clients, ClientStep(c)
      PROVE  Consistent' /\ \A e \in Endpoints : AbstractStep(e)
  <2>1. CASE \/ StartCall(c) \/ Respond(c) \/ CallRaises(c)
             \/ Cancel(c) /\ pc[c] = "running"
    <3>1. PICK f \in Endpoints : f = target[c]
      BY DEF IInv, TypeOK
    <3>2. Abstract(f)!Next /\ BreakerConsistent(breaker'[f]) /\ Elsewhere(f)
      BY <2>1, <3>1, EndpointStep
    <3> QED
      BY <1>2, <3>2
  <2>2. CASE Submit(c) \/ FailFast(c) \/ Retry(c)
    BY <1>1, <2>2 DEF Submit, RateLimited, NoEndpoint, Admit, FailFast, Retry, locks
  <2>3. CASE Cancel(c) /\ pc[c] # "running"
    BY <1>1, <2>3 DEF Cancel, CancelWaiting, CancelRunning, CancelBackoff, Release, locks
  <2> QED
    BY <1>4, <2>1, <2>2, <2>3 DEF ClientStep, TakeLock, EndCall
<1>5. CASE UNCHANGED vars
  BY <1>1, <1>5 DEF vars, locks
<1> QED
  BY <1>3, <1>4, <1>5 DEF Next, ClientStep

LEMMA AlwaysConsistent == Spec => []Consistent
<1>1. Init => Consistent
  BY ThresholdAssumption
     DEF ThresholdAssumption, Init, Consistent, InitBreaker, BreakerConsistent
<1>2. IInv /\ Consistent /\ [Next]_vars => Consistent'
  BY BreakersStep
<1> QED
  BY <1>1, <1>2, GatewayInvariant, PTL DEF Spec

(* Each endpoint's breaker, called from retry loops that overlap, is a     *)
(* circuit breaker as BreakerSpec describes it: its state changes only by  *)
(* calls made one at a time, on exactly the runs of failures and successes *)
(* it was configured for.                                                  *)
THEOREM Refinement == Spec => ImplementsBreakers
<1>1. Init => \A e \in Endpoints : Abstract(e)!Init
  BY DEF Init, InitBreaker, Run, Abstract!Init
<1>2. IInv /\ Consistent /\ [Next]_vars
        => [\A e \in Endpoints : [Abstract(e)!Next]_(Abstract(e)!bvars)]_vars
  BY BreakersStep DEF AbstractStep, Abstract!bvars
<1> QED
  BY <1>1, <1>2, GatewayInvariant, AlwaysConsistent, PTL DEF Spec, ImplementsBreakers
===============================================================================

--------------------------- MODULE RateLimiterProofs ---------------------------
(***************************************************************************)
(* Proofs about RateLimiter, for any callers, capacity, rate, queue and    *)
(* timeout.                                                                *)
(***************************************************************************)
EXTENDS RateLimiter, LineLemmas

\* The bucket never holds more than it can, and was filled in the past.
BucketOK ==
    /\ tokens <= Capacity /\ last_update <= now
    /\ IsFiniteSet(charged)

\* The deque is a line in the order of arrival.
InOrder(s) ==
    \A i, j \in DOMAIN s : i <= j => timestamp[s[i]] <= timestamp[s[j]]

Arrived == \A r \in Requests : timestamp[r] <= now

\* Whoever is in the deque waits there for the first time, or has left it there.
Fresh ==
    \A r \in Range(request_queue) : r \notin charged /\ future[r] \in {"pending", "cancelled"}

Broken ==
    \A r \in Requests :
        /\ future[r] = "cancelled" => leaving[r] # "no"
        /\ future[r] = "none" => leaving[r] = "no"

\* The inductive invariant.
IInv ==
    /\ TypeOK
    /\ BucketOK /\ RateBound
    /\ Remembered /\ InOrder(request_queue) /\ Arrived
    /\ Fresh /\ Broken
    /\ AllowedIsPaid /\ WasteExplained

-------------------------------------------------------------------------------
(* The bucket                                                              *)

LEMMA Product ==
    ASSUME NEW k \in Nat
    PROVE  k * Cost \in Nat /\ k <= k * Cost
  BY LimiterAssumption

LEMMA LevelFacts ==
    ASSUME TypeOK, BucketOK
    PROVE  Level \in Nat /\ Level <= Capacity /\ tokens <= Level
  BY LimiterAssumption DEF TypeOK, BucketOK, Level

\* A refill that takes k tokens.
LEMMA RefillFacts ==
    ASSUME TypeOK, BucketOK, NEW k \in Nat, HasTokens(k), Refill(k), now' = now
    PROVE  /\ tokens' \in Nat /\ tokens' <= Capacity
           /\ last_update' \in Nat /\ last_update' = now'
           /\ Level' = Level - k * Cost
<1>1. k * Cost \in Nat /\ Level \in Nat /\ Level <= Capacity /\ Capacity \in Nat
  BY Product, LevelFacts, LimiterAssumption
<1>2. tokens' = Level - k * Cost /\ last_update' = now' /\ now' \in Nat
  BY DEF Refill, TypeOK
<1>3. tokens' \in Nat /\ tokens' <= Capacity
  BY <1>1, <1>2 DEF HasTokens
<1>4. Level' = tokens'
  BY <1>1, <1>2, <1>3 DEF Level
<1> QED
  BY <1>2, <1>3, <1>4

-------------------------------------------------------------------------------
(* The deque and what a pass of the processor makes of it                  *)

Served(k) == {InTime[i] : i \in 1 .. k}

\* The expired requests are the first ones.
LEMMA SweepFacts ==
    ASSUME IInv
    PROVE  /\ Expired \in 0 .. Len(request_queue)
           /\ \A i \in 1 .. Len(request_queue) :
                 IsExpired(request_queue[i]) <=> i <= Expired
           /\ InTime \in Seq(Requests) /\ IsInjective(InTime)
           /\ Len(InTime) = Len(request_queue) - Expired
           /\ \A i \in 1 .. Len(request_queue) - Expired :
                 InTime[i] = request_queue[Expired + i]
<1> DEFINE q == request_queue
           E == {i \in DOMAIN q : IsExpired(q[i])}
<1>1. /\ q \in Seq(Requests) /\ Len(q) \in Nat /\ DOMAIN q = 1 .. Len(q)
      /\ \A i \in 1 .. Len(q) : q[i] \in Requests
      /\ IsInjective(q)
  BY LenProperties, ElementOfSeq DEF IInv, TypeOK, Remembered
<1>2. \A r \in Requests : timestamp[r] \in Nat
  BY DEF IInv, TypeOK
<1>3. now \in Nat /\ Timeout \in Nat
  BY LimiterAssumption DEF IInv, TypeOK
<1> HIDE DEF q
<1>4. ASSUME NEW i \in E, NEW j \in 1 .. i
      PROVE  j \in E
  <2>1. i \in 1 .. Len(q) /\ j \in 1 .. Len(q) /\ j <= i
    BY <1>1
  <2>2. timestamp[q[j]] <= timestamp[q[i]]
    BY <1>1, <2>1 DEF IInv, InOrder, q
  <2>3. now > timestamp[q[i]] + Timeout
    BY DEF IsExpired
  <2>4. timestamp[q[i]] \in Nat /\ timestamp[q[j]] \in Nat
    BY <1>1, <1>2, <2>1
  <2>5. now > timestamp[q[j]] + Timeout
    BY <1>3, <2>2, <2>3, <2>4
  <2> QED
    BY <1>1, <2>1, <2>5 DEF IsExpired
<1>5. E \in SUBSET (1 .. Len(q))
  BY <1>1
<1>6. Expired = Cardinality(E)
  BY DEF Expired, q
<1> HIDE DEF E
<1>7. Expired \in 0 .. Len(q) /\ E = 1 .. Expired
  BY <1>1, <1>4, <1>5, <1>6, BeginningCounted
<1>8. \A i \in 1 .. Len(q) : IsExpired(q[i]) <=> i \in E
  BY <1>1 DEF E
<1>9. Expired + 1 \in Nat \ {0} /\ Expired + 1 <= Len(q) + 1
  BY <1>1, <1>7
<1>10. /\ InTime \in Seq(Requests) /\ IsInjective(InTime)
       /\ Len(InTime) = Len(q) - (Expired + 1) + 1
       /\ \A i \in 1 .. Len(q) - (Expired + 1) + 1 : InTime[i] = q[(Expired + 1) + i - 1]
  BY <1>1, <1>9, PartLine DEF InTime, q
<1>11. Len(InTime) = Len(q) - Expired
  BY <1>1, <1>7, <1>10
<1>12. \A i \in 1 .. Len(q) - Expired : InTime[i] = q[Expired + i]
  BY <1>1, <1>7, <1>10
<1> QED
  BY <1>1, <1>7, <1>8, <1>10, <1>11, <1>12 DEF q

\* What a pass that serves k requests takes out of the deque and leaves in it.
LEMMA PassFacts ==
    ASSUME IInv, NEW k \in 0 .. Len(InTime), NEW rest, rest = SubSeq(InTime, k + 1, Len(InTime))
    PROVE  /\ k \in Nat
           /\ IsFiniteSet(Served(k)) /\ Cardinality(Served(k)) = k
           /\ Served(k) \subseteq Range(request_queue)
           /\ \A r \in Served(k) : r \in Requests /\ ~IsExpired(r)
           /\ rest \in Seq(Requests) /\ IsInjective(rest) /\ InOrder(rest)
           /\ Range(rest) = {r \in Range(request_queue) : ~IsExpired(r)} \ Served(k)
<1> DEFINE q == request_queue
           l == Len(InTime)
<1>1. /\ q \in Seq(Requests) /\ Len(q) \in Nat /\ DOMAIN q = 1 .. Len(q)
      /\ \A i \in 1 .. Len(q) : q[i] \in Requests
      /\ IsInjective(q)
  BY LenProperties, ElementOfSeq DEF IInv, TypeOK, Remembered
<1>2. /\ Expired \in 0 .. Len(q) /\ l = Len(q) - Expired
      /\ \A i \in 1 .. Len(q) : IsExpired(q[i]) <=> i <= Expired
      /\ InTime \in Seq(Requests) /\ IsInjective(InTime)
      /\ \A i \in 1 .. l : InTime[i] = q[Expired + i]
  BY SweepFacts
<1> HIDE DEF q, l
<1>3. l \in Nat /\ k \in Nat /\ k <= l /\ k \in 0 .. l /\ k + 1 \in Nat \ {0} /\ k + 1 <= l + 1
      /\ Expired \in Nat
  BY <1>1, <1>2 DEF l
<1>4. \A i \in 1 .. l : Expired + i \in 1 .. Len(q) /\ ~(Expired + i <= Expired)
  BY <1>1, <1>2, <1>3
<1>5. \A i \in 1 .. l : InTime[i] \in Range(q) /\ InTime[i] \in Requests /\ ~IsExpired(InTime[i])
  BY <1>1, <1>2, <1>4 DEF Range
<1>6. Served(k) \subseteq {InTime[i] : i \in 1 .. l}
  BY <1>3 DEF Served
<1>7. IsFiniteSet(Served(k)) /\ Cardinality(Served(k)) = k
  BY <1>2, <1>3, FirstCounted DEF Served, l
<1>8. /\ rest \in Seq(Requests) /\ IsInjective(rest)
      /\ Len(rest) = l - (k + 1) + 1
      /\ \A i \in 1 .. l - (k + 1) + 1 : rest[i] = InTime[(k + 1) + i - 1]
      /\ Range(rest) = {InTime[i] : i \in k + 1 .. l}
  <2>1. InTime \in Seq(Requests) /\ IsInjective(InTime)
    BY <1>2
  <2>2. k + 1 \in Nat \ {0} /\ k + 1 <= Len(InTime) + 1
    BY <1>3 DEF l
  <2>3. rest \in Seq(Requests) /\ IsInjective(rest)
    BY <2>1, <2>2, PartLine
  <2>4. Len(rest) = Len(InTime) - (k + 1) + 1
    BY <2>1, <2>2, PartLine
  <2>5. \A i \in 1 .. Len(InTime) - (k + 1) + 1 : rest[i] = InTime[(k + 1) + i - 1]
    BY <2>1, <2>2, PartLine
  <2>6. Range(rest) = {InTime[i] : i \in k + 1 .. Len(InTime)}
    BY <2>1, <2>2, PartLine
  <2> QED
    BY <2>3, <2>4, <2>5, <2>6 DEF l
<1>9. InOrder(rest)
  <2>1. /\ DOMAIN rest = 1 .. l - k
        /\ \A i \in 1 .. l - k : k + i \in 1 .. l /\ rest[i] = InTime[k + i]
    BY <1>3, <1>8, LenProperties
  <2>2. \A i \in 1 .. l - k : rest[i] = q[Expired + (k + i)] /\ Expired + (k + i) \in DOMAIN q
    BY <1>1, <1>2, <1>4, <2>1
  <2> SUFFICES ASSUME NEW i \in 1 .. l - k, NEW j \in 1 .. l - k, i <= j
               PROVE  timestamp[rest[i]] <= timestamp[rest[j]]
    BY <2>1 DEF InOrder
  <2>3. Expired + (k + i) <= Expired + (k + j)
    BY <1>3
  <2>4. InOrder(q)
    BY DEF IInv, q
  <2>5. timestamp[q[Expired + (k + i)]] <= timestamp[q[Expired + (k + j)]]
    BY <2>2, <2>3, <2>4 DEF InOrder
  <2> QED
    BY <2>2, <2>5
<1>10. ASSUME NEW r \in Range(q), ~IsExpired(r)
       PROVE  r \in {InTime[i] : i \in 1 .. l}
  <2>1. PICK p \in 1 .. Len(q) : r = q[p]
    BY <1>1 DEF Range
  <2>2. p - Expired \in 1 .. l /\ Expired + (p - Expired) = p
    BY <1>1, <1>2, <1>3, <1>10, <2>1
  <2> QED
    BY <1>2, <2>1, <2>2
<1>11. ASSUME NEW i \in k + 1 .. l
       PROVE  InTime[i] \notin Served(k)
  <2>1. DOMAIN InTime = 1 .. l
    BY <1>2, LenProperties DEF l
  <2> SUFFICES ASSUME NEW j \in 1 .. k, InTime[i] = InTime[j]
               PROVE  FALSE
    BY DEF Served
  <2>2. i \in DOMAIN InTime /\ j \in DOMAIN InTime /\ i # j
    BY <1>3, <2>1
  <2> QED
    BY <1>2, <2>2 DEF IsInjective
<1>12. \A i \in 1 .. l : i \in 1 .. k \/ i \in k + 1 .. l
  BY <1>3
<1>13. Range(rest) \subseteq {r \in Range(q) : ~IsExpired(r)} \ Served(k)
  <2>1. \A i \in k + 1 .. l : i \in 1 .. l
    BY <1>3
  <2> QED
    BY <1>5, <1>8, <1>11, <2>1
<1>14. {r \in Range(q) : ~IsExpired(r)} \ Served(k) \subseteq Range(rest)
  BY <1>8, <1>10, <1>12 DEF Served
<1> QED
  BY <1>3, <1>5, <1>6, <1>7, <1>8, <1>9, <1>13, <1>14 DEF q

-------------------------------------------------------------------------------
(* Types                                                                   *)

LEMMA SettleType ==
    ASSUME TypeOK, NEW S, NEW how \in {"expired", "cancelled", "shutdown"}
    PROVE  Settle(S, how) \in
             [Requests -> {"none", "pending", "result", "expired", "cancelled", "shutdown"}]
  BY DEF Settle, TypeOK

\* Leaving the deque.
LEMMA DequeuedFacts ==
    ASSUME TypeOK, Remembered, InOrder(request_queue), NEW r \in Requests, Dequeued(r),
           timestamp' = timestamp
    PROVE  /\ request_queue' \in Seq(Requests) /\ IsInjective(request_queue')
           /\ InOrder(request_queue)'
           /\ Range(request_queue') = Range(request_queue) \ {r}
<1> DEFINE q == request_queue
<1>1. /\ q \in Seq(Requests) /\ IsInjective(q) /\ Len(q) \in Nat /\ DOMAIN q = 1 .. Len(q)
  BY LenProperties DEF TypeOK, Remembered
<1>2. CASE r \notin Range(q) /\ UNCHANGED q
  BY <1>1, <1>2 DEF InOrder
<1>3. ASSUME NEW i \in 1 .. Len(q), q[i] = r, q' = RemoveAt(q, i)
      PROVE  /\ q' \in Seq(Requests) /\ IsInjective(q')
             /\ InOrder(q)'
             /\ Range(q') = Range(q) \ {r}
  <2>1. IsInjective(q') /\ Range(q') = Range(q) \ {r}
    BY <1>1, <1>3, RemoveAtLine
  <2>2. /\ q' \in Seq(Requests)
        /\ Len(q') = Len(q) - 1
        /\ \A j \in 1 .. Len(q) - 1 : q'[j] = IF j < i THEN q[j] ELSE q[j + 1]
    BY <1>1, <1>3, RemoveAtSeq
  <2>3. DOMAIN q' = 1 .. Len(q) - 1
    BY <2>2, LenProperties
  <2>4. InOrder(q)'
    <3> SUFFICES ASSUME NEW j \in 1 .. Len(q) - 1, NEW k \in 1 .. Len(q) - 1, j <= k
                 PROVE  timestamp[q'[j]] <= timestamp[q'[k]]
      BY <2>3 DEF InOrder
    <3> DEFINE at(x) == IF x < i THEN x ELSE x + 1
    <3>1. /\ at(j) \in DOMAIN q /\ at(k) \in DOMAIN q /\ at(j) <= at(k)
          /\ q'[j] = q[at(j)] /\ q'[k] = q[at(k)]
      BY <1>1, <2>2
    <3> QED
      BY <3>1 DEF InOrder
  <2> QED
    BY <2>1, <2>2, <2>4
<1> QED
  BY <1>1, <1>2, <1>3 DEF Dequeued

LEMMA TypeStep ==
    ASSUME IInv, [Next]_vars
    PROVE  TypeOK'
<1> DEFINE Futures == {"none", "pending", "result", "expired", "cancelled", "shutdown"}
<1>1. TypeOK /\ BucketOK
  BY DEF IInv
<1>2. ASSUME NEW k \in Nat, HasTokens(k), Refill(k), now' = now
      PROVE  tokens' \in Nat /\ last_update' \in Nat
  BY <1>1, <1>2, RefillFacts
<1>3. HasTokens(0)
  BY <1>1, LevelFacts, LimiterAssumption DEF HasTokens
<1>4. ASSUME NEW r \in Requests, Acquire(r)
      PROVE  TypeOK'
  <2>1. tokens' \in Nat /\ last_update' \in Nat
    BY <1>2, <1>3, <1>4 DEF Acquire, Admit, Deny, Enqueue
  <2>2. request_queue' \in Seq(Requests)
    <3>1. request_queue \in Seq(Requests) /\ Append(request_queue, r) \in Seq(Requests)
      BY <1>1, AppendProperties DEF TypeOK
    <3>2. request_queue' = request_queue \/ request_queue' = Append(request_queue, r)
      BY <1>4 DEF Acquire, Admit, Deny, Enqueue
    <3> QED
      BY <3>1, <3>2
  <2> QED
    BY <1>1, <1>4, <2>1, <2>2 DEF Acquire, Admit, Deny, Enqueue, control, TypeOK
<1>5. ASSUME NEW r \in Requests, TimerFires(r) \/ CallerCancelled(r)
      PROVE  TypeOK'
  <2>1. future' \in [Requests -> Futures]
    BY <1>1, <1>5, SettleType DEF TimerFires, CallerCancelled
  <2> QED
    BY <1>1, <1>5, <2>1 DEF TimerFires, CallerCancelled, bucketvars, control, TypeOK
<1>6. ASSUME NEW r \in Requests, Resume(r)
      PROVE  TypeOK'
  <2>1. request_queue' \in Seq(Requests)
    <3>1. CASE ResumeDenied(r)
      BY <3>1, DequeuedFacts DEF ResumeDenied, Resumes, IInv
    <3> QED
      BY <1>1, <1>6, <3>1 DEF Resume, ResumeAllowed, ResumeRaised, TypeOK
  <2> QED
    BY <1>1, <1>6, <2>1 DEF Resume, ResumeAllowed, ResumeDenied, ResumeRaised, Resumes,
                            bucketvars, control, TypeOK
<1>7. ASSUME NEW k \in 0 .. Len(request_queue), Process(k)
      PROVE  TypeOK'
  <2>1. k \in 0 .. Len(InTime) /\ request_queue' = SubSeq(InTime, k + 1, Len(InTime))
    BY <1>7 DEF Process
  <2>2. request_queue' \in Seq(Requests) /\ k \in Nat
    BY <2>1, PassFacts
  <2>3. \A r \in Served(k) : r \in Requests
    BY <2>1, PassFacts
  <2>4. future' \in [Requests -> Futures]
    BY <1>1, <1>7 DEF Process, Outcomes, TypeOK
  <2>5. tokens' \in Nat /\ last_update' \in Nat
    BY <1>1, <1>2, <1>7, <2>2 DEF Process, bucketvars, TypeOK
  <2> QED
    BY <1>1, <1>7, <2>2, <2>3, <2>4, <2>5 DEF Process, Served, control, TypeOK
<1>8. CASE Stopped
  <2>1. future' \in [Requests -> Futures]
    BY <1>1, <1>8, SettleType DEF Stopped
  <2>2. request_queue' \in Seq(Requests)
    BY <1>8, EmptySeq DEF Stopped
  <2> QED
    BY <1>1, <1>8, <2>1, <2>2 DEF Stopped, bucketvars, TypeOK
<1>9. CASE Tick \/ Start \/ Stop \/ UNCHANGED vars
  <2>1. now' = now \/ now' = now + 1
    BY <1>9 DEF Tick, Start, Stop, vars
  <2>3. processor' \in BOOLEAN /\ stopping' \in BOOLEAN
    BY <1>1, <1>9, Zenon DEF Tick, Start, Stop, vars, control, TypeOK
  <2>2. UNCHANGED <<bucketvars, callers, charged>>
    BY <1>9 DEF Tick, Start, Stop, vars
  <2>4. now' \in Nat
    BY <1>1, <2>1 DEF TypeOK
  <2> QED
    BY <1>1, <2>2, <2>3, <2>4 DEF bucketvars, callers, TypeOK
<1> QED
  BY <1>4, <1>5, <1>6, <1>7, <1>8, <1>9 DEF Next, CallerStep

-------------------------------------------------------------------------------
(* The rate                                                                *)

LEMMA BucketStep ==
    ASSUME IInv, [Next]_vars
    PROVE  BucketOK' /\ RateBound'
<1>1. TypeOK /\ BucketOK /\ RateBound /\ TypeOK'
  BY TypeStep DEF IInv
<1>2. Cardinality(charged) \in Nat /\ Capacity \in Nat /\ Cost \in Nat \ {0}
  BY <1>1, FS_CardinalityType, LimiterAssumption DEF BucketOK
<1>3. HasTokens(0)
  BY <1>1, LevelFacts, LimiterAssumption DEF HasTokens
<1>4. ASSUME NEW k \in Nat, NEW S, HasTokens(k), Refill(k), now' = now,
             charged' = charged \cup S, IsFiniteSet(S), Cardinality(S) <= k
      PROVE  BucketOK' /\ RateBound'
  <2>1. /\ tokens' \in Nat /\ tokens' <= Capacity
        /\ last_update' = now'
        /\ Level' = Level - k * Cost
    BY <1>1, <1>4, RefillFacts
  <2>2. /\ IsFiniteSet(charged')
        /\ Cardinality(charged') <= Cardinality(charged) + k
        /\ Cardinality(charged') \in Nat
    <3>1. /\ IsFiniteSet(charged \cup S)
          /\ Cardinality(charged \cup S)
               = Cardinality(charged) + Cardinality(S) - Cardinality(charged \cap S)
      BY <1>1, <1>4, FS_Union DEF BucketOK
    <3>2. IsFiniteSet(charged \cap S)
      BY <1>4, FS_Intersection
    <3>3. Cardinality(charged \cap S) \in Nat /\ Cardinality(charged \cup S) \in Nat /\ Cardinality(S) \in Nat
      BY <1>4, <3>1, <3>2, FS_CardinalityType
    <3> QED
      BY <1>2, <1>4, <3>1, <3>3
  <2>3. Cost * Cardinality(charged') <= Cost * Cardinality(charged) + k * Cost
    BY <1>2, <2>2
  <2>4. /\ Cost * Cardinality(charged') \in Nat
        /\ Cost * Cardinality(charged) \in Nat
        /\ k * Cost \in Nat /\ Level \in Nat /\ now \in Nat
    BY <1>1, <1>2, <2>2, LevelFacts, Product DEF TypeOK
  <2>5. Cost * Cardinality(charged) + Level <= Capacity + now
    BY <1>1 DEF RateBound
  <2>6. RateBound'
    <3>1. Cost * Cardinality(charged') + (Level - k * Cost) <= Capacity + now
      BY <1>2, <2>3, <2>4, <2>5
    <3> QED
      BY <1>4, <2>1, <3>1 DEF RateBound
  <2>7. BucketOK'
    BY <1>1, <2>1, <2>2 DEF BucketOK, TypeOK
  <2> QED
    BY <2>6, <2>7
<1>5. ASSUME UNCHANGED <<now, bucketvars, charged>>
      PROVE  BucketOK' /\ RateBound'
  BY <1>1, <1>5 DEF BucketOK, RateBound, Level, bucketvars
<1>6. CASE Tick
  <2>1. tokens' = tokens /\ last_update' = last_update /\ charged' = charged /\ now' = now + 1
    BY <1>6 DEF Tick, bucketvars
  <2>2. BucketOK'
    BY <1>1, <2>1 DEF BucketOK, TypeOK
  <2>3. Level \in Nat /\ Level' \in Nat /\ Level' <= Level + 1
    <3>1. /\ tokens \in Nat /\ last_update \in Nat /\ now \in Nat /\ last_update <= now
          /\ tokens' = tokens /\ last_update' = last_update /\ now' = now + 1
      BY <1>1, <2>1 DEF TypeOK, BucketOK
    <3> QED
      BY <1>2, <3>1 DEF Level
  <2>4. Cost * Cardinality(charged) \in Nat
    BY <1>2
  <2>5. RateBound'
    BY <1>1, <1>2, <2>1, <2>3, <2>4 DEF RateBound, TypeOK
  <2> QED
    BY <2>2, <2>5
<1>7. ASSUME NEW r \in Requests, Acquire(r)
      PROVE  BucketOK' /\ RateBound'
  <2>1. CASE Admit(r)
    <3>1. IsFiniteSet({r}) /\ Cardinality({r}) = 1
      BY FS_Singleton
    <3> QED
      BY <1>4, <2>1, <3>1 DEF Admit
  <2>2. CASE Deny(r) \/ Enqueue(r)
    <3>1. IsFiniteSet({}) /\ Cardinality({}) = 0 /\ charged' = charged \cup {}
      BY <2>2, FS_EmptySet DEF Deny, Enqueue
    <3> QED
      BY <1>3, <1>4, <2>2, <3>1 DEF Deny, Enqueue
  <2> QED
    BY <1>7, <2>1, <2>2 DEF Acquire
<1>8. ASSUME NEW k \in 0 .. Len(request_queue), Process(k)
      PROVE  BucketOK' /\ RateBound'
  <2>1. k \in 0 .. Len(InTime) /\ HasTokens(k) /\ now' = now /\ charged' = charged \cup Served(k)
    BY <1>8 DEF Process, Served
  <2>2. k \in Nat /\ IsFiniteSet(Served(k)) /\ Cardinality(Served(k)) = k
    BY <2>1, PassFacts
  <2>3. CASE InTime # <<>>
    BY <1>4, <1>8, <2>1, <2>2, <2>3 DEF Process
  <2>4. CASE InTime = <<>>
    <3>1. k = 0
      BY <2>1, <2>4
    <3>2. Served(k) = {}
      BY <3>1 DEF Served
    <3> QED
      BY <1>5, <1>8, <2>1, <2>4, <3>2 DEF Process
  <2> QED
    BY <2>3, <2>4
<1>9. ASSUME NEW r \in Requests, TimerFires(r) \/ CallerCancelled(r) \/ Resume(r)
      PROVE  BucketOK' /\ RateBound'
  BY <1>5, <1>9 DEF TimerFires, CallerCancelled, Resume, ResumeAllowed, ResumeDenied,
                    ResumeRaised, Resumes, bucketvars
<1>10. CASE Start \/ Stop \/ Stopped \/ UNCHANGED vars
  BY <1>5, <1>10 DEF Start, Stop, Stopped, vars, bucketvars
<1> QED
  BY <1>6, <1>7, <1>8, <1>9, <1>10 DEF Next, CallerStep

-------------------------------------------------------------------------------
(* The deque                                                               *)

LineOK == Remembered /\ InOrder(request_queue) /\ Arrived

LEMMA LineStep ==
    ASSUME IInv, [Next]_vars
    PROVE  LineOK'
<1>1. /\ TypeOK /\ Remembered /\ InOrder(request_queue) /\ Arrived /\ Fresh
      /\ request_queue \in Seq(Requests) /\ IsInjective(request_queue)
      /\ now \in Nat
  BY DEF IInv, TypeOK, Remembered
<1>2. ASSUME UNCHANGED <<request_queue, timestamp>>, now' = now,
             \A r \in Requests : future'[r] = "pending" => future[r] = "pending"
      PROVE  LineOK'
  BY <1>1, <1>2 DEF LineOK, Remembered, InOrder, Arrived
<1>3. ASSUME NEW r \in Requests, Enqueue(r)
      PROVE  LineOK'
  <2> DEFINE q == request_queue
  <2>1. future[r] = "none" /\ q' = Append(q, r) /\ now' = now
    BY <1>3 DEF Enqueue, New
  <2>2. r \notin Range(q)
    BY <1>1, <2>1 DEF Fresh
  <2>3. IsInjective(q') /\ Range(q') = Range(q) \cup {r}
    BY <1>1, <2>1, <2>2, AppendLine
  <2>4. timestamp'[r] = now /\ \A x \in Requests \ {r} : timestamp'[x] = timestamp[x]
    BY <1>1, <1>3 DEF Enqueue, TypeOK
  <2>5. \A x \in Requests \ {r} : future'[x] = future[x]
    BY <1>1, <1>3 DEF Enqueue, TypeOK
  <2>6. Remembered'
    BY <1>1, <2>3, <2>5 DEF Remembered
  <2>7. Arrived'
    BY <1>1, <2>1, <2>4 DEF Arrived, TypeOK
  <2>8. InOrder(q)'
    <3>1. /\ Len(q) \in Nat /\ DOMAIN q = 1 .. Len(q) /\ DOMAIN q' = 1 .. Len(q) + 1
          /\ \A i \in 1 .. Len(q) : q'[i] = q[i] /\ q[i] \in Requests \ {r}
          /\ q'[Len(q) + 1] = r
      BY <1>1, <2>1, <2>2, LenProperties, AppendProperties, ElementOfSeq DEF Range
    <3> SUFFICES ASSUME NEW i \in 1 .. Len(q) + 1, NEW j \in 1 .. Len(q) + 1, i <= j
                 PROVE  timestamp'[q'[i]] <= timestamp'[q'[j]]
      BY <3>1 DEF InOrder
    <3>2. CASE j \in 1 .. Len(q)
      <4>1. i \in 1 .. Len(q)
        BY <3>1, <3>2
      <4>2. timestamp[q[i]] <= timestamp[q[j]]
        BY <1>1, <3>1, <3>2, <4>1 DEF InOrder
      <4> QED
        BY <2>4, <3>1, <3>2, <4>1, <4>2
    <3>3. CASE j = Len(q) + 1
      <4>1. q'[i] \in Requests /\ timestamp'[q'[j]] = now
        BY <2>4, <3>1, <3>3
      <4>2. timestamp'[q'[i]] <= now
        BY <2>1, <2>7, <4>1 DEF Arrived
      <4> QED
        BY <4>1, <4>2
    <3> QED
      BY <3>1, <3>2, <3>3
  <2> QED
    BY <2>6, <2>7, <2>8 DEF LineOK
<1>4. ASSUME NEW r \in Requests, Admit(r) \/ Deny(r)
      PROVE  LineOK'
  BY <1>2, <1>4 DEF Admit, Deny
<1>5. ASSUME NEW r \in Requests, TimerFires(r) \/ CallerCancelled(r)
      PROVE  LineOK'
  <2>1. \A x \in Requests : future'[x] = "pending" => future[x] = "pending"
    BY <1>5 DEF TimerFires, CallerCancelled, Settle
  <2> QED
    BY <1>2, <1>5, <2>1 DEF TimerFires, CallerCancelled
<1>6. ASSUME NEW r \in Requests, Resume(r)
      PROVE  LineOK'
  <2>1. CASE ResumeDenied(r)
    <3>1. /\ IsInjective(request_queue') /\ InOrder(request_queue)'
          /\ Range(request_queue') = Range(request_queue) \ {r}
      BY <1>1, <2>1, DequeuedFacts DEF ResumeDenied, Resumes
    <3> QED
      BY <1>1, <2>1, <3>1 DEF ResumeDenied, Resumes, LineOK, Remembered, Arrived
  <2>2. CASE ResumeAllowed(r) \/ ResumeRaised(r)
    BY <1>2, <2>2 DEF ResumeAllowed, ResumeRaised, Resumes
  <2> QED
    BY <1>6, <2>1, <2>2 DEF Resume
<1>7. ASSUME NEW k \in 0 .. Len(request_queue), Process(k)
      PROVE  LineOK'
  <2>1. /\ k \in 0 .. Len(InTime) /\ request_queue' = SubSeq(InTime, k + 1, Len(InTime))
        /\ timestamp' = timestamp /\ now' = now
    BY <1>7 DEF Process
  <2>2. /\ IsInjective(request_queue') /\ InOrder(request_queue')
        /\ Range(request_queue') = {r \in Range(request_queue) : ~IsExpired(r)} \ Served(k)
    BY <2>1, PassFacts
  <2>3. ASSUME NEW r \in Requests, future'[r] = "pending"
        PROVE  r \in Range(request_queue')
    <3>1. future' = Outcomes(k)
      BY <1>7 DEF Process
    <3>2. /\ future[r] = "pending" /\ r \notin Served(k)
          /\ ~(r \in Range(request_queue) /\ IsExpired(r))
      BY <2>3, <3>1 DEF Outcomes, Served
    <3> QED
      BY <1>1, <2>2, <3>2 DEF Remembered
  <2> QED
    BY <1>1, <2>1, <2>2, <2>3 DEF LineOK, Remembered, InOrder, Arrived
<1>8. CASE Stopped
  <2>1. request_queue' = <<>> /\ timestamp' = timestamp /\ now' = now
    BY <1>8 DEF Stopped
  <2>2. \A r \in Requests : future'[r] # "pending"
    BY <1>1, <1>8 DEF Stopped, Settle, Remembered
  <2>3. DOMAIN request_queue' = {}
    BY <2>1
  <2> QED
    BY <1>1, <2>1, <2>2, <2>3 DEF LineOK, Remembered, InOrder, Arrived, IsInjective
<1>9. CASE Tick \/ Start \/ Stop \/ UNCHANGED vars
  <2>1. UNCHANGED <<request_queue, timestamp, future>> /\ (now' = now + 1 \/ now' = now)
    BY <1>9 DEF Tick, Start, Stop, vars, callers
  <2>2. \A r \in Requests : timestamp[r] \in Nat
    BY <1>1 DEF TypeOK
  <2> QED
    BY <1>1, <2>1, <2>2 DEF LineOK, Remembered, InOrder, Arrived
<1> QED
  BY <1>3, <1>4, <1>5, <1>6, <1>7, <1>8, <1>9 DEF Next, CallerStep, Acquire

-------------------------------------------------------------------------------
(* The callers                                                             *)

CallersOK == Fresh /\ Broken /\ AllowedIsPaid /\ WasteExplained

LEMMA CallersStep ==
    ASSUME IInv, [Next]_vars
    PROVE  CallersOK'
<1>1. /\ TypeOK /\ Fresh /\ Broken /\ AllowedIsPaid /\ WasteExplained
      /\ charged \subseteq Requests
  BY DEF IInv, TypeOK
<1>2. ASSUME NEW r \in Requests, New(r)
      PROVE  r \notin charged /\ r \notin Range(request_queue) /\ leaving[r] = "no"
  BY <1>1, <1>2 DEF New, Fresh, Broken, WasteExplained
<1>3. ASSUME NEW r \in Requests, Acquire(r)
      PROVE  CallersOK'
  <2>1. New(r) /\ leaving' = leaving
    BY <1>3 DEF Acquire, Admit, Deny, Enqueue
  <2>2. r \notin charged /\ r \notin Range(request_queue) /\ leaving[r] = "no"
    BY <1>2, <2>1
  <2>3. CASE Admit(r)
    BY <1>1, <2>2, <2>3 DEF Admit, CallersOK, Fresh, Broken, AllowedIsPaid, WasteExplained, TypeOK
  <2>4. CASE Deny(r)
    BY <1>1, <2>2, <2>4 DEF Deny, CallersOK, Fresh, Broken, AllowedIsPaid, WasteExplained, TypeOK
  <2>5. CASE Enqueue(r)
    <3>1. Range(request_queue') = Range(request_queue) \cup {r}
      BY <1>1, <2>2, <2>5, AppendLine DEF Enqueue, IInv, Remembered, TypeOK
    <3> QED
      BY <1>1, <2>2, <2>5, <3>1
         DEF Enqueue, CallersOK, Fresh, Broken, AllowedIsPaid, WasteExplained, TypeOK
  <2> QED
    BY <1>3, <2>3, <2>4, <2>5 DEF Acquire
<1>4. ASSUME NEW r \in Requests, TimerFires(r) \/ CallerCancelled(r)
      PROVE  CallersOK'
  <2>1. /\ \A x \in Requests : future'[x] = future[x]
                 \/ (x = r /\ future[x] = "pending" /\ future'[x] = "cancelled")
        /\ future[r] # "none"
        /\ leaving'[r] # "no" /\ \A x \in Requests \ {r} : leaving'[x] = leaving[x]
        /\ UNCHANGED <<request_queue, answer, charged>>
    BY <1>1, <1>4 DEF TimerFires, CallerCancelled, Settle, Waiting, TypeOK
  <2>2. Range(request_queue) \subseteq Requests
    BY <1>1, ElementOfSeq, LenProperties DEF TypeOK, Range
  <2> QED
    BY <1>1, <2>1, <2>2 DEF CallersOK, Fresh, Broken, AllowedIsPaid, WasteExplained
<1>5. ASSUME NEW r \in Requests, Resume(r)
      PROVE  CallersOK'
  <2>1. /\ Waiting(r) /\ UNCHANGED <<future, leaving, charged>>
        /\ \A x \in Requests \ {r} : answer'[x] = answer[x]
        /\ answer'[r] = "allowed" => future[r] = "result"
    BY <1>1, <1>5 DEF Resume, ResumeAllowed, ResumeDenied, ResumeRaised, Resumes, TypeOK
  <2>2. Range(request_queue') \subseteq Range(request_queue)
    <3>1. CASE ResumeDenied(r)
      BY <3>1, DequeuedFacts DEF ResumeDenied, Resumes, IInv
    <3> QED
      BY <1>5, <3>1 DEF Resume, ResumeAllowed, ResumeRaised
  <2> QED
    BY <1>1, <2>1, <2>2 DEF Waiting, CallersOK, Fresh, Broken, AllowedIsPaid, WasteExplained
<1>6. ASSUME NEW k \in 0 .. Len(request_queue), Process(k)
      PROVE  CallersOK'
  <2>1. /\ k \in 0 .. Len(InTime) /\ request_queue' = SubSeq(InTime, k + 1, Len(InTime))
        /\ charged' = charged \cup Served(k) /\ future' = Outcomes(k)
        /\ UNCHANGED <<leaving, answer>>
    BY <1>6 DEF Process, Served
  <2>2. /\ Served(k) \subseteq Range(request_queue) /\ Served(k) \subseteq Requests
        /\ Range(request_queue') = {r \in Range(request_queue) : ~IsExpired(r)} \ Served(k)
    BY <2>1, PassFacts
  <2>3. \A r \in Requests :
           /\ future[r] # "pending" => future'[r] = future[r]
           /\ future[r] = "pending" /\ r \in Served(k) => future'[r] = "result"
           /\ future[r] = "pending" /\ r \notin Served(k) => future'[r] \in {"expired", "pending"}
    BY <2>1 DEF Outcomes, Served
  <2>4. Range(request_queue) \subseteq Requests
    BY <1>1, ElementOfSeq, LenProperties DEF TypeOK, Range
  <2>5. Fresh'
    <3>1. ASSUME NEW r \in Range(request_queue')
          PROVE  r \notin charged' /\ future'[r] \in {"pending", "cancelled"}
      <4>1. r \in Range(request_queue) /\ ~IsExpired(r) /\ r \notin Served(k)
        BY <2>2
      <4>2. r \notin charged' /\ future[r] \in {"pending", "cancelled"}
        BY <1>1, <2>1, <4>1 DEF Fresh
      <4> QED
        BY <2>1, <2>4, <4>1, <4>2 DEF Outcomes, Served
    <3> QED
      BY <3>1 DEF Fresh
  <2>6. Broken'
    BY <1>1, <2>1, <2>3 DEF Broken
  <2>7. AllowedIsPaid'
    BY <1>1, <2>1, <2>3 DEF AllowedIsPaid
  <2>8. WasteExplained'
    BY <1>1, <2>1, <2>2, <2>3 DEF WasteExplained, Fresh, Broken
  <2> QED
    BY <2>5, <2>6, <2>7, <2>8 DEF CallersOK
<1>7. CASE Stopped
  <2>1. /\ \A r \in Requests : future'[r] = future[r]
                 \/ (future[r] = "pending" /\ future'[r] = "shutdown")
        /\ request_queue' = <<>> /\ UNCHANGED <<leaving, answer, charged>>
    BY <1>7 DEF Stopped, Settle
  <2>2. Range(request_queue') = {}
    BY <2>1 DEF Range
  <2> QED
    BY <1>1, <2>1, <2>2 DEF CallersOK, Fresh, Broken, AllowedIsPaid, WasteExplained
<1>8. CASE Tick \/ Start \/ Stop \/ UNCHANGED vars
  <2>1. UNCHANGED <<callers, charged>>
    BY <1>8 DEF Tick, Start, Stop, vars
  <2> QED
    BY <1>1, <2>1 DEF callers, CallersOK, Fresh, Broken, AllowedIsPaid, WasteExplained
<1> QED
  BY <1>3, <1>4, <1>5, <1>6, <1>7, <1>8 DEF Next, CallerStep

-------------------------------------------------------------------------------
(* The theorems                                                            *)

LEMMA InitHolds == Init => IInv
<1> SUFFICES ASSUME Init PROVE IInv
  OBVIOUS
<1>1. DOMAIN request_queue = {} /\ Range(request_queue) = {} /\ request_queue \in Seq(Requests)
  BY EmptySeq DEF Init, Range
<1>2. TypeOK
  BY <1>1, LimiterAssumption DEF Init, TypeOK
<1>3. IsFiniteSet({}) /\ Cardinality({}) = 0
  BY FS_EmptySet
<1>4. BucketOK /\ RateBound
  BY <1>3, LimiterAssumption DEF Init, BucketOK, RateBound, Level
<1>5. Remembered /\ InOrder(request_queue) /\ Arrived
  BY <1>1 DEF Init, Remembered, InOrder, Arrived, IsInjective
<1>6. Fresh /\ Broken /\ AllowedIsPaid /\ WasteExplained
  BY <1>1 DEF Init, Fresh, Broken, AllowedIsPaid, WasteExplained
<1> QED
  BY <1>2, <1>4, <1>5, <1>6 DEF IInv

LEMMA LimiterInvariant == Spec => []IInv
<1>1. IInv /\ [Next]_vars => IInv'
  BY TypeStep, BucketStep, LineStep, CallersStep DEF IInv, LineOK, CallersOK
<1> QED
  BY <1>1, InitHolds, PTL DEF Spec

(* The limiter stays within its types: the bucket is never overdrawn.      *)
THEOREM TypeCorrect == Spec => []TypeOK
  BY LimiterInvariant, PTL DEF IInv

(* consume never lets more tokens go than the burst and the refill of the  *)
(* time that has passed, whoever asks and whenever.                        *)
THEOREM AlwaysRateBound == Spec => []RateBound
  BY LimiterInvariant, PTL DEF IInv

(* Sweeps, timeouts, cancellations and stops never lose a caller of        *)
(* acquire that still waits.                                               *)
THEOREM AlwaysRemembered == Spec => []Remembered
  BY LimiterInvariant, PTL DEF IInv

(* acquire lets nobody through without a token of its own.                 *)
THEOREM AlwaysPaid == Spec => []AllowedIsPaid
  BY LimiterInvariant, PTL DEF IInv

(* The processor spends a token for nothing only on a caller that leaves.  *)
THEOREM AlwaysWasteExplained == Spec => []WasteExplained
  BY LimiterInvariant, PTL DEF IInv

-------------------------------------------------------------------------------
(* The bucket filled when it is asked is a bucket filled all the time.     *)

LEMMA TickRefines ==
    ASSUME IInv, Tick
    PROVE  Bucket!Tick
<1>1. /\ tokens \in Nat /\ last_update \in Nat /\ now \in Nat /\ last_update <= now
      /\ Capacity \in Nat
      /\ tokens' = tokens /\ last_update' = last_update /\ now' = now + 1
      /\ charged' = charged
  BY LimiterAssumption DEF Tick, bucketvars, IInv, TypeOK, BucketOK
<1>2. Level' = IF Level < Capacity THEN Level + 1 ELSE Level
  BY <1>1 DEF Level
<1> QED
  BY <1>1, <1>2 DEF Bucket!Tick

\* k tokens taken for requests that have none yet.
LEMMA TakeRefines ==
    ASSUME IInv, NEW k \in Nat, NEW S, HasTokens(k), Refill(k), now' = now,
           charged' = charged \cup S, S \cap charged = {},
           IsFiniteSet(S), Cardinality(S) = k
    PROVE  Bucket!Next
<1>1. TypeOK /\ BucketOK
  BY DEF IInv
<1>2. k * Cost \in Nat /\ k <= k * Cost /\ Level \in Nat /\ Cost * k = k * Cost
  BY <1>1, Product, LevelFacts, LimiterAssumption
<1>3. Level' = Level - k * Cost
  BY <1>1, RefillFacts
<1>4. Cardinality(charged \cup S)
        = Cardinality(charged) + Cardinality(S) - Cardinality(charged \cap S)
  BY <1>1, FS_Union DEF BucketOK
<1>5. Cardinality(charged \cap S) = 0 /\ Cardinality(charged) \in Nat
  BY <1>1, FS_EmptySet, FS_CardinalityType DEF BucketOK
<1>6. Cardinality(charged') = Cardinality(charged) + k
  BY <1>4, <1>5
<1>7. Bucket!Take(k)
  BY <1>3, <1>6 DEF HasTokens, Bucket!Take
<1>8. k \in 0 .. Level
  BY <1>2 DEF HasTokens
<1> QED
  BY <1>7, <1>8 DEF Bucket!Next

LEMMA StepRefines ==
    ASSUME IInv, [Next]_vars
    PROVE  [Bucket!Next]_(Bucket!bucket)
<1>1. CASE Tick
  BY <1>1, TickRefines DEF Bucket!Next
<1>2. ASSUME NEW r \in Requests, Admit(r)
      PROVE  Bucket!Next
  <2>1. r \notin charged
    BY <1>2 DEF Admit, New, IInv, WasteExplained, Broken
  <2>2. IsFiniteSet({r}) /\ Cardinality({r}) = 1
    BY FS_Singleton
  <2> QED
    BY <1>2, <2>1, <2>2, TakeRefines DEF Admit
<1>3. ASSUME NEW k \in 0 .. Len(request_queue), Process(k), InTime # <<>>
      PROVE  Bucket!Next
  <2>1. k \in 0 .. Len(InTime) /\ HasTokens(k) /\ Refill(k) /\ now' = now
        /\ charged' = charged \cup Served(k)
    BY <1>3 DEF Process, Served
  <2>2. /\ k \in Nat /\ IsFiniteSet(Served(k)) /\ Cardinality(Served(k)) = k
        /\ Served(k) \subseteq Range(request_queue)
    BY <2>1, PassFacts
  <2>3. Served(k) \cap charged = {}
    BY <2>2 DEF IInv, Fresh
  <2> QED
    BY <2>1, <2>2, <2>3, TakeRefines
<1>4. ASSUME NEW k \in 0 .. Len(request_queue), Process(k), InTime = <<>>
      PROVE  UNCHANGED <<now, bucketvars, charged>>
  <2>1. k = 0
    BY <1>4 DEF Process
  <2> QED
    BY <1>4, <2>1 DEF Process, bucketvars
<1>5. ASSUME NEW r \in Requests, Deny(r) \/ Enqueue(r)
      PROVE  UNCHANGED <<now, Level, charged>>
  <2>1. HasTokens(0)
    BY LevelFacts, LimiterAssumption DEF HasTokens, IInv
  <2>2. Level \in Nat /\ Level' = Level - 0 * Cost
    BY <1>5, <2>1, LevelFacts, RefillFacts DEF Deny, Enqueue, IInv
  <2> QED
    BY <1>5, <2>2, LimiterAssumption DEF Deny, Enqueue
<1>6. ASSUME NEW r \in Requests, TimerFires(r) \/ CallerCancelled(r) \/ Resume(r)
      PROVE  UNCHANGED <<now, bucketvars, charged>>
  BY <1>6 DEF TimerFires, CallerCancelled, Resume, ResumeAllowed, ResumeDenied, ResumeRaised,
              Resumes
<1>7. CASE Start \/ Stop \/ Stopped \/ UNCHANGED vars
  <2>1. UNCHANGED <<now, bucketvars, charged>>
    BY <1>7 DEF Start, Stop, Stopped, vars
  <2> QED
    BY <2>1 DEF bucketvars, Level, Bucket!bucket
<1>8. ASSUME UNCHANGED <<now, bucketvars, charged>>
      PROVE  UNCHANGED Bucket!bucket
  BY <1>8 DEF bucketvars, Level, Bucket!bucket
<1>9. ASSUME UNCHANGED <<now, Level, charged>>
      PROVE  UNCHANGED Bucket!bucket
  BY <1>9 DEF Bucket!bucket
<1> QED
  BY <1>1, <1>2, <1>3, <1>4, <1>5, <1>6, <1>7, <1>8, <1>9 DEF Next, CallerStep, Acquire

(* The limiter implements the abstract token bucket: refilling it when it  *)
(* is asked neither adds nor forgets anything.                             *)
THEOREM Refinement == Spec => ImplementsBucket
<1>1. Init => Bucket!Init
  BY FS_EmptySet, LimiterAssumption DEF Init, Bucket!Init, Level
<1>2. IInv /\ [Next]_vars => [Bucket!Next]_(Bucket!bucket)
  BY StepRefines
<1> QED
  BY <1>1, <1>2, LimiterInvariant, PTL DEF Spec, Bucket!Spec, ImplementsBucket
===============================================================================

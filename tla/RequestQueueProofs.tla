-------------------------- MODULE RequestQueueProofs --------------------------
(***************************************************************************)
(* Proofs about RequestQueue, for any requests, workers, providers,        *)
(* strategy and limits.                                                    *)
(***************************************************************************)
EXTENDS RequestQueue, LineLemmas

Handling(w) == worker[w].pc # "idle"

\* Where a request is on its way to an answer.
InHand ==
    Range(queue) \cup sleeping
    \cup {r \in Requests : \E w \in Workers : Handling(w) /\ worker[w].req = r}

\* Every request of the queue has a provider that the selection knows.
KnownProviders ==
    PerProvider =>
      \A r \in active \cup Range(queue) : Provider[r] \in Range(provider_order)

\* OneHand, for the requests whose callback a worker awaits too.
Hands ==
    /\ IsInjective(queue)
    /\ sleeping \cap Range(queue) = {}
    /\ \A w \in Workers : Handling(w) =>
         /\ worker[w].req \notin Range(queue) \cup sleeping
         /\ \A v \in Workers \ {w} : Handling(v) => worker[v].req # worker[w].req

\* Nothing has happened to a request that was not enqueued.
Untouched ==
    \A r \in Requests : future[r] = "none" =>
      /\ r \notin active \cup InHand
      /\ retry_count[r] = 0 /\ tries[r] = 0 /\ reports[r] = 0
      /\ r \in Waiters => leaving[r] = "no"

\* A callback is awaited, and a wait broken off, only after the answer.
Answered ==
    /\ \A w \in Workers : worker[w].pc = "callback" => future[worker[w].req] \in Settled
    /\ sweep.req # NoRequest => sweep.req \notin Waiters /\ future[sweep.req] \in Settled
    /\ \A r \in Waiters : leaving[r] # "no" => future[r] = "cancelled"

SweepOK ==
    /\ sweep.todo \subseteq expired
    /\ sweep # IdleSweep => ~stopping

Wanted(r) == future[r] = "pending" \/ (r \in Waiters /\ leaving[r] # "no")

\* What waits to be sent is wanted, by its caller or one that leaves.
QueueWanted ==
    /\ \A r \in Range(queue) :
         /\ Wanted(r)
         /\ r \in Waiters /\ leaving[r] = "timed_out" => r \in active
    /\ \A r \in ToReport : r \in active \ expired => Wanted(r)

\* A request was tried as often as it was retried, and once more.
Counted ==
    /\ \A r \in Range(queue) \cup sleeping : tries[r] = retry_count[r]
    /\ \A r \in sleeping : retry_count[r] > 0
    /\ \A w \in Workers : Processing(w) => tries[worker[w].req] = retry_count[worker[w].req] + 1
    /\ \A r \in Requests : tries[r] <= MaxRetries + 1

\* A worker reports what leaves its hands, the sweep what leaves the table.
Reported ==
    \A r \in Requests :
      reports[r] <= (IF r \in ToReport THEN 0 ELSE 1)
                    + (IF r \in active /\ sweep.req # r /\ ~stopping THEN 0 ELSE 1)

\* The inductive invariant.
IInv ==
    /\ TypeOK
    /\ KnownProviders
    /\ Hands /\ Untouched /\ Answered
    /\ Tracked /\ SweepOK /\ QueueWanted
    /\ Counted /\ Reported /\ NewcomersFit

-------------------------------------------------------------------------------
(* The choice of the next request                                          *)

LEMMA FirstFacts ==
    ASSUME queue \in Seq(Requests), NEW S, NEW k \in DOMAIN queue, queue[k] \in S
    PROVE  First(S) \in DOMAIN queue /\ queue[First(S)] \in S
<1> DEFINE T == {i \in DOMAIN queue : queue[i] \in S}
<1>1. DOMAIN queue = 1 .. Len(queue) /\ Len(queue) \in Nat
  BY LenProperties
<1>2. T \subseteq Nat /\ T # {}
  BY <1>1
<1>3. PICK i \in T : \A j \in T : i <= j
  BY <1>2, LeastNumber
<1> QED
  BY <1>3 DEF First

LEMMA OldestFacts ==
    ASSUME queue \in Seq(Requests), NEW p \in NonEmpty
    PROVE  Oldest(p) \in DOMAIN queue /\ queue[Oldest(p)] \in Requests
<1>1. PICK k \in DOMAIN queue : p = Provider[queue[k]] /\ queue[k] \in Requests
  BY LenProperties, ElementOfSeq DEF NonEmpty, Range
<1>2. queue[k] \in {r \in Requests : Provider[r] = p}
  BY <1>1
<1> QED
  BY <1>2, FirstFacts DEF Oldest

LEMMA NextInQueue ==
    ASSUME TypeOK, KnownProviders, queue # <<>>
    PROVE  NextRequest \in DOMAIN queue
<1> USE QueueAssumption
<1>1. /\ queue \in Seq(Requests) /\ Len(queue) \in Nat /\ 1 \in DOMAIN queue
      /\ DOMAIN queue = 1 .. Len(queue)
      /\ \A i \in DOMAIN queue : queue[i] \in Requests
  BY LenProperties, ElementOfSeq, EmptySeq DEF TypeOK
<1>2. /\ Range(queue) \subseteq Requests /\ queue[1] \in Range(queue)
      /\ \A r \in Range(queue) : Priority[r] \in 1 .. 4
  BY <1>1 DEF Range
<1>3. Provider[queue[1]] \in NonEmpty
  BY <1>2 DEF NonEmpty
<1>4. ASSUME PerProvider, NEW p \in NonEmpty
      PROVE  Rank(p) \in Nat
  <2>1. p \in Range(provider_order)
    BY <1>4 DEF KnownProviders, NonEmpty
  <2>2. DOMAIN provider_order \subseteq Nat
    BY LenProperties DEF TypeOK
  <2>3. \E i \in DOMAIN provider_order : provider_order[i] = p
    BY <2>1 DEF Range
  <2> QED
    BY <2>2, <2>3 DEF Rank
<1>5. CASE Strategy = "fifo"
  BY <1>1, <1>5 DEF NextRequest
<1>6. CASE Strategy = "priority"
  <2> DEFINE T == {4 - Priority[r] : r \in Range(queue)}
  <2>1. T \subseteq Nat /\ T # {}
    BY <1>2
  <2>2. PICK m \in T : \A n \in T : m <= n
    BY <2>1, LeastNumber
  <2>3. PICK r \in Range(queue) : m = 4 - Priority[r]
    BY <2>2
  <2>4. ASSUME NEW s \in Range(queue)
        PROVE  Priority[s] <= Priority[r]
    <3>1. 4 - Priority[r] <= 4 - Priority[s]
      BY <2>2, <2>3
    <3> QED
      BY <1>2, <3>1
  <2>5. PICK k \in DOMAIN queue : queue[k] = r
    BY DEF Range
  <2>6. TopPriority \in DOMAIN queue
    BY <1>1, <2>4, <2>5, FirstFacts DEF TopPriority
  <2> QED
    BY <1>6, <2>6 DEF NextRequest
<1>7. CASE Strategy = "round_robin"
  <2> DEFINE T == {Rank(p) : p \in NonEmpty}
  <2>1. T \subseteq Nat /\ T # {}
    BY <1>3, <1>4, <1>7 DEF PerProvider
  <2>2. PICK m \in T : \A n \in T : m <= n
    BY <2>1, LeastNumber
  <2>3. PICK p \in NonEmpty : m = Rank(p)
    BY <2>2
  <2>4. \A q \in NonEmpty : Rank(p) <= Rank(q)
    BY <2>2, <2>3
  <2>5. FirstProvider \in NonEmpty
    BY <2>4 DEF FirstProvider
  <2> QED
    BY <1>1, <1>7, <2>5, OldestFacts DEF NextRequest
<1>8. CASE Strategy = "weighted_fair"
  <2> DEFINE prio(p) == Priority[queue[Oldest(p)]]
             T == {4 - prio(p) : p \in NonEmpty}
  <2>1. \A p \in NonEmpty : prio(p) \in 1 .. 4
    BY <1>1, OldestFacts
  <2> HIDE DEF prio
  <2>2. T \subseteq Nat /\ T # {}
    BY <1>3, <2>1
  <2>3. PICK m \in T : \A n \in T : m <= n
    BY <2>2, LeastNumber
  <2> DEFINE U == {Rank(p) : p \in {q \in NonEmpty : 4 - prio(q) = m}}
  <2>4. U \subseteq Nat /\ U # {}
    BY <1>4, <1>8, <2>3 DEF PerProvider
  <2>5. PICK u \in U : \A n \in U : u <= n
    BY <2>4, LeastNumber
  <2>6. PICK p \in NonEmpty : 4 - prio(p) = m /\ Rank(p) = u
    BY <2>5
  <2>7. ASSUME NEW q \in NonEmpty
        PROVE  prio(p) > prio(q) \/ (prio(p) = prio(q) /\ Rank(p) <= Rank(q))
    <3>1. m <= 4 - prio(q) /\ prio(p) \in 1 .. 4 /\ prio(q) \in 1 .. 4
      BY <2>1, <2>3
    <3>2. CASE 4 - prio(q) = m
      BY <2>5, <2>6, <3>1, <3>2
    <3>3. CASE 4 - prio(q) # m
      BY <2>6, <3>1, <3>3
    <3> QED
      BY <3>2, <3>3
  <2>8. WeightedProvider \in NonEmpty
    BY <2>7 DEF WeightedProvider, prio
  <2> QED
    BY <1>1, <1>8, <2>8, OldestFacts DEF NextRequest
<1> QED
  BY <1>5, <1>6, <1>7, <1>8

-------------------------------------------------------------------------------
(* What becomes of the queue                                               *)

Joins(r) ==
    /\ queue' \in Seq(Requests) /\ IsInjective(queue')
    /\ Range(queue') = Range(queue) \cup {r}

Leaves(r) ==
    /\ queue' \in Seq(Requests) /\ IsInjective(queue')
    /\ Range(queue') = Range(queue) \ {r}

LEMMA AppendFacts ==
    ASSUME TypeOK, Hands, NEW r \in Requests, r \notin Range(queue), queue' = Append(queue, r)
    PROVE  Joins(r)
<1>1. queue \in Seq(Requests) /\ IsInjective(queue)
  BY DEF TypeOK, Hands
<1>2. Append(queue, r) \in Seq(Requests)
  BY <1>1, AppendProperties
<1> QED
  BY <1>1, <1>2, AppendLine DEF Joins

LEMMA DequeueFacts ==
    ASSUME TypeOK, Hands, NEW r \in Requests, Dequeue(r)
    PROVE  Leaves(r)
<1>1. queue \in Seq(Requests) /\ IsInjective(queue) /\ DOMAIN queue = 1 .. Len(queue)
  BY LenProperties DEF TypeOK, Hands
<1>2. CASE r \notin Range(queue) /\ UNCHANGED queue
  BY <1>1, <1>2 DEF Leaves
<1>3. ASSUME NEW i \in 1 .. Len(queue), queue[i] = r, queue' = RemoveAt(queue, i)
      PROVE  Leaves(r)
  <2>1. queue' \in Seq(Requests)
    BY <1>1, <1>3, RemoveAtSeq
  <2>2. IsInjective(queue') /\ Range(queue') = Range(queue) \ {r}
    BY <1>1, <1>3, RemoveAtLine
  <2> QED
    BY <2>1, <2>2 DEF Leaves
<1> QED
  BY <1>1, <1>2, <1>3 DEF Dequeue

LEMMA TakeFacts ==
    ASSUME TypeOK, Hands, KnownProviders, NEW w \in Workers, NEW r \in Requests, Take(w, r)
    PROVE  r \in Range(queue) /\ Leaves(r)
<1>1. queue \in Seq(Requests) /\ IsInjective(queue) /\ DOMAIN queue = 1 .. Len(queue)
  BY LenProperties DEF TypeOK, Hands
<1>2. /\ NextRequest \in 1 .. Len(queue)
      /\ queue[NextRequest] = r /\ queue' = RemoveAt(queue, NextRequest)
  BY <1>1, NextInQueue DEF Take
<1>3. queue' \in Seq(Requests)
  BY <1>1, <1>2, RemoveAtSeq
<1>4. IsInjective(queue') /\ Range(queue') = Range(queue) \ {r}
  BY <1>1, <1>2, RemoveAtLine
<1> QED
  BY <1>1, <1>2, <1>3, <1>4 DEF Leaves, Range

\* The steps that put something in, take something out, or leave the queue alone.
LEMMA QueueSteps ==
    ASSUME IInv, [Next]_vars
    PROVE  \/ UNCHANGED queue
           \/ queue' = <<>> /\ Stopped
           \/ \E r \in Requests : Joins(r) /\ r \notin Range(queue) /\ Enqueue(r)
           \/ \E r \in Requests : Joins(r) /\ r \notin Range(queue) /\ WakeRetry(r) /\ r \in active \ expired
           \/ \E r \in Requests :
                /\ Leaves(r)
                /\ \/ \E w \in Workers : WorkerStep(w) /\ Take(w, r)
                   \/ WaiterResumes(r) \/ CancelRequest(r) \/ SweepExpires(r)
<1>0. TypeOK /\ Hands /\ KnownProviders
  BY DEF IInv
<1>1. ASSUME NEW r \in Requests, Enqueue(r)
      PROVE  Joins(r) /\ r \notin Range(queue)
  <2>1. r \notin Range(queue) /\ queue' = Append(queue, r)
    BY <1>1 DEF Enqueue, IInv, Untouched, InHand
  <2> QED
    BY <1>0, <2>1, AppendFacts
<1>2. ASSUME NEW r \in Requests, WakeRetry(r)
      PROVE  UNCHANGED queue \/ (Joins(r) /\ r \notin Range(queue) /\ r \in active \ expired)
  <2>1. r \notin Range(queue)
    BY <1>0, <1>2 DEF WakeRetry, Hands
  <2> QED
    BY <1>0, <1>2, <2>1, AppendFacts DEF WakeRetry
<1>3. ASSUME NEW r \in Requests, CallerStep(r) \/ WaiterStep(r) \/ Expire(r)
      PROVE  \/ UNCHANGED queue \/ Enqueue(r)
             \/ Leaves(r) /\ (WaiterResumes(r) \/ CancelRequest(r))
  BY <1>0, <1>3, DequeueFacts
     DEF CallerStep, WaiterStep, Expire, WaiterCancelled, CancelRequest, WaitTimeout, WaiterResumes,
         BreakOff, queues
<1>4. ASSUME NEW w \in Workers, WorkerStep(w)
      PROVE  UNCHANGED queue \/ \E r \in Requests : Leaves(r) /\ Take(w, r)
  BY <1>0, <1>4, TakeFacts
     DEF WorkerStep, TakeExpired, Dispatch, Succeed, ScheduleRetry, GiveUp, Processed,
         CallbackReturns, queues
<1>5. CASE SweepStep
  BY <1>0, <1>5, DequeueFacts
     DEF SweepStep, SweepStarts, SweepSkips, SweepExpires, SweepCallbackReturns, queues
<1>6. CASE Stop \/ Stopped \/ UNCHANGED vars
  BY <1>6 DEF Stop, Stopped, vars, queues
<1> QED
  BY <1>1, <1>2, <1>3, <1>4, <1>5, <1>6 DEF Next

-------------------------------------------------------------------------------
(* Types                                                                   *)

LEMMA ResolveType ==
    ASSUME TypeOK, NEW r \in Requests, NEW how \in Settled, Resolve(r, how)
    PROVE  /\ future' \in [Requests -> {"none", "pending"} \cup Settled]
           /\ \A x \in Requests : future'[x] = IF x = r /\ future[r] = "pending" THEN how ELSE future[x]
  BY DEF TypeOK, Resolve

LEMMA CompleteType ==
    ASSUME TypeOK, NEW w \in Workers, NEW r \in Requests, Complete(w, r)
    PROVE  /\ worker' \in [Workers -> Task]
           /\ worker'[w] = IF r \in Waiters THEN IdleTask ELSE [pc |-> "callback", req |-> r]
           /\ \A v \in Workers \ {w} : worker'[v] = worker[v]
           /\ active' = IF r \in Waiters THEN active \ {r} ELSE active
<1>1. IdleTask \in Task /\ [pc |-> "callback", req |-> r] \in Task
  BY DEF Task
<1> QED
  BY <1>1 DEF TypeOK, Complete

LEMMA TypeStep ==
    ASSUME IInv, [Next]_vars
    PROVE  TypeOK'
<1> DEFINE Futures == {"none", "pending"} \cup Settled
<1>1. TypeOK /\ QueueAssumption
  BY QueueAssumption DEF IInv
<1>2. queue' \in Seq(Requests)
  <2>1. queue' = queue \/ queue' = <<>> \/ \E r \in Requests : Joins(r) \/ Leaves(r)
    BY QueueSteps
  <2>2. <<>> \in Seq(Requests) /\ queue \in Seq(Requests)
    BY <1>1, EmptySeq DEF TypeOK
  <2>3. \A r \in Requests : Joins(r) \/ Leaves(r) => queue' \in Seq(Requests)
    BY DEF Joins, Leaves
  <2> QED
    BY <2>1, <2>2, <2>3
<1>3. ASSUME NEW r \in Requests, Enqueue(r)
      PROVE  TypeOK'
  <2>1. provider_order' \in Seq(Providers)
    <3>1. /\ provider_order \in Seq(Providers)
          /\ Append(provider_order, Provider[r]) \in Seq(Providers)
      BY <1>1, QueueAssumption, AppendProperties DEF TypeOK
    <3> QED
      BY <1>3, <3>1 DEF Enqueue
  <2> QED
    BY <1>1, <1>2, <1>3, <2>1 DEF Enqueue, history, TypeOK
<1>4. ASSUME NEW r \in Requests, WaitTimeout(r) \/ WaiterCancelled(r)
      PROVE  TypeOK'
  <2>1. future' \in [Requests -> Futures]
    BY <1>1, <1>4, ResolveType DEF WaitTimeout, WaiterCancelled, BreakOff, Settled
  <2>2. UNCHANGED <<provider_order, active, expired, retry_count, worker, sleeping, sweep,
                    stopping, tries, reports>>
    BY <1>4 DEF WaitTimeout, WaiterCancelled, BreakOff, queues, history
  <2>3. leaving' \in [Waiters -> {"no", "timed_out", "cancelled", "gone"}]
    BY <1>1, <1>4 DEF WaitTimeout, WaiterCancelled, BreakOff, TypeOK
  <2> QED
    BY <1>1, <1>2, <2>1, <2>2, <2>3 DEF TypeOK
<1>5. ASSUME NEW r \in Requests, WaiterResumes(r)
      PROVE  TypeOK'
  BY <1>1, <1>2, <1>5 DEF WaiterResumes, history, TypeOK
<1>6. ASSUME NEW r \in Requests, CancelRequest(r)
      PROVE  TypeOK'
  <2>1. future' \in [Requests -> Futures]
    BY <1>1, <1>6, ResolveType DEF CancelRequest, Settled
  <2> QED
    BY <1>1, <1>2, <1>6, <2>1 DEF CancelRequest, history, TypeOK
<1>7. ASSUME NEW r \in Requests, Expire(r) \/ WakeRetry(r)
      PROVE  TypeOK'
  BY <1>1, <1>2, <1>7 DEF Expire, WakeRetry, queues, table, history, TypeOK
<1>8. ASSUME NEW w \in Workers, NEW r \in Requests, TakeExpired(w, r) \/ Succeed(w, r) \/ GiveUp(w, r)
      PROVE  TypeOK'
  <2>1. /\ worker' \in [Workers -> Task] /\ active' \in SUBSET Requests
        /\ future' \in [Requests -> Futures]
    <3>1. /\ Complete(w, r)
          /\ Resolve(r, "ok") \/ Resolve(r, "failed") \/ Resolve(r, "expired")
      BY <1>8 DEF TakeExpired, Succeed, GiveUp
    <3>2. worker' \in [Workers -> Task] /\ active' \in SUBSET Requests
      BY <1>1, <3>1, CompleteType DEF TypeOK
    <3>3. future' \in [Requests -> Futures]
      BY <1>1, <3>1, ResolveType DEF Settled
    <3> QED
      BY <3>2, <3>3
  <2>2. reports' \in [Requests -> Nat] /\ tries' = tries
    <3>1. Report(r) /\ tries' = tries
      BY <1>8 DEF TakeExpired, Succeed, GiveUp, Processed
    <3> QED
      BY <1>1, <3>1 DEF Report, TypeOK
  <2>3. UNCHANGED <<provider_order, expired, retry_count, sleeping, sweep, stopping, leaving>>
    BY <1>8 DEF TakeExpired, Take, Succeed, GiveUp, Processed, queues
  <2> QED
    BY <1>1, <1>2, <2>1, <2>2, <2>3 DEF TypeOK
<1>9. ASSUME NEW w \in Workers, NEW r \in Requests, Dispatch(w, r)
      PROVE  TypeOK'
  <2>1. [pc |-> "process", req |-> r] \in Task
    BY DEF Task
  <2> QED
    <3>1. UNCHANGED <<provider_order, active, future, expired, retry_count, sleeping, sweep,
                      stopping, leaving, reports>>
      BY <1>9 DEF Dispatch, Take, table
    <3>2. worker' \in [Workers -> Task] /\ tries' \in [Requests -> Nat]
      BY <1>1, <1>9, <2>1 DEF Dispatch, TypeOK
    <3> QED
      BY <1>1, <1>2, <3>1, <3>2 DEF TypeOK
<1>10. ASSUME NEW w \in Workers, NEW r \in Requests, ScheduleRetry(w, r)
       PROVE  TypeOK'
  <2>1. IdleTask \in Task
    BY DEF Task
  <2>2. retry_count' \in [Requests -> 0 .. MaxRetries]
    <3>1. retry_count[r] + 1 \in 0 .. MaxRetries
      BY <1>1, <1>10, QueueAssumption DEF ScheduleRetry, TypeOK
    <3> QED
      BY <1>1, <1>10, <3>1 DEF ScheduleRetry, TypeOK
  <2> QED
    BY <1>1, <1>2, <1>10, <2>1, <2>2 DEF ScheduleRetry, Processed, queues, table, TypeOK
<1>11. ASSUME NEW w \in Workers, NEW r \in Requests, CallbackReturns(w, r)
       PROVE  TypeOK'
  <2>1. IdleTask \in Task
    BY DEF Task
  <2> QED
    BY <1>1, <1>2, <1>11, <2>1 DEF CallbackReturns, queues, history, TypeOK
<1>12. CASE SweepStarts \/ \E r \in Requests : SweepSkips(r) \/ SweepCallbackReturns(r)
  <2>1. UNCHANGED <<provider_order, future, expired, retry_count, worker, sleeping, stopping,
                    leaving, tries, reports>>
    BY <1>12 DEF SweepStarts, SweepSkips, SweepCallbackReturns, queues, table, history
  <2>2. active' \in SUBSET Requests
    BY <1>1, <1>12 DEF SweepStarts, SweepSkips, SweepCallbackReturns, table, TypeOK
  <2>3. sweep' \in [todo : SUBSET Requests, req : Requests \cup {NoRequest}]
    <3>1. \/ sweep' = [sweep EXCEPT !.todo = active \cap expired]
          \/ \E r \in Requests : sweep' = [sweep EXCEPT !.todo = @ \ {r}]
          \/ sweep' = [sweep EXCEPT !.req = NoRequest]
      BY <1>12 DEF SweepStarts, SweepSkips, SweepCallbackReturns
    <3>2. /\ sweep = [todo |-> sweep.todo, req |-> sweep.req]
          /\ sweep.todo \in SUBSET Requests /\ sweep.req \in Requests \cup {NoRequest}
          /\ active \cap expired \in SUBSET Requests
      BY <1>1 DEF TypeOK
    <3>3. \/ sweep' = [todo |-> active \cap expired, req |-> sweep.req]
          \/ \E r \in Requests : sweep' = [todo |-> sweep.todo \ {r}, req |-> sweep.req]
          \/ sweep' = [todo |-> sweep.todo, req |-> NoRequest]
      BY <3>1, <3>2
    <3> QED
      BY <3>2, <3>3
  <2> QED
    BY <1>1, <1>2, <2>1, <2>2, <2>3 DEF TypeOK
<1>13. ASSUME NEW r \in Requests, SweepExpires(r)
       PROVE  TypeOK'
  <2>1. future' \in [Requests -> Futures]
    BY <1>1, <1>13, ResolveType DEF SweepExpires, Settled
  <2>2. /\ active' \in SUBSET Requests
        /\ sweep' \in [todo : SUBSET Requests, req : Requests \cup {NoRequest}]
    BY <1>1, <1>13 DEF SweepExpires, TypeOK
  <2>3. reports' \in [Requests -> Nat]
    BY <1>1, <1>13 DEF SweepExpires, Report, TypeOK
  <2>4. UNCHANGED <<provider_order, expired, retry_count, worker, sleeping, stopping, leaving, tries>>
    BY <1>13 DEF SweepExpires
  <2> QED
    BY <1>1, <1>2, <2>1, <2>2, <2>3, <2>4 DEF TypeOK
<1>14. CASE Stop
  <2>1. IdleTask \in Task /\ IdleSweep \in [todo : SUBSET Requests, req : Requests \cup {NoRequest}]
    BY DEF Task, IdleSweep
  <2> QED
    BY <1>1, <1>2, <1>14, <2>1 DEF Stop, queues, table, history, TypeOK
<1>15. CASE Stopped
  <2>1. provider_order' \in Seq(Providers)
    BY <1>15, EmptySeq DEF Stopped
  <2>2. future' \in [Requests -> Futures]
    BY <1>1, <1>15 DEF Stopped, Settled, TypeOK
  <2> QED
    BY <1>1, <1>2, <1>15, <2>1, <2>2 DEF Stopped, history, TypeOK
<1>16. CASE UNCHANGED vars
  BY <1>1, <1>16 DEF vars, queues, table, history, TypeOK
<1> QED
  BY <1>3, <1>4, <1>5, <1>6, <1>7, <1>8, <1>9, <1>10, <1>11, <1>12, <1>13, <1>14, <1>15, <1>16
     DEF Next, CallerStep, WaiterStep, WorkerStep, SweepStep

-------------------------------------------------------------------------------
(* What becomes of the workers                                             *)

LEMMA TaskFacts ==
    ASSUME TypeOK, NEW w \in Workers
    PROVE  /\ Handling(w) => worker[w].req \in Requests
           /\ Processing(w) <=> worker[w].pc = "process"
           /\ ~Handling(w) <=> worker[w] = IdleTask
           /\ Processing(w) \/ worker[w].pc = "callback" <=> Handling(w)
           /\ \A r \in Requests :
                 worker[w] = [pc |-> "process", req |-> r] <=> Processing(w) /\ worker[w].req = r
<1>1. worker[w] \in Task
  BY DEF TypeOK
<1> QED
  BY <1>1 DEF Task, IdleTask, Handling, Processing

\* A worker's step: w takes r, brings it to an end, or is done with its callback.
LEMMA WorkerMoves ==
    ASSUME TypeOK, Hands, KnownProviders, NEW w \in Workers, WorkerStep(w)
    PROVE  \E r \in Requests :
             /\ \A v \in Workers \ {w} : worker'[v] = worker[v]
             /\ worker'[w] \in {IdleTask, [pc |-> "process", req |-> r], [pc |-> "callback", req |-> r]}
             /\ \/ /\ TakeExpired(w, r) \/ Dispatch(w, r)
                   /\ worker[w] = IdleTask /\ r \in Range(queue) /\ Leaves(r)
                   /\ sleeping' = sleeping
                \/ /\ Succeed(w, r) \/ GiveUp(w, r)
                   /\ worker[w] = [pc |-> "process", req |-> r] /\ ~Processing(w)'
                   /\ UNCHANGED <<queue, sleeping>>
                \/ /\ ScheduleRetry(w, r)
                   /\ worker[w] = [pc |-> "process", req |-> r] /\ worker'[w] = IdleTask
                   /\ queue' = queue /\ sleeping' = sleeping \cup {r}
                \/ /\ CallbackReturns(w, r)
                   /\ worker[w] = [pc |-> "callback", req |-> r] /\ worker'[w] = IdleTask
                   /\ UNCHANGED <<queue, sleeping>>
<1>0. worker \in [Workers -> Task]
  BY DEF TypeOK
<1>1. ASSUME NEW r \in Requests, TakeExpired(w, r)
      PROVE  /\ \A v \in Workers \ {w} : worker'[v] = worker[v]
             /\ worker'[w] \in {IdleTask, [pc |-> "callback", req |-> r]}
             /\ worker[w] = IdleTask /\ r \in Range(queue) /\ Leaves(r)
             /\ sleeping' = sleeping
  BY <1>1, CompleteType, TakeFacts DEF TakeExpired, Take
<1>2. ASSUME NEW r \in Requests, Dispatch(w, r)
      PROVE  /\ \A v \in Workers \ {w} : worker'[v] = worker[v]
             /\ worker'[w] = [pc |-> "process", req |-> r]
             /\ worker[w] = IdleTask /\ r \in Range(queue) /\ Leaves(r)
             /\ sleeping' = sleeping
  BY <1>0, <1>2, TakeFacts DEF Dispatch, Take
<1>3. ASSUME NEW r \in Requests, Succeed(w, r) \/ GiveUp(w, r)
      PROVE  /\ \A v \in Workers \ {w} : worker'[v] = worker[v]
             /\ worker'[w] \in {IdleTask, [pc |-> "callback", req |-> r]}
             /\ worker[w] = [pc |-> "process", req |-> r] /\ ~Processing(w)'
             /\ UNCHANGED <<queue, sleeping>>
  <2>1. Complete(w, r)
    BY <1>3 DEF Succeed, GiveUp
  <2>2. /\ \A v \in Workers \ {w} : worker'[v] = worker[v]
        /\ worker'[w] \in {IdleTask, [pc |-> "callback", req |-> r]}
    BY <2>1, CompleteType
  <2> QED
    BY <1>3, <2>2 DEF Succeed, GiveUp, Processed, Processing, IdleTask, queues
<1>4. ASSUME NEW r \in Requests, ScheduleRetry(w, r)
      PROVE  /\ \A v \in Workers \ {w} : worker'[v] = worker[v]
             /\ worker[w] = [pc |-> "process", req |-> r] /\ worker'[w] = IdleTask
             /\ queue' = queue /\ sleeping' = sleeping \cup {r}
  BY <1>0, <1>4 DEF ScheduleRetry, Processed, queues
<1>5. ASSUME NEW r \in Requests, CallbackReturns(w, r)
      PROVE  /\ \A v \in Workers \ {w} : worker'[v] = worker[v]
             /\ worker[w] = [pc |-> "callback", req |-> r] /\ worker'[w] = IdleTask
             /\ UNCHANGED <<queue, sleeping>>
  BY <1>0, <1>5 DEF CallbackReturns, queues
<1>6. PICK r \in Requests : \/ TakeExpired(w, r) \/ Dispatch(w, r)
                            \/ Succeed(w, r) \/ ScheduleRetry(w, r) \/ GiveUp(w, r)
                            \/ CallbackReturns(w, r)
  BY DEF WorkerStep
<1> WITNESS r \in Requests
<1>7. CASE TakeExpired(w, r)
  BY <1>1, <1>7
<1>8. CASE Dispatch(w, r)
  BY <1>2, <1>8
<1>9. CASE Succeed(w, r) \/ GiveUp(w, r)
  BY <1>3, <1>9
<1>10. CASE ScheduleRetry(w, r)
  BY <1>4, <1>10
<1>11. CASE CallbackReturns(w, r)
  BY <1>5, <1>11
<1> QED
  BY <1>6, <1>7, <1>8, <1>9, <1>10, <1>11

LEMMA OthersLeaveWorkers ==
    ASSUME [Next]_vars
    PROVE  \/ \E w \in Workers : WorkerStep(w)
           \/ Stop
           \/ /\ worker' = worker
              /\ \/ UNCHANGED <<queue, sleeping>>
                 \/ Stopped /\ queue' = <<>> /\ sleeping' = sleeping
                 \/ \E r \in Requests :
                      \/ WakeRetry(r)
                      \/ Enqueue(r) /\ sleeping' = sleeping
                      \/ Dequeue(r) /\ sleeping' = sleeping
<1>1. ASSUME NEW r \in Requests, CallerStep(r) \/ WaiterStep(r) \/ Expire(r)
      PROVE  /\ worker' = worker /\ sleeping' = sleeping
             /\ UNCHANGED queue \/ Enqueue(r) \/ Dequeue(r)
  BY <1>1 DEF CallerStep, WaiterStep, Expire, Enqueue, WaiterCancelled, CancelRequest, WaitTimeout,
              WaiterResumes, BreakOff, queues
<1>2. CASE SweepStep
  BY <1>2 DEF SweepStep, SweepStarts, SweepSkips, SweepExpires, SweepCallbackReturns, queues
<1>3. CASE Stopped \/ UNCHANGED vars
  BY <1>3 DEF Stopped, vars, queues
<1>4. ASSUME NEW r \in Requests, WakeRetry(r)
      PROVE  worker' = worker
  BY <1>4 DEF WakeRetry
<1> QED
  BY <1>1, <1>2, <1>3, <1>4 DEF Next

-------------------------------------------------------------------------------
(* One hand                                                                *)

LEMMA HandsStep ==
    ASSUME IInv, [Next]_vars
    PROVE  Hands'
<1>1. TypeOK /\ Hands /\ KnownProviders /\ Untouched /\ TypeOK'
  BY TypeStep DEF IInv
<1>2. ASSUME NEW w \in Workers, WorkerStep(w)
      PROVE  Hands'
  <2>1. PICK r \in Requests :
             /\ \A v \in Workers \ {w} : worker'[v] = worker[v]
             /\ worker'[w] \in {IdleTask, [pc |-> "process", req |-> r], [pc |-> "callback", req |-> r]}
             /\ \/ /\ worker[w] = IdleTask /\ r \in Range(queue) /\ Leaves(r)
                   /\ sleeping' = sleeping
                \/ /\ worker[w] = [pc |-> "process", req |-> r]
                   /\ UNCHANGED <<queue, sleeping>>
                \/ /\ worker[w] = [pc |-> "process", req |-> r] /\ worker'[w] = IdleTask
                   /\ queue' = queue /\ sleeping' = sleeping \cup {r}
                \/ /\ worker[w] = [pc |-> "callback", req |-> r] /\ worker'[w] = IdleTask
                   /\ UNCHANGED <<queue, sleeping>>
    BY <1>1, <1>2, WorkerMoves
  <2>2. ~Handling(w)' \/ worker'[w].req = r
    BY <2>1 DEF Handling, IdleTask
  <2>3. \A v \in Workers \ {w} : Handling(v)' = Handling(v) /\ worker'[v].req = worker[v].req
    BY <2>1 DEF Handling
  <2>4. CASE worker[w] = IdleTask /\ r \in Range(queue) /\ Leaves(r) /\ sleeping' = sleeping
    <3>1. \A v \in Workers : Handling(v) => worker[v].req # r
      BY <1>1, <2>4 DEF Hands
    <3> QED
      BY <1>1, <2>2, <2>3, <2>4, <3>1 DEF Hands, Leaves
  <2>5. CASE worker[w] \in {[pc |-> "process", req |-> r], [pc |-> "callback", req |-> r]}
             /\ UNCHANGED <<queue, sleeping>>
    <3>1. Handling(w) /\ worker[w].req = r
      BY <2>5 DEF Handling
    <3> QED
      BY <1>1, <2>2, <2>3, <2>5, <3>1 DEF Hands
  <2>6. CASE /\ worker[w] = [pc |-> "process", req |-> r] /\ worker'[w] = IdleTask
             /\ queue' = queue /\ sleeping' = sleeping \cup {r}
    <3>1. Handling(w) /\ worker[w].req = r /\ ~Handling(w)'
      BY <2>6 DEF Handling, IdleTask
    <3> QED
      BY <1>1, <2>3, <2>6, <3>1 DEF Hands
  <2> QED
    BY <2>1, <2>4, <2>5, <2>6
<1>3. CASE Stop
  <2>1. \A w \in Workers : ~Handling(w)'
    BY <1>3 DEF Stop, Handling, IdleTask
  <2>2. UNCHANGED <<queue, sleeping>>
    BY <1>3 DEF Stop, queues
  <2> QED
    BY <1>1, <2>1, <2>2 DEF Hands
<1>4. CASE worker' = worker /\ UNCHANGED <<queue, sleeping>>
  BY <1>1, <1>4 DEF Hands, Handling
<1>5. CASE worker' = worker /\ queue' = <<>> /\ sleeping' = sleeping
  <2>1. DOMAIN queue' = {} /\ Range(queue') = {}
    BY <1>5 DEF Range
  <2> QED
    BY <1>1, <1>5, <2>1 DEF Hands, Handling, IsInjective
<1>6. ASSUME NEW r \in Requests, worker' = worker, WakeRetry(r)
      PROVE  Hands'
  <2>1. r \in sleeping /\ sleeping' = sleeping \ {r}
    BY <1>6 DEF WakeRetry
  <2>2. queue' = queue \/ queue' = Append(queue, r)
    BY <1>6 DEF WakeRetry
  <2>3. r \notin Range(queue)
    BY <1>1, <2>1 DEF Hands
  <2>4. queue' = queue \/ Joins(r)
    BY <1>1, <2>2, <2>3, AppendFacts
  <2> QED
    BY <1>1, <1>6, <2>1, <2>4 DEF Hands, Handling, Joins
<1>7. ASSUME NEW r \in Requests, worker' = worker, Enqueue(r), sleeping' = sleeping
      PROVE  Hands'
  <2>1. r \notin InHand /\ queue' = Append(queue, r)
    BY <1>1, <1>7 DEF Enqueue, Untouched
  <2>2. Joins(r)
    BY <1>1, <2>1, AppendFacts DEF InHand
  <2> QED
    BY <1>1, <1>7, <2>1, <2>2 DEF Hands, Handling, Joins, InHand
<1>8. ASSUME NEW r \in Requests, worker' = worker, Dequeue(r), sleeping' = sleeping
      PROVE  Hands'
  <2>1. Leaves(r)
    BY <1>1, <1>8, DequeueFacts
  <2> QED
    BY <1>1, <1>8, <2>1 DEF Hands, Handling, Leaves
<1> QED
  BY <1>2, <1>3, <1>4, <1>5, <1>6, <1>7, <1>8, OthersLeaveWorkers

-------------------------------------------------------------------------------
(* The providers                                                           *)

LEMMA ProvidersStep ==
    ASSUME IInv, [Next]_vars
    PROVE  KnownProviders'
<1>1. TypeOK /\ Hands /\ KnownProviders
  BY DEF IInv
<1>2. ASSUME NEW r \in Requests, Enqueue(r)
      PROVE  KnownProviders'
  <2>1. Range(queue') = Range(queue) \cup {r} /\ active' = active \cup {r}
    <3>1. r \notin Range(queue) /\ queue' = Append(queue, r) /\ active' = active \cup {r}
      BY <1>2 DEF Enqueue, IInv, Untouched, InHand
    <3> QED
      BY <1>1, <3>1, AppendFacts DEF Joins
  <2>2. CASE ~PerProvider
    BY <2>2 DEF KnownProviders, PerProvider
  <2>3. CASE PerProvider /\ Provider[r] \notin Range(provider_order)
    <3>1. provider_order' = Append(provider_order, Provider[r])
      BY <1>2, <2>3 DEF Enqueue
    <3>2. /\ provider_order \in Seq(Providers) /\ Len(provider_order) \in Nat
          /\ DOMAIN provider_order = 1 .. Len(provider_order)
          /\ DOMAIN provider_order' = 1 .. Len(provider_order) + 1
          /\ \A i \in 1 .. Len(provider_order) : provider_order'[i] = provider_order[i]
          /\ provider_order'[Len(provider_order) + 1] = Provider[r]
      BY <1>1, <3>1, QueueAssumption, LenProperties, AppendProperties DEF TypeOK
    <3>3. Range(provider_order) \cup {Provider[r]} \subseteq Range(provider_order')
      BY <3>2 DEF Range
    <3> QED
      BY <1>1, <2>1, <2>3, <3>3 DEF KnownProviders
  <2>4. CASE PerProvider /\ Provider[r] \in Range(provider_order)
    <3>1. provider_order' = provider_order
      BY <1>2, <2>4 DEF Enqueue
    <3> QED
      BY <1>1, <2>1, <2>4, <3>1 DEF KnownProviders
  <2> QED
    BY <2>2, <2>3, <2>4
<1>3. CASE Stopped
  <2>1. active' \cup Range(queue') = {}
    BY <1>3 DEF Stopped, Range
  <2> QED
    BY <2>1 DEF KnownProviders
<1>4. ASSUME active' \subseteq active, Range(queue') \subseteq active \cup Range(queue),
             provider_order' = provider_order
      PROVE  KnownProviders'
  BY <1>1, <1>4 DEF KnownProviders
<1>5. ASSUME NEW r \in Requests, CallerStep(r) \/ WaiterStep(r) \/ Expire(r) \/ WakeRetry(r)
      PROVE  Enqueue(r) \/ (active' \subseteq active /\ provider_order' = provider_order)
  BY <1>5 DEF CallerStep, WaiterStep, Expire, WakeRetry, WaiterCancelled, CancelRequest, WaitTimeout,
              WaiterResumes, BreakOff, queues, table
<1>6. ASSUME NEW w \in Workers, WorkerStep(w)
      PROVE  active' \subseteq active /\ provider_order' = provider_order
  BY <1>1, <1>6, CompleteType DEF WorkerStep, TakeExpired, Dispatch, Take, Succeed, ScheduleRetry, GiveUp, Processed,
                  CallbackReturns, queues, table
<1>7. ASSUME SweepStep \/ Stop \/ UNCHANGED vars
      PROVE  active' \subseteq active /\ provider_order' = provider_order
  BY <1>7 DEF SweepStep, SweepStarts, SweepSkips, SweepExpires, SweepCallbackReturns, Stop,
              vars, queues, table
<1>8. \/ (\E r \in Requests : Enqueue(r)) \/ Stopped
       \/ (active' \subseteq active /\ provider_order' = provider_order)
  BY <1>5, <1>6, <1>7 DEF Next
<1>9. \/ (\E r \in Requests : Enqueue(r)) \/ Stopped
       \/ Range(queue') \subseteq active \cup Range(queue)
  BY QueueSteps DEF Joins, Leaves
<1> QED
  BY <1>2, <1>3, <1>4, <1>8, <1>9

-------------------------------------------------------------------------------
(* Answers                                                                 *)

\* What a step can do to the caller's view of a request.
LEMMA FutureMoves ==
    ASSUME TypeOK, [Next]_vars, NEW x \in Requests
    PROVE  \/ future'[x] = future[x]
           \/ Enqueue(x) /\ future[x] = "none" /\ future'[x] = "pending"
           \/ future[x] = "pending" /\ future'[x] \in Settled
<1>1. ASSUME NEW r \in Requests, NEW how \in Settled, Resolve(r, how)
      PROVE  future'[x] = future[x] \/ (future[x] = "pending" /\ future'[x] \in Settled)
  BY <1>1, ResolveType
<1>2. ASSUME NEW r \in Requests, Enqueue(r)
      PROVE  \/ future'[x] = future[x]
             \/ Enqueue(x) /\ future[x] = "none" /\ future'[x] = "pending"
  BY <1>2 DEF Enqueue, TypeOK
<1>3. ASSUME NEW r \in Requests, WaiterCancelled(r) \/ CancelRequest(r) \/ WaiterStep(r) \/ Expire(r)
                                 \/ WakeRetry(r)
      PROVE  UNCHANGED future \/ Resolve(r, "cancelled")
  BY <1>3 DEF WaiterStep, Expire, WakeRetry, WaiterCancelled, CancelRequest, WaitTimeout,
              WaiterResumes, BreakOff, table
<1>4. ASSUME NEW w \in Workers, WorkerStep(w)
      PROVE  UNCHANGED future \/ \E r \in Requests : \E how \in Settled : Resolve(r, how)
  BY <1>4 DEF WorkerStep, TakeExpired, Dispatch, Succeed, ScheduleRetry, GiveUp, CallbackReturns,
              table, Settled
<1>5. ASSUME SweepStep
      PROVE  UNCHANGED future \/ \E r \in Requests : Resolve(r, "expired")
  BY <1>5 DEF SweepStep, SweepStarts, SweepSkips, SweepExpires, SweepCallbackReturns, table
<1>6. ASSUME Stopped
      PROVE  future'[x] = future[x] \/ (future[x] = "pending" /\ future'[x] \in Settled)
  BY <1>6 DEF Stopped, Settled
<1>7. ASSUME Stop \/ UNCHANGED vars
      PROVE  UNCHANGED future
  BY <1>7 DEF Stop, vars, table
<1>8. "cancelled" \in Settled /\ "expired" \in Settled
  BY DEF Settled
<1> QED
  BY <1>1, <1>2, <1>3, <1>4, <1>5, <1>6, <1>7, <1>8 DEF Next, CallerStep

\* Resolve leaves no future open that was ever given out.
LEMMA ResolveSettles ==
    ASSUME TypeOK, NEW r \in Requests, NEW how \in Settled, Resolve(r, how), future[r] # "none"
    PROVE  future'[r] \in Settled
<1>1. future[r] \in {"none", "pending"} \cup Settled
  BY DEF TypeOK
<1> QED
  BY <1>1, ResolveType

\* What a worker brings to an end is settled, by it or before.
LEMMA EndsSettle ==
    ASSUME IInv, NEW w \in Workers, NEW r \in Requests, TakeExpired(w, r) \/ Succeed(w, r) \/ GiveUp(w, r)
    PROVE  future'[r] \in Settled
<1>0. TypeOK /\ {"ok", "failed", "expired", "cancelled"} = Settled
  BY DEF IInv, Settled
<1>1. Resolve(r, "ok") \/ Resolve(r, "failed") \/ Resolve(r, "expired")
  BY DEF TakeExpired, Succeed, GiveUp
<1>2. r \in InHand
  <2>1. CASE TakeExpired(w, r)
    BY <2>1, TakeFacts DEF TakeExpired, InHand, IInv
  <2>2. CASE Succeed(w, r) \/ GiveUp(w, r)
    BY <2>2 DEF Succeed, GiveUp, Processed, Handling, InHand
  <2> QED
    BY <2>1, <2>2
<1>3. future[r] # "none"
  BY <1>2 DEF IInv, Untouched
<1> QED
  BY <1>0, <1>1, <1>3, ResolveSettles

\* Only settled requests leave the table, and only by enqueue they get there.
LEMMA ActiveMoves ==
    ASSUME IInv, [Next]_vars, NEW x \in Requests
    PROVE  /\ x \in active \ active' => future'[x] \in Settled
           /\ x \in active' \ active => Enqueue(x)
<1>0. /\ TypeOK /\ Untouched /\ Answered /\ Hands
      /\ \A r \in active \cup InHand : r \in Requests => future[r] # "none"
      /\ {"ok", "failed", "expired", "cancelled"} = Settled
  BY DEF IInv, Untouched, Settled
<1>1. ASSUME NEW r \in Requests, Enqueue(r)
      PROVE  /\ x \notin active \ active'
             /\ x \in active' \ active => Enqueue(x)
  BY <1>1 DEF Enqueue
<1>2. ASSUME NEW r \in Requests, WaiterResumes(r)
      PROVE  active' = active \ {r} /\ future'[r] \in Settled
  BY <1>0, <1>2 DEF WaiterResumes, Answered
<1>3. ASSUME NEW r \in Requests, CancelRequest(r)
      PROVE  active' = active \ {r} /\ future'[r] \in Settled
  BY <1>0, <1>3, ResolveSettles DEF CancelRequest
<1>4. ASSUME NEW r \in Requests, WaiterCancelled(r) \/ WaitTimeout(r) \/ Expire(r) \/ WakeRetry(r)
      PROVE  active' = active
  BY <1>4 DEF Expire, WakeRetry, WaiterCancelled, WaitTimeout, BreakOff, table
<1>5. ASSUME NEW w \in Workers, NEW r \in Requests, TakeExpired(w, r) \/ Succeed(w, r) \/ GiveUp(w, r)
      PROVE  active' \in {active, active \ {r}} /\ future'[r] \in Settled
  <2>1. Complete(w, r)
    BY <1>5 DEF TakeExpired, Succeed, GiveUp
  <2> QED
    BY <1>0, <1>5, <2>1, EndsSettle, CompleteType
<1>6. ASSUME NEW w \in Workers, NEW r \in Requests, Dispatch(w, r) \/ ScheduleRetry(w, r)
      PROVE  active' = active
  BY <1>6 DEF Dispatch, ScheduleRetry, table
<1>7. ASSUME NEW w \in Workers, NEW r \in Requests, CallbackReturns(w, r)
      PROVE  active' = active \ {r} /\ future'[r] \in Settled
  BY <1>0, <1>7 DEF CallbackReturns, Answered
<1>8. ASSUME NEW r \in Requests, SweepExpires(r)
      PROVE  active' \in {active, active \ {r}} /\ future'[r] \in Settled
  <2>1. r \in active /\ Resolve(r, "expired") /\ active' \in {active, active \ {r}}
    BY <1>8 DEF SweepExpires
  <2> QED
    BY <1>0, <2>1, ResolveSettles
<1>9. ASSUME NEW r \in Requests, SweepCallbackReturns(r)
      PROVE  active' = active \ {r} /\ future'[r] \in Settled
  BY <1>0, <1>9, QueueAssumption DEF SweepCallbackReturns, Answered
<1>10. ASSUME Stopped
       PROVE  active' = {} /\ \A r \in active : r \in Requests => future'[r] \in Settled
  BY <1>0, <1>10 DEF Stopped, TypeOK, Settled
<1>11. ASSUME Stop \/ SweepStarts \/ (\E r \in Requests : SweepSkips(r)) \/ UNCHANGED vars
       PROVE  active' = active
  BY <1>11 DEF Stop, SweepStarts, SweepSkips, vars, table
<1>12. ASSUME active' = active
       PROVE  x \notin active \ active' /\ x \notin active' \ active
  BY <1>12
<1>13. ASSUME NEW r \in Requests, active' \in {active, active \ {r}}, future'[r] \in Settled
       PROVE  /\ x \in active \ active' => future'[x] \in Settled
              /\ x \notin active' \ active
  BY <1>13
<1>14. ASSUME NEW w \in Workers, WorkerStep(w)
       PROVE  /\ x \in active \ active' => future'[x] \in Settled
              /\ x \notin active' \ active
  BY <1>5, <1>6, <1>7, <1>12, <1>13, <1>14 DEF WorkerStep
<1>15. ASSUME SweepStep
       PROVE  /\ x \in active \ active' => future'[x] \in Settled
              /\ x \notin active' \ active
  BY <1>8, <1>9, <1>11, <1>12, <1>13, <1>15 DEF SweepStep
<1> QED
  BY <1>1, <1>2, <1>3, <1>4, <1>10, <1>11, <1>12, <1>13, <1>14, <1>15
     DEF Next, CallerStep, WaiterStep

-------------------------------------------------------------------------------
(* Who changes the counters                                                *)

LEMMA CounterMoves ==
    ASSUME TypeOK, [Next]_vars, NEW x \in Requests
    PROVE  /\ \/ tries'[x] = tries[x]
              \/ (\E w \in Workers : Dispatch(w, x)) /\ tries'[x] = tries[x] + 1
           /\ \/ retry_count'[x] = retry_count[x]
              \/ (\E w \in Workers : ScheduleRetry(w, x)) /\ retry_count'[x] = retry_count[x] + 1
           /\ \/ reports'[x] = reports[x]
              \/ /\ \/ \E w \in Workers : TakeExpired(w, x) \/ Succeed(w, x) \/ GiveUp(w, x)
                    \/ SweepExpires(x)
                 /\ reports'[x] = reports[x] + 1
           /\ x \in Waiters => \/ leaving'[x] = leaving[x]
                               \/ WaitTimeout(x) \/ WaiterCancelled(x) \/ WaiterResumes(x)
<1>1. ASSUME NEW r \in Requests, CallerStep(r) \/ WaiterStep(r) \/ Expire(r) \/ WakeRetry(r)
      PROVE  UNCHANGED <<tries, retry_count, reports>>
  BY <1>1 DEF CallerStep, WaiterStep, Expire, WakeRetry, Enqueue, WaiterCancelled, CancelRequest,
              WaitTimeout, WaiterResumes, BreakOff, history
<1>2. ASSUME NEW r \in Requests, CallerStep(r) \/ WaiterStep(r) \/ Expire(r) \/ WakeRetry(r)
      PROVE  x \in Waiters => \/ leaving'[x] = leaving[x]
                             \/ WaitTimeout(x) \/ WaiterCancelled(x) \/ WaiterResumes(x)
  <2>1. leaving \in [Waiters -> {"no", "timed_out", "cancelled", "gone"}]
    BY DEF TypeOK
  <2>2. CASE WaitTimeout(r) \/ WaiterCancelled(r) \/ WaiterResumes(r)
    BY <2>1, <2>2 DEF WaitTimeout, WaiterCancelled, WaiterResumes, BreakOff
  <2>3. CASE Enqueue(r) \/ CancelRequest(r) \/ Expire(r) \/ WakeRetry(r)
    BY <2>3 DEF Enqueue, CancelRequest, Expire, WakeRetry
  <2> QED
    BY <1>2, <2>2, <2>3 DEF CallerStep, WaiterStep
<1>3. ASSUME SweepStep \/ Stop \/ Stopped \/ UNCHANGED vars
      PROVE  UNCHANGED <<tries, retry_count, leaving>>
  BY <1>3 DEF SweepStep, SweepStarts, SweepSkips, SweepExpires, SweepCallbackReturns, Stop, Stopped,
              vars, history
<1>4. ASSUME SweepStep \/ Stop \/ Stopped \/ UNCHANGED vars
      PROVE  \/ reports'[x] = reports[x]
             \/ SweepExpires(x) /\ reports'[x] = reports[x] + 1
  <2>1. ASSUME NEW r \in Requests, SweepExpires(r)
        PROVE  reports'[x] = reports[x] \/ (SweepExpires(x) /\ reports'[x] = reports[x] + 1)
    BY <2>1 DEF SweepExpires, Report, TypeOK
  <2> QED
    BY <1>4, <2>1 DEF SweepStep, SweepStarts, SweepSkips, SweepCallbackReturns, Stop, Stopped,
                      vars, history
<1>5. ASSUME NEW w \in Workers, NEW r \in Requests, Dispatch(w, r)
      PROVE  /\ UNCHANGED <<retry_count, reports, leaving>>
             /\ tries'[x] = tries[x] \/ (Dispatch(w, x) /\ tries'[x] = tries[x] + 1)
  BY <1>5 DEF Dispatch, Take, TypeOK
<1>6. ASSUME NEW w \in Workers, NEW r \in Requests, ScheduleRetry(w, r)
      PROVE  /\ UNCHANGED <<tries, reports, leaving>>
             /\ \/ retry_count'[x] = retry_count[x]
                \/ ScheduleRetry(w, x) /\ retry_count'[x] = retry_count[x] + 1
  <2>1. UNCHANGED <<tries, reports, leaving>>
    BY <1>6 DEF ScheduleRetry, Processed
  <2>2. retry_count' = [retry_count EXCEPT ![r] = @ + 1]
    BY <1>6 DEF ScheduleRetry
  <2> QED
    BY <1>6, <2>1, <2>2 DEF TypeOK
<1>7. ASSUME NEW w \in Workers, NEW r \in Requests, TakeExpired(w, r) \/ Succeed(w, r) \/ GiveUp(w, r)
      PROVE  /\ UNCHANGED <<tries, retry_count, leaving>>
             /\ \/ reports'[x] = reports[x]
                \/ /\ TakeExpired(w, x) \/ Succeed(w, x) \/ GiveUp(w, x)
                   /\ reports'[x] = reports[x] + 1
  <2>1. UNCHANGED <<tries, retry_count, leaving>> /\ Report(r)
    BY <1>7 DEF TakeExpired, Take, Succeed, GiveUp, Processed
  <2>2. IF x = r THEN reports'[x] = reports[x] + 1 ELSE reports'[x] = reports[x]
    BY <2>1 DEF Report, TypeOK
  <2> QED
    BY <1>7, <2>1, <2>2
<1>8. ASSUME NEW w \in Workers, NEW r \in Requests, CallbackReturns(w, r)
      PROVE  UNCHANGED <<tries, retry_count, reports, leaving>>
  BY <1>8 DEF CallbackReturns, history
<1> QED
  BY <1>1, <1>2, <1>3, <1>4, <1>5, <1>6, <1>7, <1>8 DEF Next, WorkerStep

\* Only what is enqueued comes into a hand.
LEMMA HandMoves ==
    ASSUME IInv, [Next]_vars, NEW x \in Requests, x \in InHand', x \notin InHand
    PROVE  Enqueue(x)
<1>0. TypeOK /\ Hands /\ KnownProviders
  BY DEF IInv
<1>1. ASSUME NEW w \in Workers, WorkerStep(w)
      PROVE  FALSE
  <2>1. PICK r \in Requests :
             /\ \A v \in Workers \ {w} : worker'[v] = worker[v]
             /\ worker'[w] \in {IdleTask, [pc |-> "process", req |-> r], [pc |-> "callback", req |-> r]}
             /\ \/ r \in Range(queue) /\ Leaves(r) /\ sleeping' = sleeping
                \/ /\ worker[w] \in {[pc |-> "process", req |-> r], [pc |-> "callback", req |-> r]}
                   /\ queue' = queue /\ sleeping' \subseteq sleeping \cup {r}
    BY <1>0, <1>1, WorkerMoves
  <2>2. r \in InHand
    BY <2>1 DEF InHand, Handling
  <2>3. \A v \in Workers : Handling(v)' => worker'[v].req = r \/ (Handling(v) /\ worker'[v] = worker[v])
    BY <2>1 DEF Handling, IdleTask
  <2>4. x # r /\ Range(queue') \subseteq Range(queue)
    BY <2>1, <2>2 DEF Leaves
  <2> QED
    BY <2>1, <2>3, <2>4 DEF InHand
<1>2. ASSUME Stop
      PROVE  FALSE
  BY <1>2 DEF Stop, InHand, Handling, IdleTask, queues
<1>3. ASSUME worker' = worker, Range(queue') \subseteq Range(queue) \cup sleeping, sleeping' \subseteq sleeping
      PROVE  FALSE
  BY <1>3 DEF InHand, Handling
<1>4. ASSUME NEW r \in Requests, worker' = worker, WakeRetry(r)
      PROVE  FALSE
  <2>1. r \in sleeping /\ sleeping' \subseteq sleeping /\ r \notin Range(queue)
    BY <1>0, <1>4 DEF WakeRetry, Hands
  <2>2. queue' = queue \/ queue' = Append(queue, r)
    BY <1>4 DEF WakeRetry
  <2>3. Range(queue') \subseteq Range(queue) \cup sleeping
    BY <1>0, <2>1, <2>2, AppendFacts DEF Joins
  <2> QED
    BY <1>3, <1>4, <2>1, <2>3
<1>5. ASSUME NEW r \in Requests, worker' = worker, Enqueue(r), sleeping' = sleeping
      PROVE  x = r
  <2>1. r \notin Range(queue) /\ queue' = Append(queue, r)
    BY <1>5 DEF Enqueue, IInv, Untouched, InHand
  <2>2. Range(queue') = Range(queue) \cup {r}
    BY <1>0, <2>1, AppendFacts DEF Joins
  <2> QED
    BY <1>5, <2>2 DEF InHand, Handling
<1>6. ASSUME NEW r \in Requests, worker' = worker, Dequeue(r), sleeping' = sleeping
      PROVE  FALSE
  <2>1. Range(queue') \subseteq Range(queue)
    BY <1>0, <1>6, DequeueFacts DEF Leaves
  <2> QED
    BY <1>3, <1>6, <2>1
<1>7. ASSUME worker' = worker, queue' = <<>>, sleeping' = sleeping
      PROVE  FALSE
  <2>1. Range(queue') = {}
    BY <1>7 DEF Range
  <2> QED
    BY <1>3, <1>7, <2>1
<1> QED
  BY <1>1, <1>2, <1>3, <1>4, <1>5, <1>6, <1>7, OthersLeaveWorkers

LEMMA UntouchedStep ==
    ASSUME IInv, [Next]_vars
    PROVE  Untouched'
<1> SUFFICES ASSUME NEW x \in Requests, future'[x] = "none"
             PROVE  /\ x \notin active' \cup InHand'
                    /\ retry_count'[x] = 0 /\ tries'[x] = 0 /\ reports'[x] = 0
                    /\ x \in Waiters => leaving'[x] = "no"
  BY DEF Untouched
<1>0. TypeOK /\ Hands /\ KnownProviders /\ Answered
  BY DEF IInv
<1>1. future[x] = "none" /\ ~Enqueue(x)
  <2>1. "none" \notin Settled
    BY DEF Settled
  <2>2. Enqueue(x) => future'[x] = "pending"
    BY <1>0 DEF Enqueue, TypeOK
  <2> QED
    BY <1>0, <2>1, <2>2, FutureMoves
<1>2. /\ x \notin active \cup InHand
      /\ retry_count[x] = 0 /\ tries[x] = 0 /\ reports[x] = 0
      /\ x \in Waiters => leaving[x] = "no"
  BY <1>1 DEF IInv, Untouched
<1>3. x \notin active' \cup InHand'
  BY <1>1, <1>2, ActiveMoves, HandMoves
<1>4. ~\E w \in Workers : Dispatch(w, x) \/ TakeExpired(w, x)
  BY <1>0, <1>2, TakeFacts DEF Dispatch, TakeExpired, InHand
<1>5. ~\E w \in Workers : ScheduleRetry(w, x) \/ Succeed(w, x) \/ GiveUp(w, x)
  BY <1>2 DEF ScheduleRetry, Succeed, GiveUp, Processed, InHand, Handling
<1>6. ~SweepExpires(x)
  BY <1>2 DEF SweepExpires
<1>7. ~(WaitTimeout(x) \/ WaiterCancelled(x) \/ WaiterResumes(x))
  BY <1>1, <1>2 DEF WaitTimeout, WaiterCancelled, WaiterResumes
<1> QED
  BY <1>0, <1>2, <1>3, <1>4, <1>5, <1>6, <1>7, CounterMoves

-------------------------------------------------------------------------------
(* Callbacks, broken waits, and the sweep                                  *)

LEMMA AnsweredStep ==
    ASSUME IInv, [Next]_vars
    PROVE  Answered'
<1>0. /\ TypeOK /\ Hands /\ KnownProviders /\ Answered /\ Untouched
      /\ "none" \notin Settled /\ "pending" \notin Settled
      /\ {"ok", "failed", "expired", "cancelled"} = Settled
      /\ NoRequest \notin Requests
  BY QueueAssumption DEF IInv, Settled
<1>1. \A x \in Requests : future[x] \in Settled => future'[x] \in Settled
  BY <1>0, FutureMoves
<1>2. ASSUME NEW w \in Workers, worker'[w].pc = "callback"
      PROVE  future'[worker'[w].req] \in Settled
  <2>1. CASE worker'[w] = worker[w]
    <3>1. worker[w].req \in Requests /\ future[worker[w].req] \in Settled
      BY <1>0, <1>2, <2>1, TaskFacts DEF Answered, Handling
    <3> QED
      BY <1>1, <2>1, <3>1
  <2>2. ASSUME WorkerStep(w), worker'[w] # worker[w]
        PROVE  future'[worker'[w].req] \in Settled
    <3>1. PICK r \in Requests :
             /\ worker'[w] \in {IdleTask, [pc |-> "process", req |-> r], [pc |-> "callback", req |-> r]}
             /\ \/ TakeExpired(w, r) \/ Dispatch(w, r) \/ Succeed(w, r) \/ GiveUp(w, r)
                \/ worker'[w] = IdleTask
      BY <1>0, <2>2, WorkerMoves
    <3>2. ~Dispatch(w, r)
      BY <1>0, <1>2 DEF Dispatch, TypeOK
    <3>3. worker'[w] # IdleTask /\ worker'[w].req = r
      BY <1>2, <3>1 DEF IdleTask
    <3> QED
      BY <3>1, <3>2, <3>3, EndsSettle
  <2>3. ASSUME NEW v \in Workers \ {w}, WorkerStep(v)
        PROVE  worker'[w] = worker[w]
    BY <1>0, <2>3, WorkerMoves
  <2>4. ~Stop
    BY <1>0, <1>2 DEF Stop, IdleTask
  <2> QED
    BY <2>1, <2>2, <2>3, <2>4, OthersLeaveWorkers
<1>3. ASSUME sweep'.req # NoRequest
      PROVE  sweep'.req \notin Waiters /\ future'[sweep'.req] \in Settled
  <2>1. CASE sweep'.req = sweep.req
    BY <1>0, <1>1, <1>3, <2>1 DEF Answered, TypeOK
  <2>2. ASSUME NEW r \in Requests, SweepExpires(r), sweep'.req # sweep.req
        PROVE  sweep'.req \notin Waiters /\ future'[sweep'.req] \in Settled
    <3>1. r \notin Waiters /\ sweep'.req = r
      <4>1. sweep = [todo |-> sweep.todo, req |-> sweep.req]
        BY <1>0 DEF TypeOK
      <4>2. r \in Waiters => sweep'.req = sweep.req
        BY <2>2, <4>1 DEF SweepExpires
      <4>3. r \notin Waiters => sweep'.req = r
        BY <2>2 DEF SweepExpires
      <4> QED
        BY <2>2, <4>2, <4>3
    <3>2. Resolve(r, "expired") /\ r \in active
      BY <2>2 DEF SweepExpires
    <3>3. future'[r] \in Settled
      BY <1>0, <3>2, ResolveSettles DEF Untouched
    <3> QED
      BY <3>1, <3>3
  <2>3. \/ sweep'.req = sweep.req
        \/ \E r \in Requests : SweepExpires(r)
    <3>1. ASSUME NEW r \in Requests, CallerStep(r) \/ WaiterStep(r) \/ Expire(r) \/ WakeRetry(r)
          PROVE  sweep' = sweep
      BY <3>1 DEF CallerStep, WaiterStep, Expire, WakeRetry, Enqueue, WaiterCancelled, CancelRequest,
                  WaitTimeout, WaiterResumes, BreakOff
    <3>2. ASSUME NEW w \in Workers, WorkerStep(w)
          PROVE  sweep' = sweep
      BY <3>2 DEF WorkerStep, TakeExpired, Dispatch, Take, Succeed, ScheduleRetry, GiveUp, Processed,
                  CallbackReturns
    <3>3. ~Stop
      BY <1>3 DEF Stop, IdleSweep
    <3>4. ~\E r \in Requests : SweepCallbackReturns(r)
      BY <1>0, <1>3 DEF SweepCallbackReturns, TypeOK
    <3>5. ASSUME SweepStarts \/ \E r \in Requests : SweepSkips(r)
          PROVE  sweep'.req = sweep.req
      BY <1>0, <3>5 DEF SweepStarts, SweepSkips, TypeOK
    <3>6. Stopped \/ UNCHANGED vars => sweep' = sweep
      BY DEF Stopped, vars
    <3> QED
      BY <3>1, <3>2, <3>3, <3>4, <3>5, <3>6 DEF Next, SweepStep
  <2> QED
    BY <2>1, <2>2, <2>3
<1>4. ASSUME NEW x \in Requests, x \in Waiters, leaving'[x] # "no"
      PROVE  future'[x] = "cancelled"
  <2>0. future[x] = "cancelled" => future'[x] = "cancelled"
    BY <1>0, FutureMoves
  <2>1. CASE leaving'[x] = leaving[x]
    BY <1>0, <1>4, <2>0, <2>1 DEF Answered
  <2>2. CASE WaitTimeout(x) \/ WaiterCancelled(x)
    <3>1. Resolve(x, "cancelled") /\ future[x] \in {"pending", "cancelled"}
      BY <1>0, <2>2 DEF WaitTimeout, WaiterCancelled, BreakOff, Answered
    <3> QED
      BY <1>0, <2>0, <3>1, ResolveType
  <2>3. CASE WaiterResumes(x)
    <3>1. leaving[x] # "no"
      BY <2>3 DEF WaiterResumes
    <3> QED
      BY <1>0, <1>4, <2>0, <3>1 DEF Answered
  <2> QED
    BY <1>0, <1>4, <2>1, <2>2, <2>3, CounterMoves
<1> QED
  BY <1>2, <1>3, <1>4, QueueAssumption DEF Answered

LEMMA SweepOKStep ==
    ASSUME IInv, [Next]_vars
    PROVE  SweepOK'
<1>0. TypeOK /\ SweepOK
  BY DEF IInv
<1>1. ASSUME NEW r \in Requests, CallerStep(r) \/ WaiterStep(r) \/ Expire(r) \/ WakeRetry(r)
      PROVE  SweepOK'
  <2>1. sweep' = sweep /\ stopping' = stopping /\ expired \subseteq expired'
    BY <1>1 DEF CallerStep, WaiterStep, Expire, WakeRetry, Enqueue, WaiterCancelled, CancelRequest,
                WaitTimeout, WaiterResumes, BreakOff
  <2> QED
    BY <1>0, <2>1 DEF SweepOK
<1>2. ASSUME NEW w \in Workers, WorkerStep(w)
      PROVE  SweepOK'
  <2>1. UNCHANGED <<sweep, stopping, expired>>
    BY <1>2 DEF WorkerStep, TakeExpired, Dispatch, Take, Succeed, ScheduleRetry, GiveUp, Processed,
                CallbackReturns
  <2> QED
    BY <1>0, <2>1 DEF SweepOK
<1>3. CASE SweepStep
  <2>1. stopping' = stopping /\ expired' = expired
    BY <1>3 DEF SweepStep, SweepStarts, SweepSkips, SweepExpires, SweepCallbackReturns
  <2>2. ~stopping
    <3>1. SweepStarts => ~stopping
      BY DEF SweepStarts
    <3>2. \A r \in Requests : SweepSkips(r) \/ SweepExpires(r) \/ SweepCallbackReturns(r) => sweep # IdleSweep
      BY QueueAssumption DEF SweepSkips, SweepExpires, SweepCallbackReturns, IdleSweep
    <3> QED
      BY <1>0, <1>3, <3>1, <3>2 DEF SweepStep, SweepOK
  <2>3. sweep'.todo \subseteq sweep.todo \cup expired
    <3>1. sweep = [todo |-> sweep.todo, req |-> sweep.req]
      BY <1>0 DEF TypeOK
    <3>2. ASSUME SweepStarts
          PROVE  sweep'.todo \subseteq sweep.todo \cup expired
      BY <3>1, <3>2 DEF SweepStarts
    <3>3. ASSUME NEW r \in Requests, SweepSkips(r) \/ SweepCallbackReturns(r)
          PROVE  sweep'.todo \subseteq sweep.todo \cup expired
      BY <3>1, <3>3 DEF SweepSkips, SweepCallbackReturns
    <3>4. ASSUME NEW r \in Requests, SweepExpires(r)
          PROVE  sweep'.todo \subseteq sweep.todo \cup expired
      BY <3>1, <3>4 DEF SweepExpires
    <3> QED
      BY <1>3, <3>2, <3>3, <3>4 DEF SweepStep
  <2> QED
    BY <1>0, <2>1, <2>2, <2>3 DEF SweepOK
<1>4. CASE Stop
  BY <1>4 DEF Stop, SweepOK, IdleSweep
<1>5. CASE Stopped
  BY <1>0, <1>5 DEF Stopped, SweepOK
<1>6. CASE UNCHANGED vars
  BY <1>0, <1>6 DEF vars, SweepOK
<1> QED
  BY <1>1, <1>2, <1>3, <1>4, <1>5, <1>6 DEF Next

-------------------------------------------------------------------------------
(* Who settles a request, who takes it out of the table                    *)

LEMMA SettledBy ==
    ASSUME TypeOK, [Next]_vars, NEW x \in Requests, future[x] = "pending", future'[x] # "pending"
    PROVE  \/ WaitTimeout(x) \/ WaiterCancelled(x) \/ CancelRequest(x)
           \/ \E w \in Workers : TakeExpired(w, x) \/ Succeed(w, x) \/ GiveUp(w, x)
           \/ SweepExpires(x) \/ Stopped
<1>1. ASSUME NEW r \in Requests, NEW how \in Settled, Resolve(r, how)
      PROVE  x = r
  BY <1>1, ResolveType
<1>2. {"ok", "failed", "expired", "cancelled"} = Settled
  BY DEF Settled
<1>3. ASSUME NEW r \in Requests, WaitTimeout(r) \/ WaiterCancelled(r) \/ CancelRequest(r)
      PROVE  x = r
  BY <1>1, <1>2, <1>3 DEF WaitTimeout, WaiterCancelled, CancelRequest, BreakOff
<1>4. ASSUME NEW r \in Requests, Enqueue(r) \/ WaiterResumes(r) \/ Expire(r) \/ WakeRetry(r)
      PROVE  FALSE
  <2>1. Enqueue(r) => future'[x] = "pending"
    BY DEF Enqueue, TypeOK
  <2> QED
    BY <1>4, <2>1 DEF WaiterResumes, Expire, WakeRetry, table
<1>5. ASSUME NEW w \in Workers, NEW r \in Requests, TakeExpired(w, r) \/ Succeed(w, r) \/ GiveUp(w, r)
      PROVE  x = r
  BY <1>1, <1>2, <1>5 DEF TakeExpired, Succeed, GiveUp
<1>6. ASSUME NEW w \in Workers, NEW r \in Requests,
             Dispatch(w, r) \/ ScheduleRetry(w, r) \/ CallbackReturns(w, r)
      PROVE  FALSE
  BY <1>6 DEF Dispatch, ScheduleRetry, CallbackReturns, table
<1>7. ASSUME NEW r \in Requests, SweepExpires(r)
      PROVE  x = r
  BY <1>1, <1>2, <1>7 DEF SweepExpires
<1>8. ASSUME Stop \/ SweepStarts \/ UNCHANGED vars
             \/ \E r \in Requests : SweepSkips(r) \/ SweepCallbackReturns(r)
      PROVE  FALSE
  BY <1>8 DEF Stop, SweepStarts, SweepSkips, SweepCallbackReturns, vars, table
<1> QED
  BY <1>3, <1>4, <1>5, <1>6, <1>7, <1>8 DEF Next, CallerStep, WaiterStep, WorkerStep, SweepStep

LEMMA RemovedBy ==
    ASSUME TypeOK, [Next]_vars, NEW x \in active, x \notin active'
    PROVE  \/ WaiterResumes(x) \/ CancelRequest(x)
           \/ \E w \in Workers : TakeExpired(w, x) \/ Succeed(w, x) \/ GiveUp(w, x) \/ CallbackReturns(w, x)
           \/ SweepExpires(x) \/ SweepCallbackReturns(x) \/ Stopped
<1>1. ASSUME NEW r \in Requests, WaiterResumes(r) \/ CancelRequest(r)
      PROVE  x = r
  BY <1>1 DEF WaiterResumes, CancelRequest
<1>2. ASSUME NEW r \in Requests,
             Enqueue(r) \/ WaitTimeout(r) \/ WaiterCancelled(r) \/ Expire(r) \/ WakeRetry(r)
      PROVE  FALSE
  BY <1>2 DEF Enqueue, WaitTimeout, WaiterCancelled, BreakOff, Expire, WakeRetry, table
<1>3. ASSUME NEW w \in Workers, NEW r \in Requests, TakeExpired(w, r) \/ Succeed(w, r) \/ GiveUp(w, r)
      PROVE  x = r
  <2>1. Complete(w, r)
    BY <1>3 DEF TakeExpired, Succeed, GiveUp
  <2> QED
    BY <2>1, CompleteType
<1>4. ASSUME NEW w \in Workers, NEW r \in Requests, CallbackReturns(w, r)
      PROVE  x = r
  BY <1>4 DEF CallbackReturns
<1>5. ASSUME NEW w \in Workers, NEW r \in Requests, Dispatch(w, r) \/ ScheduleRetry(w, r)
      PROVE  FALSE
  BY <1>5 DEF Dispatch, ScheduleRetry, table
<1>6. ASSUME NEW r \in Requests, SweepExpires(r) \/ SweepCallbackReturns(r)
      PROVE  x = r
  BY <1>6 DEF SweepExpires, SweepCallbackReturns
<1>7. ASSUME Stop \/ SweepStarts \/ UNCHANGED vars \/ \E r \in Requests : SweepSkips(r)
      PROVE  FALSE
  BY <1>7 DEF Stop, SweepStarts, SweepSkips, vars, table
<1> QED
  BY <1>1, <1>2, <1>3, <1>4, <1>5, <1>6, <1>7 DEF Next, CallerStep, WaiterStep, WorkerStep, SweepStep

\* What a worker has brought to an end is in no queue, sleep or process.
LEMMA EndedLeaves ==
    ASSUME IInv, [Next]_vars, NEW w \in Workers, NEW x \in Requests,
           TakeExpired(w, x) \/ Succeed(w, x) \/ GiveUp(w, x)
    PROVE  x \in ToReport /\ x \notin ToReport'
<1>0. TypeOK /\ Hands /\ KnownProviders /\ Hands' /\ TypeOK'
  BY HandsStep, TypeStep DEF IInv
<1>1. Complete(w, x)
  BY DEF TakeExpired, Succeed, GiveUp
<1>2. /\ worker'[w] = IF x \in Waiters THEN IdleTask ELSE [pc |-> "callback", req |-> x]
      /\ \A v \in Workers \ {w} : worker'[v] = worker[v]
  BY <1>0, <1>1, CompleteType
<1>3. CASE TakeExpired(w, x)
  <2>1. x \in Range(queue) /\ Leaves(x) /\ sleeping' = sleeping
    BY <1>0, <1>3, TakeFacts DEF TakeExpired, Take
  <2>2. x \notin Range(queue') /\ x \notin sleeping'
    BY <1>0, <2>1 DEF Hands, Leaves
  <2>3. \A v \in Workers : worker'[v] # [pc |-> "process", req |-> x]
    BY <1>0, <1>2, <2>1 DEF Hands, Handling, IdleTask
  <2> QED
    BY <2>1, <2>2, <2>3 DEF ToReport
<1>4. CASE Succeed(w, x) \/ GiveUp(w, x)
  <2>1. worker[w] = [pc |-> "process", req |-> x] /\ UNCHANGED <<queue, sleeping>>
    BY <1>4 DEF Succeed, GiveUp, Processed, queues
  <2>2. x \notin Range(queue) /\ x \notin sleeping
    BY <1>0, <2>1 DEF Hands, Handling
  <2>3. \A v \in Workers : worker'[v] # [pc |-> "process", req |-> x]
    BY <1>0, <1>2, <2>1 DEF Hands, Handling, IdleTask
  <2> QED
    BY <2>1, <2>2, <2>3 DEF ToReport
<1> QED
  BY <1>3, <1>4

\* Where the queue, the sleeps and the processing get their requests from.
LEMMA ToReportMoves ==
    ASSUME IInv, [Next]_vars, NEW x \in ToReport', x \in Requests
    PROVE  /\ x \in ToReport \/ Enqueue(x)
           /\ x \in Range(queue') =>
              x \in Range(queue) \/ Enqueue(x) \/ (WakeRetry(x) /\ x \in sleeping \cap (active \ expired))
           /\ x \in sleeping' => x \in sleeping \/ \E w \in Workers : ScheduleRetry(w, x)
           /\ \A w \in Workers : worker'[w] = [pc |-> "process", req |-> x] =>
                 worker'[w] = worker[w] \/ Dispatch(w, x)
<1>0. TypeOK /\ Hands /\ KnownProviders
  BY DEF IInv
<1>1. x \in Range(queue') =>
              x \in Range(queue) \/ Enqueue(x) \/ (WakeRetry(x) /\ x \in sleeping \cap (active \ expired))
  <2>1. queue' = <<>> => x \notin Range(queue')
    BY DEF Range
  <2>2. \A r \in Requests : WakeRetry(r) => r \in sleeping
    BY DEF WakeRetry
  <2> QED
    BY <2>1, <2>2, QueueSteps DEF Joins, Leaves
<1>2. x \in sleeping' => x \in sleeping \/ \E w \in Workers : ScheduleRetry(w, x)
  <2>1. ASSUME NEW w \in Workers, WorkerStep(w), x \in sleeping'
        PROVE  x \in sleeping \/ ScheduleRetry(w, x)
    BY <1>0, <2>1, WorkerMoves
  <2>2. Stop => sleeping' = sleeping
    BY DEF Stop
  <2>3. \A r \in Requests : WakeRetry(r) => sleeping' \subseteq sleeping
    BY DEF WakeRetry
  <2> QED
    BY <2>1, <2>2, <2>3, OthersLeaveWorkers
<1>3. ASSUME NEW w \in Workers, worker'[w] = [pc |-> "process", req |-> x]
      PROVE  worker'[w] = worker[w] \/ Dispatch(w, x)
  <2>1. ASSUME WorkerStep(w)
        PROVE  Dispatch(w, x)
    <3>1. PICK r \in Requests :
             /\ worker'[w] \in {IdleTask, [pc |-> "process", req |-> r], [pc |-> "callback", req |-> r]}
             /\ TakeExpired(w, r) \/ Dispatch(w, r) \/ ~Processing(w)' \/ worker'[w] = IdleTask
      BY <1>0, <2>1, WorkerMoves
    <3>2. worker'[w] # IdleTask /\ Processing(w)' /\ r = x
      BY <1>3, <3>1 DEF IdleTask, Processing
    <3>3. ~TakeExpired(w, r)
      <4>1. Complete(w, r) => worker'[w] \in {IdleTask, [pc |-> "callback", req |-> r]}
        BY <1>0, CompleteType
      <4>2. Complete(w, r) => worker'[w].pc # "process"
        BY <4>1 DEF IdleTask
      <4> QED
        BY <1>3, <4>2 DEF TakeExpired
    <3> QED
      BY <3>1, <3>2, <3>3
  <2>2. ASSUME NEW v \in Workers \ {w}, WorkerStep(v)
        PROVE  worker'[w] = worker[w]
    BY <1>0, <2>2, WorkerMoves
  <2>3. ~Stop
    BY <1>3 DEF Stop, IdleTask
  <2> QED
    BY <2>1, <2>2, <2>3, OthersLeaveWorkers
<1>4. x \in ToReport \/ Enqueue(x)
  <2>1. CASE x \in Range(queue')
    BY <1>1, <2>1 DEF ToReport
  <2>2. CASE x \in sleeping'
    BY <1>2, <2>2 DEF ToReport, ScheduleRetry, Processed
  <2>3. ASSUME NEW w \in Workers, worker'[w] = [pc |-> "process", req |-> x]
        PROVE  x \in ToReport
    <3>1. Dispatch(w, x) => x \in Range(queue)
      BY <1>0, TakeFacts DEF Dispatch
    <3> QED
      BY <1>3, <2>3, <3>1 DEF ToReport
  <2> QED
    BY <2>1, <2>2, <2>3 DEF ToReport
<1> QED
  BY <1>1, <1>2, <1>3, <1>4

\* Time does not run back, and only Stopped ends a stop.
LEMMA ExpiredGrows ==
    ASSUME [Next]_vars
    PROVE  expired \subseteq expired' /\ (stopping => stopping' \/ Stopped)
<1>1. ASSUME NEW r \in Requests, CallerStep(r) \/ WaiterStep(r) \/ Expire(r) \/ WakeRetry(r)
      PROVE  expired \subseteq expired' /\ stopping' = stopping
  BY <1>1 DEF CallerStep, WaiterStep, Expire, WakeRetry, Enqueue, WaiterCancelled, CancelRequest,
              WaitTimeout, WaiterResumes, BreakOff
<1>2. ASSUME NEW w \in Workers, WorkerStep(w)
      PROVE  UNCHANGED <<expired, stopping>>
  BY <1>2 DEF WorkerStep, TakeExpired, Dispatch, Take, Succeed, ScheduleRetry, GiveUp, Processed,
              CallbackReturns
<1>3. ASSUME SweepStep \/ UNCHANGED vars
      PROVE  UNCHANGED <<expired, stopping>>
  BY <1>3 DEF SweepStep, SweepStarts, SweepSkips, SweepExpires, SweepCallbackReturns, vars
<1>4. (Stop => stopping' /\ expired' = expired) /\ (Stopped => expired' = expired)
  BY DEF Stop, Stopped
<1> QED
  BY <1>1, <1>2, <1>3, <1>4 DEF Next

\* What is queued, processed or asleep stays so, or it is settled.
LEMMA InHandStays ==
    ASSUME IInv, [Next]_vars, NEW x \in ToReport \ expired, x \in Requests,
           future[x] = "pending", future'[x] = "pending"
    PROVE  x \in ToReport' \/ stopping'
<1>0. /\ TypeOK /\ Hands /\ KnownProviders /\ Untouched /\ Answered
      /\ x \in active
      /\ "pending" \notin Settled
      /\ {"ok", "failed", "expired", "cancelled"} = Settled
  BY DEF IInv, Tracked, Settled
<1>1. ASSUME NEW w \in Workers, WorkerStep(w)
      PROVE  x \in ToReport'
  <2>1. PICK r \in Requests :
             /\ \A v \in Workers \ {w} : worker'[v] = worker[v]
             /\ \/ /\ TakeExpired(w, r) \/ Dispatch(w, r)
                   /\ worker[w] = IdleTask /\ Leaves(r) /\ sleeping' = sleeping
                \/ /\ Succeed(w, r) \/ GiveUp(w, r)
                   /\ worker[w] = [pc |-> "process", req |-> r]
                   /\ UNCHANGED <<queue, sleeping>>
                \/ /\ worker[w] = [pc |-> "process", req |-> r]
                   /\ queue' = queue /\ sleeping' = sleeping \cup {r}
                \/ /\ worker[w] = [pc |-> "callback", req |-> r]
                   /\ UNCHANGED <<queue, sleeping>>
    BY <1>0, <1>1, WorkerMoves
  <2>2. TakeExpired(w, r) \/ Succeed(w, r) \/ GiveUp(w, r) => r # x
    BY <1>0, EndsSettle
  <2>3. Dispatch(w, x) => worker'[w] = [pc |-> "process", req |-> x]
    BY <1>0 DEF Dispatch, TypeOK
  <2>4. CASE r = x
    BY <2>1, <2>2, <2>3, <2>4 DEF ToReport
  <2>5. CASE r # x
    <3>1. worker[w] # [pc |-> "process", req |-> x]
      BY <2>1, <2>5 DEF IdleTask
    <3>2. x \in Range(queue) => x \in Range(queue')
      BY <2>1, <2>5 DEF Leaves
    <3>3. sleeping \subseteq sleeping'
      BY <2>1
    <3> QED
      BY <2>1, <3>1, <3>2, <3>3 DEF ToReport
  <2> QED
    BY <2>4, <2>5
<1>2. ~Stopped
  BY <1>0 DEF Stopped, TypeOK
<1>3. ~WaiterResumes(x) /\ ~CancelRequest(x) /\ ~SweepExpires(x)
  <2>1. ~WaiterResumes(x)
    BY <1>0 DEF WaiterResumes, Answered
  <2>2. ~CancelRequest(x) /\ ~SweepExpires(x)
    BY <1>0, ResolveSettles DEF CancelRequest, SweepExpires
  <2> QED
    BY <2>1, <2>2
<1>4. ASSUME ~\E w \in Workers : WorkerStep(w), x \in Range(queue)
      PROVE  x \in Range(queue')
  BY <1>2, <1>3, <1>4, QueueSteps DEF Joins, Leaves
<1>5. ASSUME ~Stop, ~\E w \in Workers : WorkerStep(w)
      PROVE  x \in ToReport'
  <2>1. worker' = worker
    BY <1>5, OthersLeaveWorkers
  <2>2. CASE sleeping' = sleeping
    BY <1>4, <1>5, <2>1, <2>2 DEF ToReport
  <2>3. ASSUME NEW r \in Requests, WakeRetry(r)
        PROVE  x \in ToReport'
    <3>1. r \in sleeping /\ sleeping' = sleeping \ {r} /\ (r = x => queue' = Append(queue, x))
      BY <1>0, <2>3 DEF WakeRetry
    <3>2. r = x => x \in Range(queue')
      BY <1>0, <3>1, AppendFacts DEF Hands, Joins
    <3> QED
      BY <1>4, <1>5, <2>1, <3>1, <3>2 DEF ToReport
  <2> QED
    BY <1>2, <1>5, <2>2, <2>3, OthersLeaveWorkers
<1>6. Stop => stopping'
  BY DEF Stop
<1> QED
  BY <1>1, <1>5, <1>6

LEMMA TrackedStep ==
    ASSUME IInv, [Next]_vars
    PROVE  Tracked'
<1> SUFFICES ASSUME NEW x \in Requests, future'[x] = "pending"
             PROVE  x \in active' /\ (x \in ToReport' \cup expired' \/ stopping')
  BY DEF Tracked
<1>1. TypeOK /\ "pending" \notin Settled
  BY DEF IInv, Settled
<1>2. CASE Enqueue(x)
  <2>1. x \notin Range(queue) /\ queue' = Append(queue, x) /\ x \in active'
    BY <1>2 DEF Enqueue, IInv, Untouched, InHand
  <2>2. x \in Range(queue')
    BY <2>1, AppendFacts DEF IInv, Joins
  <2> QED
    BY <2>1, <2>2 DEF ToReport
<1>3. CASE future[x] = "pending"
  <2>1. x \in active /\ (x \in ToReport \cup expired \/ stopping)
    BY <1>3 DEF IInv, Tracked
  <2>2. x \in active'
    BY <1>1, <2>1, ActiveMoves
  <2>3. expired \subseteq expired' /\ (stopping => stopping' \/ Stopped)
    BY ExpiredGrows
  <2>4. ~Stopped
    BY <1>1, <1>3, <2>1 DEF Stopped, TypeOK
  <2> QED
    BY <1>3, <2>1, <2>2, <2>3, <2>4, InHandStays
<1> QED
  BY <1>1, <1>2, <1>3, FutureMoves

-------------------------------------------------------------------------------
(* Wanted, counted, reported                                               *)

LEMMA QueueWantedStep ==
    ASSUME IInv, [Next]_vars
    PROVE  QueueWanted'
<1>0. /\ TypeOK /\ Hands /\ KnownProviders /\ Untouched /\ Answered /\ Tracked /\ SweepOK
      /\ QueueWanted /\ TypeOK'
  BY TypeStep DEF IInv
<1>1. ASSUME NEW x \in Requests, x \in ToReport',
             (\E w \in Workers : TakeExpired(w, x) \/ Succeed(w, x) \/ GiveUp(w, x))
      PROVE  FALSE
  BY <1>1, EndedLeaves
<1>2. ASSUME NEW x \in Range(queue'), Enqueue(x)
      PROVE  /\ Wanted(x)'
             /\ x \in Waiters /\ leaving'[x] = "timed_out" => x \in active'
  BY <1>0, <1>2 DEF Enqueue, Wanted, TypeOK
<1>3. ASSUME NEW x \in Requests, WaitTimeout(x) \/ WaiterCancelled(x)
      PROVE  x \in Waiters /\ leaving'[x] # "no" /\ active' = active
             /\ (future[x] # "pending" => leaving'[x] = "cancelled")
  BY <1>0, <1>3 DEF WaitTimeout, WaiterCancelled, BreakOff, TypeOK
<1>4. ASSUME NEW x \in Requests, CancelRequest(x) \/ SweepExpires(x)
      PROVE  x \notin Range(queue')
  <2>1. Dequeue(x)
    BY <1>4 DEF CancelRequest, SweepExpires
  <2> QED
    BY <1>0, <2>1, DequeueFacts DEF Leaves
<1>5. Stopped => Range(queue') = {} /\ active' = {}
  BY DEF Stopped, Range
<1>6. ASSUME NEW x \in Requests, x \in Waiters, WaiterResumes(x)
      PROVE  x \notin active' /\ ((leaving[x] = "timed_out" /\ x \in active) => x \notin Range(queue'))
             /\ leaving'[x] # "timed_out" /\ (leaving[x] # "timed_out" => leaving'[x] = "gone")
  <2>1. leaving[x] = "timed_out" /\ x \in active => Dequeue(x)
    BY <1>6 DEF WaiterResumes
  <2>2. Dequeue(x) => x \notin Range(queue')
    BY <1>0, DequeueFacts DEF Leaves
  <2> QED
    BY <1>0, <1>6, <2>1, <2>2 DEF WaiterResumes, TypeOK
<1>7. ASSUME NEW x \in Requests, x \in Range(queue), x \in Range(queue')
      PROVE  /\ Wanted(x)'
             /\ x \in Waiters /\ leaving'[x] = "timed_out" => x \in active'
  <2>0. /\ Wanted(x)
        /\ x \in Waiters /\ leaving[x] = "timed_out" => x \in active
        /\ x \in ToReport'
        /\ ~\E w \in Workers : TakeExpired(w, x) \/ Succeed(w, x) \/ GiveUp(w, x)
        /\ ~CancelRequest(x) /\ ~SweepExpires(x) /\ ~Stopped
    BY <1>0, <1>1, <1>4, <1>5, <1>7 DEF QueueWanted, ToReport
  <2>1. CASE WaitTimeout(x) \/ WaiterCancelled(x)
    BY <1>0, <1>3, <2>0, <2>1 DEF Wanted, Tracked
  <2>2. CASE x \in Waiters /\ WaiterResumes(x)
    <3>1. leaving[x] # "timed_out"
      BY <1>6, <1>7, <2>0, <2>2
    <3> QED
      BY <1>6, <2>2, <3>1 DEF Wanted
  <2>3. CASE ~WaitTimeout(x) /\ ~WaiterCancelled(x) /\ ~WaiterResumes(x)
    <3>1. x \in Waiters => leaving'[x] = leaving[x]
      BY <1>0, <2>3, CounterMoves
    <3>2. future[x] = "pending" => future'[x] = "pending"
      BY <1>0, <2>0, <2>3, SettledBy
    <3>3. x \in active /\ x \in Waiters => x \in active'
      <4>1. ~\E w \in Workers : CallbackReturns(w, x)
        BY <1>0, <1>7 DEF CallbackReturns, Hands, Handling
      <4>2. x \in Waiters => ~SweepCallbackReturns(x)
        BY <1>0, QueueAssumption DEF SweepCallbackReturns, Answered
      <4> QED
        BY <1>0, <2>0, <2>3, <4>1, <4>2, RemovedBy
    <3> QED
      BY <2>0, <3>1, <3>2, <3>3 DEF Wanted
  <2>4. WaiterResumes(x) => x \in Waiters
    BY DEF WaiterResumes
  <2> QED
    BY <2>1, <2>2, <2>3, <2>4
<1>8. ASSUME NEW x \in Requests, WakeRetry(x), x \in sleeping \cap (active \ expired)
      PROVE  /\ Wanted(x)'
             /\ x \in Waiters /\ leaving'[x] = "timed_out" => x \in active'
  BY <1>0, <1>8 DEF WakeRetry, QueueWanted, ToReport, Wanted, table
<1>9. Range(queue') \subseteq Requests
  BY <1>0, LenProperties, ElementOfSeq DEF TypeOK, Range
<1>10. ASSUME NEW x \in Range(queue')
       PROVE  /\ Wanted(x)'
              /\ x \in Waiters /\ leaving'[x] = "timed_out" => x \in active'
  <2>1. x \in Requests /\ x \in ToReport'
    BY <1>9 DEF ToReport
  <2> QED
    BY <1>2, <1>7, <1>8, <2>1, ToReportMoves
<1>11. ASSUME NEW x \in Requests, x \in ToReport', x \in active' \ expired', x \notin Range(queue')
       PROVE  Wanted(x)'
  <2>1. ~Enqueue(x)
    <3>1. ASSUME Enqueue(x)
          PROVE  x \in Range(queue')
      <4>1. x \notin Range(queue) /\ queue' = Append(queue, x)
        BY <1>0, <3>1 DEF Enqueue, Untouched, InHand
      <4> QED
        BY <1>0, <4>1, AppendFacts DEF Joins
    <3> QED
      BY <1>11, <3>1
  <2>2. x \in ToReport /\ x \in active
    BY <1>11, <2>1, ToReportMoves, ActiveMoves
  <2>3. x \notin expired
    <3>1. expired \subseteq expired'
      BY DEF Next, CallerStep, WaiterStep, WorkerStep, SweepStep, Expire, WakeRetry, Enqueue,
             WaiterCancelled, CancelRequest, WaitTimeout, WaiterResumes, BreakOff, TakeExpired,
             Dispatch, Take, Succeed, ScheduleRetry, GiveUp, Processed, CallbackReturns,
             SweepStarts, SweepSkips, SweepExpires, SweepCallbackReturns, Stop, Stopped, vars
    <3> QED
      BY <1>11, <3>1
  <2>4. Wanted(x)
    BY <1>0, <2>2, <2>3 DEF QueueWanted
  <2>5. ~CancelRequest(x) /\ ~SweepExpires(x) /\ ~Stopped /\ ~WaiterResumes(x)
    BY <1>0, <1>5, <1>11, <2>3 DEF CancelRequest, SweepExpires, WaiterResumes, SweepOK
  <2>6. CASE WaitTimeout(x) \/ WaiterCancelled(x)
    BY <1>3, <2>6 DEF Wanted
  <2>7. CASE ~WaitTimeout(x) /\ ~WaiterCancelled(x)
    <3>1. x \in Waiters => leaving'[x] = leaving[x]
      BY <1>0, <2>5, <2>7, CounterMoves
    <3>2. future[x] = "pending" => future'[x] = "pending"
      BY <1>0, <1>1, <1>11, <2>5, <2>7, SettledBy
    <3> QED
      BY <2>4, <3>1, <3>2 DEF Wanted
  <2> QED
    BY <2>6, <2>7
<1>12. ToReport' \subseteq Requests
  BY <1>0, <1>9 DEF ToReport, TypeOK
<1> QED
  BY <1>10, <1>11, <1>12 DEF QueueWanted

LEMMA CountedStep ==
    ASSUME IInv, [Next]_vars
    PROVE  Counted'
<1>0. /\ TypeOK /\ Hands /\ KnownProviders /\ Untouched /\ Counted /\ TypeOK'
      /\ MaxRetries \in Nat
  BY TypeStep, QueueAssumption DEF IInv
<1>1. ASSUME NEW w \in Workers, NEW x \in Requests, Dispatch(w, x)
      PROVE  /\ x \in Range(queue) /\ x \notin Range(queue') \cup sleeping'
             /\ tries[x] = retry_count[x] /\ retry_count' = retry_count
             /\ \A v \in Workers : Processing(v) => worker[v].req # x
  <2>1. Take(w, x) /\ retry_count' = retry_count
    BY <1>1 DEF Dispatch, Take
  <2>2. x \in Range(queue) /\ Leaves(x) /\ sleeping' = sleeping
    BY <1>0, <2>1, TakeFacts DEF Take
  <2>3. x \notin sleeping /\ tries[x] = retry_count[x]
    BY <1>0, <2>2 DEF Hands, Counted
  <2>4. \A v \in Workers : Processing(v) => worker[v].req # x
    BY <1>0, <2>2 DEF Hands, Processing, Handling
  <2> QED
    BY <2>1, <2>2, <2>3, <2>4 DEF Leaves
<1>2. ASSUME NEW w \in Workers, NEW x \in Requests, ScheduleRetry(w, x)
      PROVE  /\ x \notin Range(queue) \cup sleeping
             /\ tries[x] = retry_count[x] + 1 /\ tries' = tries
             /\ retry_count'[x] = retry_count[x] + 1
             /\ \A v \in Workers : ~(worker'[v].pc = "process" /\ worker'[v].req = x)
  <2>1. worker[w].pc = "process" /\ worker[w].req = x /\ tries' = tries
    BY <1>2 DEF ScheduleRetry, Processed
  <2>2. tries[x] = retry_count[x] + 1 /\ x \notin Range(queue) \cup sleeping
    BY <1>0, <2>1 DEF Counted, Processing, Hands, Handling
  <2>3. retry_count'[x] = retry_count[x] + 1
    BY <1>0, <1>2 DEF ScheduleRetry, TypeOK
  <2>4. worker' = [worker EXCEPT ![w] = IdleTask]
    BY <1>2 DEF ScheduleRetry
  <2>5. \A v \in Workers : ~(worker'[v].pc = "process" /\ worker'[v].req = x)
    BY <1>0, <2>1, <2>4 DEF TypeOK, IdleTask, Hands, Handling
  <2> QED
    BY <2>1, <2>2, <2>3, <2>5
<1>3. ASSUME NEW x \in Requests
      PROVE  tries'[x] <= MaxRetries + 1
  <2>1. CASE tries'[x] = tries[x]
    BY <1>0, <2>1 DEF Counted
  <2>2. ASSUME NEW w \in Workers, Dispatch(w, x), tries'[x] = tries[x] + 1
        PROVE  tries'[x] <= MaxRetries + 1
    <3>1. retry_count[x] \in 0 .. MaxRetries /\ tries[x] = retry_count[x]
      BY <1>0, <1>1, <2>2 DEF TypeOK
    <3> QED
      BY <1>0, <2>2, <3>1
  <2> QED
    BY <1>0, <2>1, <2>2, CounterMoves
<1>4. ASSUME NEW x \in Requests, x \in Range(queue') \cup sleeping'
      PROVE  tries'[x] = retry_count'[x] /\ (x \in sleeping' => retry_count'[x] > 0)
  <2>1. ASSUME NEW w \in Workers, ScheduleRetry(w, x)
        PROVE  tries'[x] = retry_count'[x] /\ retry_count'[x] > 0
    <3>1. retry_count[x] \in Nat
      BY <1>0 DEF TypeOK
    <3> QED
      BY <1>2, <2>1, <3>1
  <2>2. CASE ~\E w \in Workers : ScheduleRetry(w, x)
    <3>1. ~\E w \in Workers : Dispatch(w, x)
      BY <1>1, <1>4
    <3>2. tries'[x] = tries[x] /\ retry_count'[x] = retry_count[x]
      BY <1>0, <2>2, <3>1, CounterMoves
    <3>3. CASE Enqueue(x)
      <4>1. future[x] = "none" /\ sleeping' = sleeping
        BY <3>3 DEF Enqueue
      <4> QED
        BY <1>0, <3>2, <4>1 DEF Untouched, InHand
    <3>4. CASE ~Enqueue(x)
      <4>1. x \in ToReport'
        BY <1>4 DEF ToReport
      <4>2. x \in Range(queue) \cup sleeping /\ (x \in sleeping' => x \in sleeping)
        BY <1>4, <2>2, <3>4, <4>1, ToReportMoves
      <4> QED
        BY <1>0, <3>2, <4>2 DEF Counted
    <3> QED
      BY <3>3, <3>4
  <2> QED
    BY <2>1, <2>2
<1>5. ASSUME NEW w \in Workers, worker'[w].pc = "process"
      PROVE  tries'[worker'[w].req] = retry_count'[worker'[w].req] + 1
  <2> DEFINE x == worker'[w].req
  <2>1. x \in Requests /\ worker'[w] = [pc |-> "process", req |-> x]
    <3>1. worker'[w] \in Task
      BY <1>0 DEF TypeOK
    <3> QED
      BY <1>5, <3>1 DEF Task, IdleTask
  <2> HIDE DEF x
  <2>2. x \in ToReport'
    BY <2>1 DEF ToReport
  <2>3. CASE Dispatch(w, x)
    <3>1. tries'[x] = tries[x] + 1
      BY <1>0, <2>1, <2>3 DEF Dispatch, TypeOK
    <3> QED
      BY <1>1, <2>1, <2>3, <3>1 DEF x
  <2>4. CASE worker'[w] = worker[w]
    <3>1. Processing(w) /\ worker[w].req = x
      BY <1>5, <2>4 DEF Processing, x
    <3>2. ~\E v \in Workers : Dispatch(v, x)
      BY <1>1, <2>1, <3>1
    <3>3. ~\E v \in Workers : ScheduleRetry(v, x)
      BY <1>2, <1>5, <2>1 DEF x
    <3>4. tries'[x] = tries[x] /\ retry_count'[x] = retry_count[x]
      BY <1>0, <2>1, <3>2, <3>3, CounterMoves
    <3> QED
      BY <1>0, <3>1, <3>4 DEF Counted, x
  <2> QED
    BY <2>1, <2>2, <2>3, <2>4, ToReportMoves
<1>6. Range(queue') \cup sleeping' \subseteq Requests
  BY <1>0, LenProperties, ElementOfSeq DEF TypeOK, Range
<1> QED
  BY <1>3, <1>4, <1>5, <1>6 DEF Counted, Processing

LEMMA ReportedStep ==
    ASSUME IInv, [Next]_vars
    PROVE  Reported'
<1> SUFFICES ASSUME NEW x \in Requests
             PROVE  reports'[x] <= (IF x \in ToReport' THEN 0 ELSE 1)
                          + (IF x \in active' /\ sweep'.req # x /\ ~stopping' THEN 0 ELSE 1)
  BY DEF Reported
<1> DEFINE a == IF x \in ToReport THEN 0 ELSE 1
           b == IF x \in active /\ sweep.req # x /\ ~stopping THEN 0 ELSE 1
           a1 == IF x \in ToReport' THEN 0 ELSE 1
           b1 == IF x \in active' /\ sweep'.req # x /\ ~stopping' THEN 0 ELSE 1
<1>0. /\ TypeOK /\ SweepOK /\ Untouched
      /\ reports[x] \in Nat /\ reports[x] <= a + b
  BY DEF IInv, Reported, TypeOK
<1>1. CASE Enqueue(x)
  <2>1. reports[x] = 0 /\ reports' = reports
    BY <1>0, <1>1 DEF Enqueue, Untouched, history
  <2> QED
    BY <2>1
<1>2. CASE ~Enqueue(x)
  <2>1. a <= a1
    <3>1. x \in ToReport' => x \in ToReport
      BY <1>2, ToReportMoves
    <3> QED
      BY <3>1
  <2>2. b <= b1
    <3> SUFFICES ASSUME x \in active', sweep'.req # x, ~stopping'
                 PROVE  x \in active /\ sweep.req # x /\ ~stopping
      OBVIOUS
    <3>1. x \in active
      BY <1>2, ActiveMoves
    <3>2. ~Stop /\ ~Stopped
      BY DEF Stop, Stopped
    <3>3. ~SweepCallbackReturns(x)
      BY DEF SweepCallbackReturns
    <3>4. ASSUME NEW r \in Requests, CallerStep(r) \/ WaiterStep(r) \/ Expire(r) \/ WakeRetry(r)
          PROVE  UNCHANGED <<sweep, stopping>>
      BY <3>4 DEF CallerStep, WaiterStep, Expire, WakeRetry, Enqueue, WaiterCancelled, CancelRequest,
                  WaitTimeout, WaiterResumes, BreakOff
    <3>5. ASSUME NEW w \in Workers, WorkerStep(w)
          PROVE  UNCHANGED <<sweep, stopping>>
      BY <3>5 DEF WorkerStep, TakeExpired, Dispatch, Take, Succeed, ScheduleRetry, GiveUp, Processed,
                  CallbackReturns
    <3>6. ASSUME SweepStep
          PROVE  sweep.req # x /\ stopping' = stopping
      <4>1. stopping' = stopping
        BY <3>6 DEF SweepStep, SweepStarts, SweepSkips, SweepExpires, SweepCallbackReturns
      <4>2. SweepStarts => sweep.req = NoRequest
        BY DEF SweepStarts, IdleSweep
      <4>3. \A r \in Requests : SweepSkips(r) \/ SweepExpires(r) => sweep.req = NoRequest
        BY DEF SweepSkips, SweepExpires
      <4>4. \A r \in Requests : SweepCallbackReturns(r) => sweep.req = r
        BY DEF SweepCallbackReturns
      <4> QED
        BY <3>3, <3>6, <4>1, <4>2, <4>3, <4>4, QueueAssumption DEF SweepStep
    <3>7. UNCHANGED vars => UNCHANGED <<sweep, stopping>>
      BY DEF vars
    <3> QED
      BY <3>1, <3>2, <3>4, <3>5, <3>6, <3>7 DEF Next
  <2>3. CASE reports'[x] = reports[x]
    BY <1>0, <2>1, <2>2, <2>3
  <2>4. ASSUME NEW w \in Workers, TakeExpired(w, x) \/ Succeed(w, x) \/ GiveUp(w, x),
               reports'[x] = reports[x] + 1
        PROVE  reports'[x] <= a1 + b1
    <3>1. a = 0 /\ a1 = 1
      BY <2>4, EndedLeaves
    <3> QED
      BY <1>0, <2>2, <2>4, <3>1
  <2>5. ASSUME SweepExpires(x), reports'[x] = reports[x] + 1
        PROVE  reports'[x] <= a1 + b1
    <3>1. x \in active /\ sweep.req = NoRequest /\ sweep.todo # {}
      BY <2>5 DEF SweepExpires
    <3>2. ~stopping /\ sweep.req # x
      BY <1>0, <3>1, QueueAssumption DEF SweepOK, IdleSweep
    <3>3. x \notin active' \/ sweep'.req = x
      BY <2>5 DEF SweepExpires
    <3>4. b = 0 /\ b1 = 1
      BY <3>1, <3>2, <3>3
    <3> QED
      BY <1>0, <2>1, <2>5, <3>4
  <2> QED
    BY <1>0, <2>3, <2>4, <2>5, CounterMoves
<1> QED
  BY <1>1, <1>2

LEMMA NewcomersStep ==
    ASSUME IInv, [Next]_vars
    PROVE  NewcomersFit'
<1> DEFINE fresh == {r \in Range(queue) : retry_count[r] = 0}
<1>0. /\ TypeOK /\ Hands /\ Untouched /\ Counted /\ TypeOK' /\ Hands'
      /\ MaxSize \in Nat
      /\ Cardinality(fresh) <= MaxSize
  BY TypeStep, HandsStep, QueueAssumption DEF IInv, NewcomersFit
<1>1. ASSUME NEW s \in Seq(Requests), IsInjective(s)
      PROVE  IsFiniteSet(Range(s)) /\ Cardinality(Range(s)) = Len(s)
  <2>1. Len(s) \in Nat /\ Len(s) \in 0 .. Len(s) /\ Range(s) = {s[i] : i \in 1 .. Len(s)}
    BY LenProperties DEF Range
  <2> QED
    BY <1>1, <2>1, FirstCounted
<1>2. /\ IsFiniteSet(fresh) /\ Cardinality(fresh) \in Nat
  <2>1. IsFiniteSet(Range(queue))
    BY <1>0, <1>1 DEF TypeOK, Hands
  <2> QED
    BY <2>1, FS_Subset, FS_CardinalityType
<1>3. ASSUME fresh' \subseteq fresh
      PROVE  NewcomersFit'
  <2>1. Cardinality(fresh') <= Cardinality(fresh) /\ Cardinality(fresh') \in Nat
    BY <1>2, <1>3, FS_Subset, FS_CardinalityType
  <2> QED
    BY <1>0, <1>2, <2>1 DEF NewcomersFit
<1>4. \A x \in Requests : retry_count'[x] = 0 => retry_count[x] = 0
  <2>1. \A x \in Requests : retry_count[x] \in Nat
    BY <1>0 DEF TypeOK
  <2> QED
    BY <1>0, <2>1, CounterMoves
<1>5. Range(queue) \subseteq Requests
  BY <1>0, LenProperties, ElementOfSeq DEF TypeOK, Range
<1>6. CASE Range(queue') \subseteq Range(queue)
  BY <1>3, <1>4, <1>5, <1>6
<1>7. ASSUME NEW r \in Requests, Joins(r), WakeRetry(r)
      PROVE  NewcomersFit'
  <2>1. retry_count[r] > 0 /\ retry_count[r] \in Nat
    BY <1>0, <1>7 DEF WakeRetry, Counted, TypeOK
  <2>2. fresh' \subseteq fresh
    BY <1>4, <1>5, <1>7, <2>1 DEF Joins
  <2> QED
    BY <1>3, <2>2
<1>8. ASSUME NEW r \in Requests, Enqueue(r)
      PROVE  NewcomersFit'
  <2>1. queue' \in Seq(Requests) /\ IsInjective(queue')
    BY <1>0 DEF TypeOK, Hands
  <2>2. Len(queue') = Len(queue) + 1 /\ Len(queue) < MaxSize /\ Len(queue) \in Nat
    BY <1>0, <1>8, AppendProperties, LenProperties DEF Enqueue, TypeOK
  <2>3. IsFiniteSet(Range(queue')) /\ Cardinality(Range(queue')) = Len(queue')
    BY <1>1, <2>1
  <2>4. Cardinality(fresh') <= Cardinality(Range(queue')) /\ Cardinality(fresh') \in Nat
    BY <2>3, FS_Subset, FS_CardinalityType
  <2> QED
    BY <1>0, <2>2, <2>3, <2>4 DEF NewcomersFit
<1>9. \/ Range(queue') \subseteq Range(queue)
      \/ \E r \in Requests : Enqueue(r) \/ (Joins(r) /\ WakeRetry(r))
  <2>1. queue' = <<>> => Range(queue') = {}
    BY DEF Range
  <2> QED
    BY <2>1, QueueSteps DEF Leaves
<1> QED
  BY <1>6, <1>7, <1>8, <1>9

-------------------------------------------------------------------------------
(* The life cycle                                                          *)

\* Every answer is one the life cycle allows, and no try comes with it.
LEMMA OutcomeAllowed ==
    ASSUME IInv, [Next]_vars, NEW x \in Requests, future[x] = "pending", future'[x] # "pending"
    PROVE  future'[x] \in Lifecycle!Outcomes(x)
<1>0. /\ TypeOK /\ Counted /\ MaxRetries \in Nat
      /\ retry_count[x] \in 0 .. MaxRetries /\ tries[x] \in Nat
      /\ {"ok", "failed", "expired", "cancelled"} = Settled
  BY QueueAssumption DEF IInv, TypeOK, Settled
<1>1. ASSUME NEW how \in Settled, Resolve(x, how)
      PROVE  future'[x] = how
  BY <1>0, <1>1, ResolveType
<1>2. CASE WaitTimeout(x) \/ WaiterCancelled(x) \/ CancelRequest(x)
  <2>1. Resolve(x, "cancelled")
    BY <1>2 DEF WaitTimeout, WaiterCancelled, CancelRequest, BreakOff
  <2> QED
    BY <1>0, <1>1, <2>1 DEF Lifecycle!Outcomes
<1>3. ASSUME NEW w \in Workers, TakeExpired(w, x)
      PROVE  future'[x] \in Lifecycle!Outcomes(x)
  BY <1>0, <1>1, <1>3 DEF TakeExpired, Lifecycle!Outcomes
<1>4. ASSUME NEW w \in Workers, Succeed(w, x) \/ GiveUp(w, x)
      PROVE  tries[x] = retry_count[x] + 1
  <2>1. worker[w] = [pc |-> "process", req |-> x]
    BY <1>4 DEF Succeed, GiveUp, Processed
  <2> QED
    BY <1>0, <2>1 DEF Counted, Processing
<1>5. ASSUME NEW w \in Workers, Succeed(w, x)
      PROVE  future'[x] \in Lifecycle!Outcomes(x)
  <2>1. future'[x] = "ok" /\ tries[x] > 0
    BY <1>0, <1>1, <1>4, <1>5 DEF Succeed
  <2> QED
    BY <2>1 DEF Lifecycle!Outcomes
<1>6. ASSUME NEW w \in Workers, GiveUp(w, x)
      PROVE  future'[x] \in Lifecycle!Outcomes(x)
  <2>1. future'[x] = "failed" /\ retry_count[x] >= MaxRetries
    BY <1>0, <1>1, <1>6 DEF GiveUp
  <2>2. tries[x] = MaxRetries + 1
    BY <1>0, <1>4, <1>6, <2>1
  <2> QED
    BY <2>1, <2>2 DEF Lifecycle!Outcomes
<1>7. CASE SweepExpires(x)
  BY <1>0, <1>1, <1>7 DEF SweepExpires, Lifecycle!Outcomes
<1>8. CASE Stopped
  <2>1. future'[x] = "cancelled"
    BY <1>8 DEF Stopped
  <2> QED
    BY <2>1 DEF Lifecycle!Outcomes
<1> QED
  BY <1>0, <1>2, <1>3, <1>5, <1>6, <1>7, <1>8, SettledBy

\* Enqueue accepts, a call of the processor tries, all else settles or stutters.
LEMMA LifecycleStep ==
    ASSUME IInv, [Next]_vars
    PROVE  [Lifecycle!Next]_<<future, tries>>
<1>0. /\ TypeOK /\ TypeOK' /\ MaxRetries \in Nat /\ Hands /\ KnownProviders /\ Counted
      /\ Answered /\ QueueWanted
  BY TypeStep, QueueAssumption DEF IInv
<1>1. ASSUME NEW w \in Workers, NEW x \in Requests, Dispatch(w, x)
      PROVE  Lifecycle!Try(x)
  <2>1. x \in Range(queue)
    BY <1>0, <1>1, TakeFacts DEF Dispatch
  <2>2. future[x] \in {"pending", "cancelled"}
    BY <1>0, <2>1 DEF QueueWanted, Wanted, Answered
  <2>3. tries[x] = retry_count[x] /\ retry_count[x] \in 0 .. MaxRetries
    BY <1>0, <2>1 DEF Counted, TypeOK
  <2>4. tries' = [tries EXCEPT ![x] = @ + 1] /\ future' = future
    BY <1>1 DEF Dispatch, table
  <2> QED
    BY <1>0, <2>2, <2>3, <2>4 DEF Lifecycle!Try
<1>2. ASSUME NEW x \in Requests, Enqueue(x)
      PROVE  Lifecycle!Accept(x)
  BY <1>2 DEF Enqueue, history, Lifecycle!Accept
<1>3. ASSUME tries' = tries, \A x \in Requests : ~Enqueue(x)
      PROVE  Lifecycle!Settle
  <2> DEFINE S == {x \in Requests : future[x] = "pending" /\ future'[x] # "pending"}
  <2>1. ASSUME NEW x \in S PROVE future'[x] \in Lifecycle!Outcomes(x)
    BY OutcomeAllowed
  <2>2. ASSUME NEW x \in Requests, x \notin S PROVE future'[x] = future[x]
    <3>1. "pending" \notin Settled
      BY DEF Settled
    <3> QED
      BY <1>0, <1>3, <2>2, <3>1, FutureMoves
  <2>3. ASSUME NEW x \in Requests
        PROVE  future'[x] \in {future[r] : r \in Requests} \cup {"ok", "failed", "expired", "cancelled"}
    BY <2>1, <2>2 DEF Lifecycle!Outcomes
  <2>4. future' \in [Requests -> {future[r] : r \in Requests}
                                 \cup {"ok", "failed", "expired", "cancelled"}]
    BY <1>0, <2>3 DEF TypeOK
  <2>5. S \in SUBSET {r \in Requests : future[r] = "pending"}
    OBVIOUS
  <2> QED
    BY <1>3, <2>1, <2>2, <2>4, <2>5 DEF Lifecycle!Settle
<1>4. ASSUME tries' # tries
      PROVE  \E x \in Requests : \E w \in Workers : Dispatch(w, x)
  <2>1. PICK x \in Requests : tries'[x] # tries[x]
    BY <1>0, <1>4 DEF TypeOK
  <2> QED
    BY <1>0, <2>1, CounterMoves
<1> QED
  BY <1>1, <1>2, <1>3, <1>4 DEF Lifecycle!Next

-------------------------------------------------------------------------------
(* The theorems                                                            *)

LEMMA InitHolds == Init => IInv
<1> SUFFICES ASSUME Init PROVE IInv
  OBVIOUS
<1>1. DOMAIN queue = {} /\ Range(queue) = {} /\ queue \in Seq(Requests) /\ provider_order \in Seq(Providers)
  BY EmptySeq DEF Init, Range
<1>2. /\ MaxRetries \in Nat /\ MaxSize \in Nat
      /\ \A w \in Workers : worker[w] = IdleTask /\ IdleTask \in Task
  BY QueueAssumption DEF Init, Task
<1>3. TypeOK
  <2>1. sweep \in [todo : SUBSET Requests, req : Requests \cup {NoRequest}]
    BY DEF Init, IdleSweep
  <2>2. retry_count \in [Requests -> 0 .. MaxRetries] /\ worker \in [Workers -> Task]
    BY <1>2 DEF Init
  <2> QED
    BY <1>1, <2>1, <2>2 DEF Init, TypeOK
<1>4. InHand = {} /\ ToReport = {}
  BY <1>1, <1>2 DEF Init, InHand, ToReport, Handling, IdleTask
<1>5. KnownProviders /\ Hands /\ Untouched /\ Tracked
  BY <1>1, <1>2, <1>4 DEF Init, KnownProviders, Hands, Handling, IdleTask, Untouched, Tracked, IsInjective
<1>6. Answered /\ SweepOK /\ QueueWanted
  BY <1>1, <1>2, <1>4 DEF Init, Answered, SweepOK, QueueWanted, IdleTask, IdleSweep
<1>7. Counted /\ Reported
  BY <1>1, <1>2, <1>4 DEF Init, Counted, Reported, Processing, IdleTask
<1>8. NewcomersFit
  <2>1. {r \in Range(queue) : retry_count[r] = 0} = {} /\ Cardinality({}) = 0
    BY <1>1, FS_EmptySet
  <2> QED
    BY <1>2, <2>1 DEF NewcomersFit
<1> QED
  BY <1>3, <1>5, <1>6, <1>7, <1>8 DEF IInv

LEMMA QueueInvariant == Spec => []IInv
<1>1. IInv /\ [Next]_vars => IInv'
  BY TypeStep, ProvidersStep, HandsStep, UntouchedStep, AnsweredStep, TrackedStep, SweepOKStep,
     QueueWantedStep, CountedStep, ReportedStep, NewcomersStep DEF IInv
<1> QED
  BY <1>1, InitHolds, PTL DEF Spec

(* The queue keeps its types: no request is retried more than MaxRetries   *)
(* times.                                                                  *)
THEOREM TypeCorrect == Spec => []TypeOK
  BY QueueInvariant, PTL DEF IInv

(* A request whose future is open is in _active_requests, and a worker, a  *)
(* retry, the sweep or a stop under way can still settle it.               *)
THEOREM AlwaysTracked == Spec => []Tracked
  BY QueueInvariant, PTL DEF IInv

(* No request is ever queued twice, or queued, slept on or processed at    *)
(* the same time, with any number of workers.                              *)
THEOREM AlwaysOneHand == Spec => []OneHand
<1>1. IInv => OneHand
  BY DEF IInv, Hands, OneHand, Handling, Processing
<1> QED
  BY <1>1, QueueInvariant, PTL

(* Only retries overfill the queue.                                        *)
THEOREM AlwaysNewcomersFit == Spec => []NewcomersFit
  BY QueueInvariant, PTL DEF IInv

(* The metrics and the callback hear of a request at most twice.           *)
THEOREM AlwaysTwoReportsAtMost == Spec => []TwoReportsAtMost
<1>1. IInv => TwoReportsAtMost
  <2> SUFFICES ASSUME IInv, NEW r \in Requests
               PROVE  reports[r] <= 2
    BY DEF TwoReportsAtMost
  <2> DEFINE a == IF r \in ToReport THEN 0 ELSE 1
             b == IF r \in active /\ sweep.req # r /\ ~stopping THEN 0 ELSE 1
  <2>1. reports[r] \in Nat /\ reports[r] <= a + b
    BY DEF IInv, Reported, TypeOK
  <2>2. a \in 0 .. 1 /\ b \in 0 .. 1
    OBVIOUS
  <2> QED
    BY <2>1, <2>2
<1> QED
  BY <1>1, QueueInvariant, PTL

(* The processor is called only for a request whose future is open, or     *)
(* whose waiter timed out or was cancelled.                                *)
THEOREM AlwaysWantedOnly == Spec => WantedOnly
<1>1. ASSUME IInv, [Next]_vars, NEW r \in Requests, tries'[r] > tries[r]
      PROVE  future[r] = "pending" \/ (r \in Waiters /\ leaving[r] # "no")
  <2>1. tries[r] \in Nat /\ TypeOK /\ Hands /\ KnownProviders
    BY <1>1 DEF IInv, TypeOK
  <2>2. PICK w \in Workers : Dispatch(w, r)
    BY <1>1, <2>1, CounterMoves
  <2>3. r \in Range(queue)
    BY <2>1, <2>2, TakeFacts DEF Dispatch
  <2> QED
    BY <1>1, <2>3 DEF IInv, QueueWanted, Wanted
<1>2. IInv /\ [Next]_vars
        => [\A r \in Requests : tries'[r] > tries[r]
              => future[r] = "pending" \/ (r \in Waiters /\ leaving[r] # "no")]_vars
  BY <1>1
<1> QED
  BY <1>2, QueueInvariant, PTL DEF Spec, WantedOnly

(* The queue implements the life cycle: each request is accepted once,     *)
(* tried MaxRetries + 1 times at most and never after a result or its      *)
(* expiry, and settled once, a success only after a try and a failure only *)
(* after the last.                                                         *)
THEOREM Refinement == Spec => ImplementsLifecycle
<1>1. Init => Lifecycle!Init
  BY DEF Init, Lifecycle!Init
<1>2. IInv /\ [Next]_vars => [Lifecycle!Next]_<<future, tries>>
  BY LifecycleStep
<1> QED
  BY <1>1, <1>2, QueueInvariant, PTL DEF Spec, ImplementsLifecycle, Lifecycle!Spec, Lifecycle!lvars
===============================================================================

-------------------------- MODULE SyncProcessorProofs --------------------------
(***************************************************************************)
(* Proofs about SyncProcessor, for any operations, dependencies, number of *)
(* overlapping runs, retries, reloads and storage failures.                *)
(***************************************************************************)
EXTENDS SyncProcessor, FiniteSetTheorems, TLAPS

\* The inductive invariant: a run removes or completes a record only along the
\* path of an answer, which HandlersOK follows through a handler's phases.
IInv == TypeOK /\ HandlersOK /\ CompletedApplied /\ NothingLost

-------------------------------------------------------------------------------
(* The parts of a list of operations *)

\* A part of a sequence of members of S is one.
LEMMA PartSeq ==
    ASSUME NEW S, NEW s \in Seq(S), NEW m \in Nat \ {0}, NEW n \in 0 .. Len(s)
    PROVE  SubSeq(s, m, n) \in Seq(S)
OBVIOUS

\* Both parts createBatches and processBatch cut a list into are lists.
LEMMA Parts ==
    ASSUME NEW S, NEW s \in Seq(S), NEW n \in Nat
    PROVE  FirstOf(s, n) \in Seq(S) /\ AfterFirst(s, n) \in Seq(S)
<1>1. Len(s) \in Nat
  OBVIOUS
<1>2. (IF n < Len(s) THEN n ELSE Len(s)) \in 0 .. Len(s)
  BY <1>1
<1>3. FirstOf(s, n) \in Seq(S)
  BY <1>2, PartSeq DEF FirstOf
<1>4. AfterFirst(s, n) \in Seq(S)
  BY <1>1, PartSeq DEF AfterFirst
<1> QED
  BY <1>3, <1>4

\* The records of the storage at rest have their type.
LEMMA Records ==
    /\ Absent \in Stored
    /\ Idle \in Handlers
    /\ Off \in RunStates
    /\ \A n \in 0 .. MaxRetries : Sending(n) \in Handlers
<1>1. Absent \in Stored
  BY SyncAssumption DEF Absent, Stored
<1>2. Idle \in Handlers
  BY <1>1, SyncAssumption DEF Idle, Handlers
<1>3. <<>> \in Entries
  BY DEF Entries
<1>4. Off \in RunStates
  BY <1>3 DEF Off, RunStates
<1>5. \A n \in 0 .. MaxRetries : Sending(n) \in Handlers
  BY <1>1, <1>2 DEF Sending, Handlers, Idle
<1> QED
  BY <1>1, <1>2, <1>4, <1>5

\* Counting requests keeps the counts in range.
LEMMA SentType ==
    ASSUME sends \in [Ops -> 0 .. SendCap], NEW S
    PROVE  Sent(S) \in [Ops -> 0 .. SendCap]
BY SyncAssumption DEF Sent

\* A function on 1 .. n is a sequence.
LEMMA FunctionSeq ==
    ASSUME NEW S, NEW n \in Nat, NEW f \in [1 .. n -> S]
    PROVE  f \in Seq(S)
OBVIOUS

\* The members of a list are what it was made of.
LEMMA Members ==
    ASSUME NEW S, NEW s \in Seq(S)
    PROVE  ToSet(s) \subseteq S
BY DEF ToSet

-------------------------------------------------------------------------------
(* Steps of the runs *)

\* Sending the next chunk keeps the invariant: its handlers start with a count
\* from the list and nothing to write.
LEMMA BeginChunkIInv ==
    ASSUME IInv, NEW r \in Runs, NEW plan \in RunStates, BeginChunk(r, plan)
    PROVE  IInv'
<1> DEFINE chunk == ToSet(FirstOf(plan.batch, plan.width))
           rest == [plan EXCEPT !.batch = AfterFirst(plan.batch, plan.width)]
           next == [o \in Ops |-> IF \E x \in chunk : x.id = o
                                  THEN Sending((CHOOSE x \in chunk : x.id = o).retryCount)
                                  ELSE Idle]
<1>1. FirstOf(plan.batch, plan.width) \in Entries /\ AfterFirst(plan.batch, plan.width) \in Entries
  BY Parts DEF Entries, RunStates
<1>2. chunk \subseteq [id : Ops, retryCount : 0 .. MaxRetries]
  BY <1>1, Members DEF Entries
<1>3. \A o \in Ops : next[o] = Idle \/ \E n \in 0 .. MaxRetries : next[o] = Sending(n)
  <2> SUFFICES ASSUME NEW o \in Ops, \E x \in chunk : x.id = o
               PROVE  \E n \in 0 .. MaxRetries : next[o] = Sending(n)
    OBVIOUS
  <2> DEFINE y == CHOOSE x \in chunk : x.id = o
  <2>1. y \in chunk
    OBVIOUS
  <2>2. y.retryCount \in 0 .. MaxRetries
    BY <1>2, <2>1
  <2>3. next[o] = Sending(y.retryCount)
    OBVIOUS
  <2> QED
    BY <2>2, <2>3
<1>4. \A o \in Ops : /\ next[o] \in Handlers
                     /\ next[o].phase \in {"idle", "sent"} /\ next[o].job = "none"
  BY <1>3, Records, Zenon DEF Sending, Idle
<1>5. /\ handler' = [handler EXCEPT ![r] = next]
      /\ run' = [run EXCEPT ![r] = rest]
      /\ sends' = Sent({x.id : x \in chunk})
      /\ UNCHANGED <<queued, store, network, isProcessing, status, timers, applied,
                     events>>
  BY DEF BeginChunk
<1> HIDE DEF chunk, next
<1>6. TypeOK'
  <2>1. handler' \in [Runs -> [Ops -> Handlers]]
    <3>1. next \in [Ops -> Handlers]
      BY <1>4 DEF next
    <3> QED
      BY <1>5, <3>1 DEF IInv, TypeOK
  <2>2. run' \in [Runs -> RunStates]
    <3>1. rest \in RunStates
      BY <1>1 DEF RunStates
    <3> QED
      BY <1>5, <3>1 DEF IInv, TypeOK
  <2>3. sends' \in [Ops -> 0 .. SendCap]
    BY <1>5, SentType DEF IInv, TypeOK
  <2> QED
    BY <1>5, <2>1, <2>2, <2>3 DEF IInv, TypeOK, events
<1>7. HandlersOK'
  <2>1. ASSUME NEW s \in Runs, NEW o \in Ops
        PROVE  handler'[s][o] = IF s = r THEN next[o] ELSE handler[s][o]
    BY <1>5 DEF IInv, TypeOK
  <2> QED
    BY <1>4, <1>5, <2>1 DEF IInv, HandlersOK, HandlerOK
<1>8. CompletedApplied' /\ NothingLost'
  BY <1>5 DEF IInv, CompletedApplied, NothingLost
<1> QED
  BY <1>6, <1>7, <1>8 DEF IInv

\* So does the end of a run.
LEMMA EndRunIInv ==
    ASSUME IInv, NEW r \in Runs, NEW s \in SyncStatus,
           EndRun(r, s)
    PROVE  IInv'
<1>1. TypeOK'
  BY Records DEF IInv, TypeOK, EndRun, SyncStatus, history, events
<1>2. HandlersOK'
  <2>1. ASSUME NEW q \in Runs, NEW o \in Ops
        PROVE  handler'[q][o] = IF q = r THEN Idle ELSE handler[q][o]
    BY DEF IInv, TypeOK, EndRun, SyncStatus
  <2>2. applied' = applied
    BY DEF EndRun
  <2> QED
    BY <2>1, <2>2 DEF IInv, HandlersOK, HandlerOK, Idle
<1>3. CompletedApplied' /\ NothingLost'
  BY DEF IInv, CompletedApplied, NothingLost, EndRun
<1> QED
  BY <1>1, <1>2, <1>3 DEF IInv

\* What BeginBatch plans is a plan.
LEMMA PlanType ==
    ASSUME NEW plan \in RunStates, NEW w \in 1 .. MaxConcurrent
    PROVE  [plan EXCEPT !.batch = FirstOf(plan.todo, plan.size),
                        !.todo = AfterFirst(plan.todo, plan.size),
                        !.width = w] \in RunStates
<1>1. FirstOf(plan.todo, plan.size) \in Entries /\ AfterFirst(plan.todo, plan.size) \in Entries
  BY Parts DEF Entries, RunStates
<1>2. w \in Nat
  BY SyncAssumption
<1> QED
  BY <1>1, <1>2 DEF RunStates

\* And the next batch.
LEMMA BeginBatchIInv ==
    ASSUME IInv, NEW r \in Runs, NEW plan \in RunStates, BeginBatch(r, plan)
    PROVE  IInv'
BY PlanType, BeginChunkIInv DEF BeginBatch

\* What Read finds, and the plan it begins with.
Pending == {o \in Ops : store[o].status = "pending"}

Plan(order, size) ==
    [Off EXCEPT !.phase = "on", !.size = size,
                !.todo = [i \in DOMAIN order |->
                            [id |-> order[i], retryCount |-> store[order[i]].retryCount]],
                !.warned = Stuck(Pending, order)]

\* An order of the pending operations is a sequence of them, with the retries
\* of their records it is a plan.
LEMMA PlanFacts ==
    ASSUME TypeOK, NEW order \in resolveDependencies(Pending), NEW size \in BatchSizes
    PROVE  /\ Plan(order, size) \in RunStates
           /\ order \in Seq(Pending)
<1>1. Cardinality(Pending) \in Nat
  BY SyncAssumption, FS_Subset, FS_CardinalityType DEF Pending
<1>2. order \in [1 .. Cardinality(Pending) -> Pending]
  BY DEF resolveDependencies
<1>3. order \in Seq(Pending)
  BY <1>1, <1>2, FunctionSeq
<1> DEFINE list == [i \in DOMAIN order |->
                     [id |-> order[i], retryCount |-> store[order[i]].retryCount]]
<1>4. list \in [1 .. Cardinality(Pending) -> [id : Ops, retryCount : 0 .. MaxRetries]]
  BY <1>2 DEF TypeOK, Stored, Pending
<1> HIDE DEF list
<1>5. list \in Entries
  BY <1>1, <1>4, FunctionSeq DEF Entries
<1>6. size \in Nat /\ Stuck(Pending, order) \in BOOLEAN
  BY SyncAssumption DEF Stuck
<1>7. Off \in RunStates
  BY Records
<1> QED
  BY <1>3, <1>5, <1>6, <1>7 DEF Plan, RunStates, Off, list

\* The read of the pending operations: the list holds stored operations with
\* the retries written to their records.
LEMMA ReadIInv ==
    ASSUME IInv, NEW r \in Runs, Read(r)
    PROVE  IInv'
<1>1. CASE EndRun(r, status)
  BY <1>1, EndRunIInv DEF IInv, TypeOK
<1>2. CASE \E order \in resolveDependencies(Pending), size \in BatchSizes :
             BeginBatch(r, Plan(order, size))
  BY <1>2, PlanFacts, BeginBatchIInv DEF IInv
<1> QED
  BY <1>1, <1>2 DEF Read, Plan, Pending

\* A step of a run ends it or sends a chunk of a plan.
LEMMA StepKinds ==
    ASSUME IInv, NEW r \in Runs, RunStep(r)
    PROVE  \/ \E s : EndRun(r, s)
           \/ \E plan \in RunStates : plan.phase = "on" /\ BeginChunk(r, plan)
<1>1. ASSUME NEW plan \in RunStates, plan.phase = "on", BeginBatch(r, plan)
      PROVE  \E p \in RunStates : p.phase = "on" /\ BeginChunk(r, p)
  <2>1. PICK w \in 1 .. MaxConcurrent :
          BeginChunk(r, [plan EXCEPT !.batch = FirstOf(plan.todo, plan.size),
                                     !.todo = AfterFirst(plan.todo, plan.size),
                                     !.width = w])
    BY <1>1 DEF BeginBatch
  <2> DEFINE p == [plan EXCEPT !.batch = FirstOf(plan.todo, plan.size),
                               !.todo = AfterFirst(plan.todo, plan.size),
                               !.width = w]
  <2>2. p \in RunStates
    BY PlanType
  <2>3. p.phase = "on"
    BY <1>1 DEF RunStates
  <2> QED
    BY <2>1, <2>2, <2>3
<1>2. CASE Read(r)
  <2>1. ASSUME NEW order \in resolveDependencies(Pending), NEW size \in BatchSizes
        PROVE  Plan(order, size) \in RunStates /\ Plan(order, size).phase = "on"
    BY PlanFacts DEF IInv, Plan, Off
  <2> QED
    BY <1>1, <1>2, <2>1 DEF Read, Plan, Pending
<1>3. CASE ReadFails(r)
  BY <1>3 DEF ReadFails
<1>4. CASE ChunkDone(r)
  <2>1. run[r] \in RunStates /\ run[r].phase = "on"
    BY <1>4 DEF IInv, TypeOK, ChunkDone
  <2> QED
    BY <1>1, <1>4, <2>1 DEF ChunkDone
<1> QED
  BY <1>2, <1>3, <1>4 DEF RunStep

\* What follows a chunk.
LEMMA ChunkDoneIInv ==
    ASSUME IInv, NEW r \in Runs, ChunkDone(r)
    PROVE  IInv'
<1>1. run[r] \in RunStates
  BY DEF IInv, TypeOK
<1>2. CASE BeginChunk(r, run[r]) \/ BeginBatch(r, run[r])
  BY <1>1, <1>2, BeginChunkIInv, BeginBatchIInv
<1>3. CASE EndRun(r, "paused") \/ EndRun(r, status)
  BY <1>3, EndRunIInv DEF IInv, TypeOK, SyncStatus
<1> QED
  BY <1>2, <1>3 DEF ChunkDone

-------------------------------------------------------------------------------
(* Steps of the handlers *)

\* A step of one handler, described by its new state h and the applied
\* operations it leaves, keeps the invariant when h is a state HandlersOK allows.
LEMMA HandlerIInv ==
    ASSUME IInv, NEW r \in Runs, NEW o \in Ops, NEW h \in Handlers,
           handler' = [handler EXCEPT ![r][o] = h],
           applied \subseteq applied', applied' \subseteq Ops,
           sends' \in [Ops -> 0 .. SendCap], store' = store, UNCHANGED quiet,
           HandlerOK(h, o, applied')
    PROVE  IInv'
<1>1. TypeOK'
  BY DEF IInv, TypeOK, quiet, events
<1>2. HandlersOK'
  <2>1. ASSUME NEW q \in Runs, NEW p \in Ops
        PROVE  handler'[q][p] = IF q = r /\ p = o THEN h ELSE handler[q][p]
    BY DEF IInv, TypeOK
  <2> QED
    BY <2>1 DEF IInv, HandlersOK, HandlerOK
<1>3. CompletedApplied' /\ NothingLost'
  BY DEF IInv, CompletedApplied, NothingLost, quiet
<1> QED
  BY <1>1, <1>2, <1>3 DEF IInv

\* A handler's state and its stored operation, taken apart.
LEMMA HandlerFacts ==
    ASSUME IInv, NEW r \in Runs, NEW o \in Ops
    PROVE  /\ handler[r][o] \in Handlers /\ store[o] \in Stored
           /\ HandlerOK(handler[r][o], o, applied)
BY DEF IInv, TypeOK, HandlersOK

\* The request reaches the server, is answered, refused, lost or in conflict.
LEMMA AnswerIInv ==
    ASSUME IInv, NEW r \in Runs, NEW o \in Ops,
           Lands(r, o) \/ Answered(r, o) \/ Fails(r, o) \/ Refused(r, o) \/ Conflicts(r, o)
    PROVE  IInv'
<1> DEFINE h == handler[r][o]
<1>0. /\ h \in Handlers /\ h.job \in {"none"} \cup {"completed", "retry", "failed", "resolve"}
      /\ h.phase \in {"read", "write"} <=> h.job # "none"
      /\ h.job = "retry" \/ h.phase = "waiting" => h.retryCount < MaxRetries
      /\ h.phase \in {"landed", "remove"} => o \in applied
      /\ h.retryCount \in 0 .. MaxRetries
      /\ sends \in [Ops -> 0 .. SendCap] /\ applied \subseteq Ops
      /\ handler \in [Runs -> [Ops -> Handlers]]
  BY HandlerFacts DEF Handlers, HandlerOK, IInv, TypeOK
<1>1. CASE Lands(r, o)
  <2> DEFINE g == [h EXCEPT !.phase = "landed"]
  <2>1. /\ g \in Handlers /\ g.phase = "landed" /\ g.job = h.job
        /\ g.retryCount = h.retryCount /\ h.phase = "sent"
    BY <1>0, <1>1 DEF Lands, Handlers
  <2>2. handler' = [handler EXCEPT ![r][o] = g]
    BY <1>1 DEF Lands
  <2>3. /\ applied' = applied \cup {o} /\ sends' = sends /\ store' = store
        /\ UNCHANGED quiet
    BY <1>1 DEF Lands
  <2> HIDE DEF g, h
  <2> QED
    BY <1>0, <2>1, <2>2, <2>3, HandlerIInv DEF HandlerOK
<1>2. ASSUME NEW job \in {"completed", "retry", "failed", "resolve"}, Update(r, o, job),
             job = "completed" => o \in applied,
             job = "retry" => h.retryCount < MaxRetries,
             UNCHANGED <<quiet, store, sends, applied>>
      PROVE  IInv'
  <2> DEFINE g == [h EXCEPT !.phase = "read", !.job = job]
  <2>1. /\ g \in Handlers /\ g.phase = "read" /\ g.job = job
        /\ g.retryCount = h.retryCount
    BY <1>0 DEF Handlers
  <2>2. handler' = [handler EXCEPT ![r][o] = g]
    BY <1>0, <1>2 DEF Update
  <2> HIDE DEF g, h
  <2> QED
    BY <1>0, <1>2, <2>1, <2>2, HandlerIInv DEF HandlerOK
<1> HIDE DEF h
<1>3. CASE Answered(r, o)
  BY <1>0, <1>2, <1>3 DEF Answered, h
<1>4. CASE Fails(r, o)
  BY <1>0, <1>2, <1>4 DEF Fails, h
<1>5. CASE Refused(r, o)
  BY <1>0, <1>2, <1>5 DEF Refused
<1>6. CASE Conflicts(r, o)
  BY <1>0, <1>2, <1>6 DEF Conflicts
<1> QED
  BY <1>1, <1>3, <1>4, <1>5, <1>6

\* The get of an update: the copy is the record, and says no more than it.
LEMMA GetIInv ==
    ASSUME IInv, NEW r \in Runs, NEW o \in Ops, GetStored(r, o)
    PROVE  IInv'
<1> DEFINE h == handler[r][o]
           g == IF store[o].status = "absent" THEN AfterUpdate(h)
                ELSE [h EXCEPT !.phase = "write", !.copy = store[o]]
<1>1. /\ h \in Handlers /\ store[o] \in Stored
      /\ h.phase = "read" /\ h.job \in {"completed", "retry", "failed", "resolve"}
      /\ h.job = "retry" => h.retryCount < MaxRetries
      /\ h.job = "completed" => o \in applied
      /\ store[o].status = "completed" => o \in applied
  BY HandlerFacts DEF Handlers, HandlerOK, GetStored, IInv, CompletedApplied
<1>2. /\ g \in Handlers
      /\ HandlerOK(g, o, applied)
  BY <1>1, Records DEF AfterUpdate, Handlers, HandlerOK
<1>3. /\ handler' = [handler EXCEPT ![r][o] = g]
      /\ UNCHANGED <<quiet, store, sends, applied>>
      /\ sends \in [Ops -> 0 .. SendCap] /\ applied \subseteq Ops
  BY DEF GetStored, IInv, TypeOK
<1> HIDE DEF g
<1> QED
  BY <1>2, <1>3, HandlerIInv

\* A step of one handler that also writes its record: the record may say absent
\* or completed only when the operation was applied.
LEMMA WriteIInv ==
    ASSUME IInv, NEW r \in Runs, NEW o \in Ops, NEW h \in Handlers, NEW c \in Stored,
           handler' = [handler EXCEPT ![r][o] = h],
           store' = [store EXCEPT ![o] = c],
           UNCHANGED <<quiet, sends, applied>>,
           c.status \in {"absent", "completed"} => o \in applied,
           HandlerOK(h, o, applied)
    PROVE  IInv'
<1>1. TypeOK'
  BY DEF IInv, TypeOK, quiet, events
<1>2. HandlersOK'
  <2>1. ASSUME NEW q \in Runs, NEW p \in Ops
        PROVE  handler'[q][p] = IF q = r /\ p = o THEN h ELSE handler[q][p]
    BY DEF IInv, TypeOK
  <2> QED
    BY <2>1 DEF IInv, HandlersOK, HandlerOK
<1>3. \A p \in Ops : store'[p] = IF p = o THEN c ELSE store[p]
  BY DEF IInv, TypeOK
<1>4. CompletedApplied' /\ NothingLost'
  BY <1>3 DEF IInv, CompletedApplied, NothingLost, quiet, TypeOK
<1> QED
  BY <1>1, <1>2, <1>4 DEF IInv

\* The put of an update.
LEMMA PutIInv ==
    ASSUME IInv, NEW r \in Runs, NEW o \in Ops, PutStored(r, o)
    PROVE  IInv'
<1> DEFINE h == handler[r][o]
           g == AfterUpdate(h)
           c == Updated(h)
<1>1. /\ h \in Handlers
      /\ h.phase = "write" /\ h.job \in {"completed", "retry", "failed", "resolve"}
      /\ h.job = "retry" => h.retryCount < MaxRetries
      /\ h.job = "completed" => o \in applied
      /\ h.copy \in Stored /\ h.copy.status # "absent"
      /\ h.copy.status = "completed" => o \in applied
      /\ h.retryCount \in 0 .. MaxRetries
  BY HandlerFacts DEF Handlers, HandlerOK, PutStored
<1>2. /\ g \in Handlers
      /\ HandlerOK(g, o, applied)
  BY <1>1, Records DEF AfterUpdate, Handlers, HandlerOK
<1>3. c \in Stored /\ (c.status \in {"absent", "completed"} => o \in applied)
  <2>1. h.job = "retry" => h.retryCount + 1 \in 0 .. MaxRetries
    BY <1>1, SyncAssumption
  <2> HIDE DEF h
  <2> QED
    BY <1>1, <2>1 DEF Updated, Stored
<1>4. /\ handler' = [handler EXCEPT ![r][o] = g]
      /\ store' = [store EXCEPT ![o] = c]
      /\ UNCHANGED <<quiet, sends, applied>>
  BY DEF PutStored
<1> HIDE DEF g, c
<1> QED
  BY <1>2, <1>3, <1>4, WriteIInv

\* The removal of a completed operation.
LEMMA RemoveIInv ==
    ASSUME IInv, NEW r \in Runs, NEW o \in Ops, RemoveStored(r, o)
    PROVE  IInv'
<1> DEFINE h == handler[r][o]
           g == [h EXCEPT !.phase = "settled"]
<1>1. h \in Handlers /\ h.phase = "remove" /\ h.job = "none" /\ o \in applied
  BY HandlerFacts DEF Handlers, HandlerOK, RemoveStored
<1>2. g \in Handlers /\ g.phase = "settled" /\ g.job = "none"
  BY <1>1 DEF Handlers
<1>3. /\ handler' = [handler EXCEPT ![r][o] = g]
      /\ store' = [store EXCEPT ![o] = Absent]
      /\ UNCHANGED <<quiet, sends, applied>>
  BY DEF RemoveStored
<1> HIDE DEF g
<1> QED
  BY <1>1, <1>2, <1>3, Records, WriteIInv DEF HandlerOK

\* A retry is sent.
LEMMA RetryIInv ==
    ASSUME IInv, NEW r \in Runs, NEW o \in Ops, RetryDue(r, o)
    PROVE  IInv'
<1> DEFINE g == Sending(handler[r][o].retryCount + 1)
<1>1. /\ handler[r][o].retryCount < MaxRetries
      /\ handler[r][o].retryCount \in 0 .. MaxRetries
  BY HandlerFacts DEF Handlers, HandlerOK, RetryDue
<1>2. handler[r][o].retryCount + 1 \in 0 .. MaxRetries
  BY <1>1, SyncAssumption
<1>3. g \in Handlers /\ g.phase = "sent" /\ g.job = "none"
  BY <1>2, Records DEF Sending, Idle
<1>4. /\ handler' = [handler EXCEPT ![r][o] = g]
      /\ sends' \in [Ops -> 0 .. SendCap]
      /\ UNCHANGED <<quiet, store, applied>> /\ applied \subseteq Ops
  BY SentType DEF RetryDue, IInv, TypeOK
<1> HIDE DEF g
<1> QED
  BY <1>3, <1>4, HandlerIInv DEF HandlerOK

\* A failing transaction gives its handler another update, or none, and may end
\* the run; it writes nothing.
LEMMA StorageFailsIInv ==
    ASSUME IInv, NEW r \in Runs, NEW o \in Ops, StorageFails(r, o)
    PROVE  IInv'
<1> DEFINE h == handler[r][o]
           again(job) == [h EXCEPT !.phase = "read", !.job = job, !.copy = Absent]
           done == [Idle EXCEPT !.phase = "settled"]
<1>1. /\ h \in Handlers /\ handler \in [Runs -> [Ops -> Handlers]]
      /\ run \in [Runs -> RunStates] /\ status \in SyncStatus /\ isProcessing \in BOOLEAN
      /\ failures \in 0 .. MaxFailures
  BY HandlerFacts DEF IInv, TypeOK
<1>2. PICK g \in Handlers : /\ handler' = [handler EXCEPT ![r][o] = g]
                            /\ HandlerOK(g, o, applied)
  <2>1. ASSUME NEW job \in {"retry", "failed"}, Recovers(r, o, job),
               job = "retry" => h.retryCount < MaxRetries
        PROVE  /\ again(job) \in Handlers /\ HandlerOK(again(job), o, applied)
               /\ handler' = [handler EXCEPT ![r][o] = again(job)]
    <3>1. again(job) \in Handlers
      BY <1>1, Records DEF Handlers
    <3>2. HandlerOK(again(job), o, applied)
      BY <1>1, <2>1 DEF Handlers, HandlerOK
    <3> QED
      BY <1>1, <2>1, <3>1, <3>2 DEF Recovers
  <2>2. ASSUME Rejects(r, o)
        PROVE  /\ done \in Handlers /\ HandlerOK(done, o, applied)
               /\ handler' = [handler EXCEPT ![r][o] = done]
    BY <2>2, Records DEF Rejects, Handlers, HandlerOK, Idle
  <2> HIDE DEF again, done, h
  <2>3. CASE Rejects(r, o)
    BY <2>2, <2>3
  <2>4. CASE \E job \in {"retry", "failed"} :
               Recovers(r, o, job) /\ (job = "retry" => h.retryCount < MaxRetries)
    BY <2>1, <2>4
  <2> QED
    BY <2>3, <2>4 DEF StorageFails, h
<1>3. /\ UNCHANGED <<queued, store, network, timers, applied, sends, reloads>>
      /\ failures' \in 0 .. MaxFailures
  BY <1>1, SyncAssumption DEF StorageFails
<1>4. /\ run' \in [Runs -> RunStates] /\ status' \in SyncStatus
      /\ isProcessing' \in BOOLEAN
  <2>1. \/ UNCHANGED <<run, isProcessing, status>>
        \/ /\ run' = [run EXCEPT ![r] = Off]
           /\ isProcessing' = FALSE /\ status' = "error"
    BY DEF StorageFails, Recovers, Rejects
  <2> QED
    BY <1>1, <2>1, Records DEF SyncStatus
<1>5. TypeOK'
  <2>1. handler' \in [Runs -> [Ops -> Handlers]]
    BY <1>1, <1>2
  <2> QED
    BY <1>3, <1>4, <2>1, Zenon DEF IInv, TypeOK
<1>6. HandlersOK'
  <2>1. ASSUME NEW q \in Runs, NEW p \in Ops
        PROVE  handler'[q][p] = IF q = r /\ p = o THEN g ELSE handler[q][p]
    BY <1>1, <1>2
  <2> QED
    BY <1>2, <1>3, <2>1 DEF IInv, HandlersOK, HandlerOK
<1>7. CompletedApplied' /\ NothingLost'
  BY <1>3 DEF IInv, CompletedApplied, NothingLost
<1> QED
  BY <1>5, <1>6, <1>7 DEF IInv

-------------------------------------------------------------------------------
(* The other steps *)

\* Starts, pauses, resumes, stops and network changes touch neither handlers
\* nor records.
LEMMA ControlIInv ==
    ASSUME IInv,
           \/ \E force \in BOOLEAN : StartSync(force)
           \/ \E t \in timers : TimerFires(t)
           \/ PauseSync \/ ResumeSync \/ StopSync
           \/ \E n \in Networks : NetworkChanges(n)
    PROVE  IInv'
<1>1. UNCHANGED <<queued, store, handler, applied, sends, reloads, failures>>
  BY DEF StartSync, TimerFires, PauseSync, ResumeSync, StopSync, NetworkChanges,
         BeginRun, history, events
<1>2. /\ \/ BeginRun
         \/ /\ UNCHANGED run
            /\ status' \in {status, "paused", "idle"}
            /\ isProcessing' \in {isProcessing, FALSE}
      /\ timers' \subseteq timers \cup {"online"}
      /\ network' \in {network} \cup Networks
  BY DEF StartSync, TimerFires, PauseSync, ResumeSync, StopSync, NetworkChanges, history
<1>3. run' \in [Runs -> RunStates] /\ status' \in SyncStatus
  <2>1. CASE BeginRun
    <3>1. PICK r \in Runs : run' = [run EXCEPT ![r].phase = "reading"]
      BY <2>1 DEF BeginRun
    <3>2. run \in [Runs -> RunStates] /\ run[r] \in RunStates
      BY DEF IInv, TypeOK
    <3>3. [run[r] EXCEPT !.phase = "reading"] \in RunStates
      BY <3>2 DEF RunStates
    <3> QED
      BY <2>1, <3>1, <3>2, <3>3 DEF BeginRun, SyncStatus
  <2>2. CASE ~BeginRun
    BY <1>2, <2>2 DEF IInv, TypeOK, SyncStatus
  <2> QED
    BY <2>1, <2>2
<1>4. isProcessing' \in BOOLEAN
  BY <1>2, Zenon DEF BeginRun, IInv, TypeOK
<1>5. timers' \subseteq {"queue", "online"} /\ network' \in Networks
  BY <1>2, SyncAssumption DEF IInv, TypeOK
<1>6. /\ queued' \subseteq Ops /\ applied' \subseteq Ops
      /\ store' \in [Ops -> Stored] /\ handler' \in [Runs -> [Ops -> Handlers]]
      /\ sends' \in [Ops -> 0 .. SendCap] /\ reloads' \in 0 .. MaxReloads
      /\ failures' \in 0 .. MaxFailures
  BY <1>1 DEF IInv, TypeOK
<1>7. TypeOK'
  BY <1>3, <1>4, <1>5, <1>6, Zenon DEF TypeOK
<1>8. HandlersOK' /\ CompletedApplied' /\ NothingLost'
  BY <1>1 DEF IInv, HandlersOK, CompletedApplied, NothingLost
<1> QED
  BY <1>7, <1>8 DEF IInv

\* A queued operation has a pending record.
LEMMA QueueIInv ==
    ASSUME IInv, NEW o \in Ops, QueueOperation(o)
    PROVE  IInv'
<1> DEFINE c == [Absent EXCEPT !.status = "pending"]
<1>1. c \in Stored /\ c.status = "pending"
  BY Records DEF Absent, Stored
<1>2. /\ queued' = queued \cup {o} /\ store' = [store EXCEPT ![o] = c]
      /\ timers' \subseteq timers \cup {"queue"}
      /\ UNCHANGED <<network, isProcessing, status, run, handler, applied,
                     sends, reloads, failures>>
  BY DEF QueueOperation, history, events
<1> HIDE DEF c
<1>3. TypeOK'
  BY <1>1, <1>2 DEF IInv, TypeOK
<1>4. \A p \in Ops : store'[p] = IF p = o THEN c ELSE store[p]
  BY <1>2 DEF IInv, TypeOK
<1>5. HandlersOK' /\ CompletedApplied' /\ NothingLost'
  BY <1>1, <1>2, <1>4 DEF IInv, HandlersOK, CompletedApplied, NothingLost, TypeOK
<1> QED
  BY <1>3, <1>5 DEF IInv

\* A reload leaves the records.
LEMMA ReloadIInv ==
    ASSUME IInv, Reload
    PROVE  IInv'
<1>1. TypeOK'
  <2>1. /\ queued' \subseteq Ops /\ applied' \subseteq Ops
        /\ store' \in [Ops -> Stored] /\ sends' \in [Ops -> 0 .. SendCap]
        /\ network' \in Networks
    BY DEF IInv, TypeOK, Reload
  <2>2. reloads' \in 0 .. MaxReloads /\ failures' \in 0 .. MaxFailures
    BY SyncAssumption DEF IInv, TypeOK, Reload
  <2>3. run' \in [Runs -> RunStates] /\ handler' \in [Runs -> [Ops -> Handlers]]
    BY Records DEF Reload
  <2>4. /\ isProcessing' \in BOOLEAN
        /\ status' \in SyncStatus
        /\ timers' \subseteq {"queue", "online"}
    BY DEF Reload, SyncStatus
  <2> QED
    BY <2>1, <2>2, <2>3, <2>4, Zenon DEF TypeOK
<1>2. \A r \in Runs, o \in Ops : handler'[r][o] = Idle
  BY DEF Reload
<1>3. HandlersOK'
  BY <1>2 DEF HandlersOK, HandlerOK, Idle
<1>4. CompletedApplied' /\ NothingLost'
  BY DEF IInv, CompletedApplied, NothingLost, Reload
<1> QED
  BY <1>1, <1>3, <1>4 DEF IInv

-------------------------------------------------------------------------------
(* Theorems *)

\* The invariant holds at the start.
THEOREM InitIInv == Init => IInv
<1> SUFFICES ASSUME Init PROVE IInv
  OBVIOUS
<1>1. TypeOK
  <2>1. /\ queued \subseteq Ops /\ applied \subseteq Ops
        /\ timers \subseteq {"queue", "online"}
        /\ isProcessing \in BOOLEAN
        /\ status \in SyncStatus
    BY DEF Init, SyncStatus
  <2>2. /\ network \in Networks
        /\ sends \in [Ops -> 0 .. SendCap] /\ reloads \in 0 .. MaxReloads
        /\ failures \in 0 .. MaxFailures
    BY SyncAssumption DEF Init
  <2>3. /\ store \in [Ops -> Stored] /\ run \in [Runs -> RunStates]
        /\ handler \in [Runs -> [Ops -> Handlers]]
    BY Records DEF Init
  <2> QED
    BY <2>1, <2>2, <2>3, Zenon DEF TypeOK
<1>2. HandlersOK /\ CompletedApplied /\ NothingLost
  BY DEF Init, HandlersOK, HandlerOK, CompletedApplied, NothingLost, Idle, Absent
<1> QED
  BY <1>1, <1>2 DEF IInv

\* And every step keeps it, overlapping runs, stops and reloads included.
THEOREM NextIInv == IInv /\ [Next]_vars => IInv'
<1> SUFFICES ASSUME IInv, [Next]_vars PROVE IInv'
  OBVIOUS
<1>1. CASE \/ \E force \in BOOLEAN : StartSync(force)
           \/ \E t \in timers : TimerFires(t)
           \/ PauseSync \/ ResumeSync \/ StopSync
           \/ \E n \in Networks : NetworkChanges(n)
  BY <1>1, ControlIInv
<1>2. CASE Reload
  BY <1>2, ReloadIInv
<1>3. CASE \E o \in Ops : QueueOperation(o)
  BY <1>3, QueueIInv
<1>4. ASSUME NEW r \in Runs, RunStep(r) PROVE IInv'
  <2>1. CASE Read(r)
    BY <2>1, ReadIInv
  <2>2. CASE ReadFails(r)
    BY <2>2, EndRunIInv DEF ReadFails, SyncStatus
  <2>3. CASE ChunkDone(r)
    BY <2>3, ChunkDoneIInv
  <2> QED
    BY <1>4, <2>1, <2>2, <2>3 DEF RunStep
<1>5. ASSUME NEW r \in Runs, NEW o \in Ops, HandlerStep(r, o) PROVE IInv'
  BY <1>5, AnswerIInv, GetIInv, PutIInv, RemoveIInv, RetryIInv DEF HandlerStep
<1>6. CASE UNCHANGED vars
  BY <1>6 DEF vars, history, events, IInv, TypeOK, HandlersOK, CompletedApplied, NothingLost
<1>7. ASSUME NEW r \in Runs, NEW o \in Ops, StorageFails(r, o) PROVE IInv'
  BY <1>7, StorageFailsIInv
<1> QED
  BY <1>1, <1>2, <1>3, <1>4, <1>5, <1>6, <1>7 DEF Next

\* The inductive invariant holds throughout.
THEOREM SyncInvariant == Spec => []IInv
BY InitIInv, NextIInv, PTL DEF Spec

\* Every variable has its type: retry counts stay within MAX_RETRY_ATTEMPTS even
\* where two runs write the same record.
THEOREM TypeCorrect == Spec => []TypeOK
<1>1. IInv => TypeOK
  BY DEF IInv
<1> QED
  BY <1>1, SyncInvariant, PTL

\* No operation is lost: whatever runs overlap, are stopped or cut off by a
\* reload, a record goes or says completed only after the server has applied it.
THEOREM AlwaysNothingLost == Spec => []NothingLost
<1>1. IInv => NothingLost
  BY DEF IInv
<1> QED
  BY <1>1, SyncInvariant, PTL

-------------------------------------------------------------------------------
(* One run at a time *)

\* A run that starts while nothing is processed is the only one.
LEMMA BeginRunSingle ==
    ASSUME IInv, SingleRun, BeginRun, ~isProcessing
    PROVE  SingleRun'
<1>1. PICK r \in Runs : run' = [run EXCEPT ![r].phase = "reading"]
  BY DEF BeginRun
<1>2. \A s \in Runs : run[s].phase = "off"
  BY DEF SingleRun
<1>3. run \in [Runs -> RunStates] /\ run[r] \in RunStates
  BY DEF IInv, TypeOK
<1>4. \A s \in Runs : run'[s].phase = IF s = r THEN "reading" ELSE "off"
  BY <1>1, <1>2, <1>3 DEF RunStates
<1>5. isProcessing'
  BY DEF BeginRun
<1> QED
  BY <1>4, <1>5 DEF SingleRun

\* The end of the only run leaves none.
LEMMA EndRunSingle ==
    ASSUME IInv, SingleRun, NEW r \in Runs, NEW s, run[r].phase # "off", EndRun(r, s)
    PROVE  SingleRun'
<1>1. \A q \in Runs : run'[q].phase = "off"
  <2>1. run \in [Runs -> RunStates] /\ run' = [run EXCEPT ![r] = Off]
    BY DEF IInv, TypeOK, EndRun
  <2>2. \A q \in Runs : q # r => run[q].phase = "off"
    BY DEF SingleRun
  <2> QED
    BY <2>1, <2>2 DEF Off
<1>2. ~isProcessing'
  BY DEF EndRun
<1> QED
  BY <1>1, <1>2 DEF SingleRun

\* Sending a chunk starts no run.
LEMMA BeginChunkSingle ==
    ASSUME IInv, SingleRun, NEW r \in Runs, run[r].phase # "off",
           NEW plan \in RunStates, plan.phase = "on", BeginChunk(r, plan)
    PROVE  SingleRun'
<1>1. run \in [Runs -> RunStates] /\ isProcessing' = isProcessing
  BY DEF IInv, TypeOK, BeginChunk
<1> DEFINE rest == [plan EXCEPT !.batch = AfterFirst(plan.batch, plan.width)]
<1>2. run' = [run EXCEPT ![r] = rest] /\ rest.phase = "on"
  BY DEF BeginChunk, RunStates
<1> HIDE DEF rest
<1>3. \A q \in Runs : run'[q].phase # "off" <=> run[q].phase # "off"
  BY <1>1, <1>2
<1> QED
  BY <1>1, <1>3 DEF SingleRun

\* Unless somebody forces a start or stops, every step leaves one run at most.
LEMMA NextSingle ==
    ASSUME ~Forcing, ~Stopping, IInv, SingleRun, [Next]_vars
    PROVE  SingleRun'
<1>1. ASSUME UNCHANGED <<run, isProcessing>> PROVE SingleRun'
  BY <1>1 DEF SingleRun
<1>2. ASSUME NEW force \in BOOLEAN, StartSync(force) PROVE SingleRun'
  BY <1>2, BeginRunSingle DEF StartSync, Accepts
<1>3. ASSUME NEW t \in timers, TimerFires(t) PROVE SingleRun'
  BY <1>1, <1>3, BeginRunSingle DEF TimerFires, Accepts
<1>4. CASE ResumeSync
  BY <1>1, <1>4, BeginRunSingle DEF ResumeSync, Accepts
<1>5. CASE PauseSync \/ (\E o \in Ops : QueueOperation(o))
             \/ (\E n \in Networks : NetworkChanges(n))
  BY <1>1, <1>5 DEF PauseSync, QueueOperation, NetworkChanges
<1>6. CASE StopSync
  BY <1>6 DEF StopSync
<1>7. CASE Reload
  BY <1>7 DEF Reload, SingleRun, Off
<1>8. ASSUME NEW r \in Runs, RunStep(r) PROVE SingleRun'
  <2>1. run[r].phase # "off"
    BY <1>8 DEF RunStep, Read, ReadFails, ChunkDone
  <2>2. CASE \E s : EndRun(r, s)
    BY <2>1, <2>2, EndRunSingle
  <2>3. CASE \E plan \in RunStates : plan.phase = "on" /\ BeginChunk(r, plan)
    BY <2>1, <2>3, BeginChunkSingle
  <2> QED
    BY <1>8, <2>2, <2>3, StepKinds
<1>9. ASSUME NEW r \in Runs, NEW o \in Ops, HandlerStep(r, o) PROVE SingleRun'
  BY <1>1, <1>9 DEF HandlerStep, Lands, Answered, Fails, Refused, Conflicts, GetStored,
                    PutStored, RemoveStored, RetryDue, quiet
<1>10. CASE UNCHANGED vars
  BY <1>1, <1>10 DEF vars
<1>11. ASSUME NEW r \in Runs, NEW o \in Ops, StorageFails(r, o) PROVE SingleRun'
  <2>1. \/ UNCHANGED <<run, isProcessing>>
        \/ /\ run[r].phase = "on" /\ run' = [run EXCEPT ![r] = Off]
           /\ isProcessing' = FALSE
    BY <1>11 DEF StorageFails, Recovers, Rejects
  <2>2. run \in [Runs -> RunStates]
    BY DEF IInv, TypeOK
  <2> QED
    BY <1>1, <2>1, <2>2 DEF SingleRun, Off
<1> QED
  BY <1>2, <1>3, <1>4, <1>5, <1>6, <1>7, <1>8, <1>9, <1>10, <1>11 DEF Next

\* As long as nobody forces a start or stops, runs never overlap: pauses, resumes,
\* timers and network changes all pass the guard of startSync.
THEOREM AlwaysSingleRun ==
    ASSUME ~Forcing, ~Stopping
    PROVE  Spec => []SingleRun
<1>1. Init => SingleRun
  BY DEF Init, SingleRun, Off
<1>2. IInv /\ SingleRun /\ [Next]_vars => SingleRun'
  BY NextSingle
<1> QED
  BY <1>1, <1>2, SyncInvariant, PTL DEF Spec

-------------------------------------------------------------------------------
(* The list of a run and the account of its requests *)

\* The operation o may come before p.
Precedes(o, p, warned) == o # p /\ (~warned => p \notin Dependencies[o])

Ordered(s, warned) == \A i, j \in DOMAIN s : i < j => Precedes(s[i].id, s[j].id, warned)

Apart(S, T, warned) == \A x \in S, y \in T : Precedes(x.id, y.id, warned)

\* What a plan has still to send, in an order that keeps dependencies first.
Listed(plan) == ToSet(plan.batch) \cup ToSet(plan.todo)

PlanOrdered(plan) ==
    /\ Ordered(plan.batch, plan.warned) /\ Ordered(plan.todo, plan.warned)
    /\ Apart(ToSet(plan.batch), ToSet(plan.todo), plan.warned)

\* An entry of a list is as its record is, and its operation not under way.
PlanCurrent(plan) ==
    \A x \in Listed(plan) : /\ store[x.id].status = "pending"
                            /\ store[x.id].retryCount = x.retryCount

RunOK(r) ==
    /\ run[r].phase # "on" =>
          Listed(run[r]) = {} /\ \A o \in Ops : handler[r][o].phase = "idle"
    /\ PlanOrdered(run[r]) /\ PlanCurrent(run[r])
    /\ \A o \in Ops : handler[r][o].phase # "idle" =>
          \A x \in Listed(run[r]) : Precedes(o, x.id, run[r].warned)

RunsOK == \A r \in Runs : RunOK(r)

\* A handler h agrees with its record c and the n requests sent, as no other run
\* is at work on them.
Tallies(h, c, n) ==
    /\ h.phase \in {"sent", "landed", "read", "write"} =>
          /\ c.status = "pending" /\ c.retryCount = h.retryCount
          /\ n <= h.retryCount + 1 + reloads
    /\ h.phase = "write" => h.copy = c
    /\ h.phase = "waiting" =>
          /\ c.status = "pending" /\ c.retryCount = h.retryCount + 1
          /\ n <= c.retryCount + reloads
    /\ h.phase = "remove" => c.status = "completed"
    /\ h.phase = "settled" => c.status \in {"absent", "failed"}

Account(h, o) ==
    Tallies(h, store[o], sends[o]) /\ (h.phase # "idle" => o \in queued)

Accounts == \A r \in Runs, o \in Ops : Account(handler[r][o], o)

\* An operation that waits, listed or not, has a request to spare.
Spared ==
    \A o \in Ops : store[o].status = "pending" /\ (\A r \in Runs : handler[r][o].phase = "idle")
        => sends[o] <= store[o].retryCount + reloads

NotQueued == \A o \in Ops \ queued : store[o] = Absent /\ sends[o] = 0

\* The invariant of a run at a time over a storage that does not fail.
OneRun ==
    IInv /\ SingleRun /\ RunsOK /\ Accounts /\ Spared /\ NotQueued /\ AttemptsAccounted

\* Both parts of an ordered list are ordered, and the first precedes the second.
LEMMA Cut ==
    ASSUME NEW S, NEW s \in Seq(S), NEW n \in Nat, NEW w \in BOOLEAN, Ordered(s, w)
    PROVE  /\ Ordered(FirstOf(s, n), w) /\ Ordered(AfterFirst(s, n), w)
           /\ Apart(ToSet(FirstOf(s, n)), ToSet(AfterFirst(s, n)), w)
           /\ ToSet(FirstOf(s, n)) \subseteq ToSet(s)
           /\ ToSet(AfterFirst(s, n)) \subseteq ToSet(s)
<1> DEFINE a == FirstOf(s, n)
           b == AfterFirst(s, n)
           m == IF n < Len(s) THEN n ELSE Len(s)
<1>1. Len(s) \in Nat /\ m \in 0 .. Len(s) /\ m <= n /\ DOMAIN s = 1 .. Len(s)
  OBVIOUS
<1>2. DOMAIN a = 1 .. m /\ \A i \in 1 .. m : a[i] = s[i] /\ i \in DOMAIN s
  BY <1>1 DEF FirstOf
<1>3. \A j \in DOMAIN b : j \in Nat \ {0} /\ n + j \in DOMAIN s /\ b[j] = s[n + j]
  BY <1>1 DEF AfterFirst
<1> HIDE DEF a, b, m
<1>4. Ordered(a, w)
  BY <1>1, <1>2 DEF Ordered
<1>5. Ordered(b, w)
  <2> SUFFICES ASSUME NEW i \in DOMAIN b, NEW j \in DOMAIN b, i < j
               PROVE  Precedes(b[i].id, b[j].id, w)
    BY DEF Ordered
  <2>1. n + i < n + j
    BY <1>3
  <2> QED
    BY <1>3, <2>1 DEF Ordered
<1>6. Apart(ToSet(a), ToSet(b), w)
  <2> SUFFICES ASSUME NEW i \in DOMAIN a, NEW j \in DOMAIN b
               PROVE  Precedes(a[i].id, b[j].id, w)
    BY DEF Apart, ToSet
  <2>1. i < n + j
    BY <1>1, <1>2, <1>3
  <2> QED
    BY <1>2, <1>3, <2>1 DEF Ordered
<1>7. ToSet(a) \subseteq ToSet(s) /\ ToSet(b) \subseteq ToSet(s)
  BY <1>2, <1>3 DEF ToSet
<1> QED
  BY <1>4, <1>5, <1>6, <1>7 DEF a, b

\* The plan BeginBatch makes of a plan lists part of its todo, in order.
LEMMA PlanCut ==
    ASSUME NEW plan \in RunStates, PlanOrdered(plan), NEW w \in 1 .. MaxConcurrent
    PROVE  LET p == [plan EXCEPT !.batch = FirstOf(plan.todo, plan.size),
                                 !.todo = AfterFirst(plan.todo, plan.size),
                                 !.width = w]
           IN  /\ PlanOrdered(p) /\ Listed(p) \subseteq Listed(plan)
               /\ PlanCurrent(plan) => PlanCurrent(p)
<1> DEFINE p == [plan EXCEPT !.batch = FirstOf(plan.todo, plan.size),
                             !.todo = AfterFirst(plan.todo, plan.size),
                             !.width = w]
<1>1. /\ plan.todo \in Entries /\ plan.size \in Nat /\ plan.warned \in BOOLEAN
      /\ p.batch = FirstOf(plan.todo, plan.size) /\ p.warned = plan.warned
      /\ p.todo = AfterFirst(plan.todo, plan.size)
  BY DEF RunStates
<1> HIDE DEF p
<1>2. PlanOrdered(p) /\ Listed(p) \subseteq Listed(plan)
  BY <1>1, Cut DEF Entries, PlanOrdered, Listed
<1>3. PlanCurrent(plan) => PlanCurrent(p)
  BY <1>2 DEF PlanCurrent
<1> QED
  BY <1>2, <1>3 DEF p

\* The order resolveDependencies finds names nothing twice and, if it was never
\* stuck, each operation after what it depends on.
LEMMA OrderFacts ==
    ASSUME NEW order \in resolveDependencies(Pending),
           NEW i \in DOMAIN order, NEW j \in DOMAIN order, i < j
    PROVE  /\ order[i] # order[j]
           /\ ~Stuck(Pending, order) => order[j] \notin Dependencies[order[i]]
<1>1. /\ DOMAIN order = 1 .. Cardinality(Pending) /\ order \in [DOMAIN order -> Pending]
      /\ Cardinality(Pending) \in Nat
  BY SyncAssumption, FS_Subset, FS_CardinalityType DEF resolveDependencies, Pending
<1>2. i \in 1 .. j - 1 /\ j \notin 1 .. i - 1
  BY <1>1
<1>3. \A k \in DOMAIN order : order[k] \in Left(Pending, order, k)
  BY DEF resolveDependencies, Ready
<1>4. order[i] # order[j]
  BY <1>2, <1>3 DEF Left
<1>5. ASSUME ~Stuck(Pending, order) PROVE order[j] \notin Dependencies[order[i]]
  <2>1. order[i] \in Ready(Pending, order, i)
    <3>1. \A k \in 1 .. i : k \in DOMAIN order
      BY <1>1
    <3> QED
      BY <1>5, <3>1 DEF resolveDependencies, Stuck
  <2>2. order[j] \in Left(Pending, order, i)
    <3> SUFFICES ASSUME NEW k \in 1 .. i - 1 PROVE order[k] # order[j]
      BY <1>1 DEF Left
    <3>1. k \in 1 .. j - 1
      BY <1>1
    <3> QED
      BY <1>3, <3>1 DEF Left
  <2> QED
    BY <2>1, <2>2 DEF Ready
<1> QED
  BY <1>4, <1>5

\* So the plan a run begins with is in order and current.
LEMMA PlanStarts ==
    ASSUME TypeOK, NEW order \in resolveDependencies(Pending), NEW size \in BatchSizes
    PROVE  PlanOrdered(Plan(order, size)) /\ PlanCurrent(Plan(order, size))
<1> DEFINE p == Plan(order, size)
           entry(k) == [id |-> order[k], retryCount |-> store[order[k]].retryCount]
<1>1. /\ p.batch = <<>> /\ p.warned = Stuck(Pending, order)
      /\ p.todo = [k \in DOMAIN order |-> entry(k)]
  BY DEF Plan, Off
<1>2. \A k \in DOMAIN order : order[k] \in Pending
  BY DEF resolveDependencies
<1> HIDE DEF p
<1>3. Listed(p) = {entry(k) : k \in DOMAIN order}
  BY <1>1 DEF Listed, ToSet
<1>4. PlanCurrent(p)
  BY <1>2, <1>3 DEF PlanCurrent, Pending
<1>5. Ordered(p.todo, p.warned)
  BY <1>1, OrderFacts DEF Ordered, Precedes
<1>6. Ordered(p.batch, p.warned) /\ Apart(ToSet(p.batch), ToSet(p.todo), p.warned)
  BY <1>1 DEF Ordered, Apart, ToSet
<1> QED
  BY <1>4, <1>5, <1>6 DEF PlanOrdered, p

-------------------------------------------------------------------------------
(* The order of a run, whatever else runs, fails or is reloaded *)

\* A run lists nothing before what it depends on, nor anything that what it has
\* in flight depends on.
InOrder(r) ==
    /\ run[r].phase # "on" => Listed(run[r]) = {}
    /\ PlanOrdered(run[r])
    /\ \A o \in Ops : handler[r][o].phase # "idle" =>
          \A x \in Listed(run[r]) : Precedes(o, x.id, run[r].warned)

AllInOrder == \A r \in Runs : InOrder(r)

\* Nothing is listed or in flight.
LEMMA OffInOrder ==
    ASSUME \A r \in Runs : run[r] = Off /\ \A o \in Ops : handler[r][o] = Idle
    PROVE  AllInOrder
<1>1. Off.phase # "on" /\ Listed(Off) = {} /\ PlanOrdered(Off)
  BY DEF Off, Listed, ToSet, PlanOrdered, Ordered, Apart
<1> QED
  BY <1>1 DEF AllInOrder, InOrder

\* A chunk is sent when all that is left of the last one has settled.
LEMMA ChunkInOrder ==
    ASSUME TypeOK, AllInOrder, NEW r \in Runs, NEW plan \in RunStates,
           plan.phase = "on", PlanOrdered(plan), BeginChunk(r, plan)
    PROVE  AllInOrder'
<1> DEFINE chunk == ToSet(FirstOf(plan.batch, plan.width))
           rest == [plan EXCEPT !.batch = AfterFirst(plan.batch, plan.width)]
           next == [o \in Ops |-> IF \E x \in chunk : x.id = o
                                  THEN Sending((CHOOSE x \in chunk : x.id = o).retryCount)
                                  ELSE Idle]
<1>1. /\ plan.batch \in Entries /\ plan.width \in Nat /\ plan.warned \in BOOLEAN
      /\ rest.phase = "on" /\ rest.warned = plan.warned /\ rest.todo = plan.todo
      /\ rest.batch = AfterFirst(plan.batch, plan.width)
  BY DEF RunStates
<1>2. /\ chunk \subseteq ToSet(plan.batch) /\ ToSet(rest.batch) \subseteq ToSet(plan.batch)
      /\ Ordered(rest.batch, plan.warned)
      /\ Apart(chunk, ToSet(rest.batch), plan.warned)
  BY <1>1, Cut DEF Entries, PlanOrdered
<1>3. \A q \in Runs : /\ run'[q] = IF q = r THEN rest ELSE run[q]
                      /\ handler'[q] = IF q = r THEN next ELSE handler[q]
  BY DEF BeginChunk, TypeOK
<1>4. \A o \in Ops : next[o].phase # "idle" => \E x \in chunk : x.id = o
  BY DEF Idle
<1> HIDE DEF chunk, rest, next
<1>5. PlanOrdered(rest)
  BY <1>1, <1>2 DEF PlanOrdered, Apart
<1>6. Apart(chunk, Listed(rest), plan.warned)
  BY <1>1, <1>2 DEF PlanOrdered, Apart, Listed
<1>7. InOrder(r)'
  BY <1>1, <1>3, <1>4, <1>5, <1>6 DEF InOrder, Apart
<1>8. \A q \in Runs \ {r} : InOrder(q)'
  BY <1>3 DEF AllInOrder, InOrder
<1> QED
  BY <1>7, <1>8 DEF AllInOrder

\* A run reads, fails to read, or goes on after a chunk.
LEMMA RunStepInOrder ==
    ASSUME TypeOK, AllInOrder, NEW r \in Runs, RunStep(r)
    PROVE  AllInOrder'
<1>1. run[r] \in RunStates /\ PlanOrdered(run[r])
  BY DEF TypeOK, AllInOrder, InOrder
<1>2. ASSUME NEW s, EndRun(r, s) PROVE AllInOrder'
  <2>1. \A q \in Runs : /\ run'[q] = IF q = r THEN Off ELSE run[q]
                        /\ q # r => handler'[q] = handler[q]
    BY <1>2 DEF EndRun, TypeOK
  <2>2. Off.phase # "on" /\ Listed(Off) = {} /\ PlanOrdered(Off)
    BY DEF Off, Listed, ToSet, PlanOrdered, Ordered, Apart
  <2> QED
    BY <2>1, <2>2 DEF AllInOrder, InOrder
<1>3. ASSUME NEW plan \in RunStates, plan.phase = "on", PlanOrdered(plan), BeginBatch(r, plan)
      PROVE  AllInOrder'
  <2>1. PICK w \in 1 .. MaxConcurrent :
          BeginChunk(r, [plan EXCEPT !.batch = FirstOf(plan.todo, plan.size),
                                     !.todo = AfterFirst(plan.todo, plan.size),
                                     !.width = w])
    BY <1>3 DEF BeginBatch
  <2> DEFINE p == [plan EXCEPT !.batch = FirstOf(plan.todo, plan.size),
                               !.todo = AfterFirst(plan.todo, plan.size),
                               !.width = w]
  <2>2. p \in RunStates /\ PlanOrdered(p)
    BY <1>3, PlanType, PlanCut
  <2>3. p.phase = "on"
    BY <1>3 DEF RunStates
  <2>4. BeginChunk(r, p)
    BY <2>1
  <2> HIDE DEF p
  <2> QED
    BY <2>2, <2>3, <2>4, ChunkInOrder
<1>4. CASE Read(r)
  <2>1. \A order \in resolveDependencies(Pending), size \in BatchSizes :
           /\ Plan(order, size) \in RunStates /\ PlanOrdered(Plan(order, size))
           /\ Plan(order, size).phase = "on"
    BY PlanFacts, PlanStarts DEF Plan, Off
  <2>2. \/ EndRun(r, status)
        \/ \E order \in resolveDependencies(Pending), size \in BatchSizes :
              BeginBatch(r, Plan(order, size))
    BY <1>4 DEF Read, Plan, Pending
  <2> QED
    BY <1>2, <1>3, <2>1, <2>2
<1>5. CASE ReadFails(r)
  BY <1>2, <1>5 DEF ReadFails
<1>6. CASE ChunkDone(r)
  BY <1>1, <1>2, <1>3, <1>6, ChunkInOrder DEF ChunkDone
<1> QED
  BY <1>4, <1>5, <1>6 DEF RunStep

\* A handler that goes on, settles or fails lists nothing.
LEMMA HandlerInOrder ==
    ASSUME TypeOK, AllInOrder, NEW r \in Runs, NEW o \in Ops, NEW h, handler[r][o].phase # "idle",
           handler' = [handler EXCEPT ![r][o] = h],
           run' = run \/ run' = [run EXCEPT ![r] = Off]
    PROVE  AllInOrder'
<1>1. \A q \in Runs, p \in Ops : handler'[q][p].phase # "idle" => handler[q][p].phase # "idle"
  BY DEF TypeOK
<1>2. Off.phase # "on" /\ Listed(Off) = {} /\ PlanOrdered(Off)
  BY DEF Off, Listed, ToSet, PlanOrdered, Ordered, Apart
<1>3. \A q \in Runs : run'[q] = run[q] \/ run'[q] = Off
  BY DEF TypeOK
<1> QED
  BY <1>1, <1>2, <1>3 DEF AllInOrder, InOrder

LEMMA NextInOrder ==
    ASSUME TypeOK, AllInOrder, [Next]_vars
    PROVE  AllInOrder'
<1>1. ASSUME UNCHANGED <<run, handler>> PROVE AllInOrder'
  BY <1>1 DEF AllInOrder, InOrder
<1>2. ASSUME BeginRun PROVE AllInOrder'
  <2>1. PICK r \in Runs : /\ run[r].phase = "off"
                          /\ run' = [run EXCEPT ![r].phase = "reading"]
    BY <1>2 DEF BeginRun, AtRest
  <2>2. run[r] \in RunStates /\ handler' = handler
    BY <1>2 DEF BeginRun, TypeOK
  <2>3. /\ \A q \in Runs \ {r} : run'[q] = run[q]
        /\ run'[r].phase = "reading" /\ run'[r].batch = run[r].batch
        /\ run'[r].todo = run[r].todo /\ run'[r].warned = run[r].warned
    BY <2>1, <2>2 DEF TypeOK, RunStates
  <2>4. Listed(run'[r]) = {} /\ PlanOrdered(run'[r])
    BY <2>1, <2>3 DEF AllInOrder, InOrder, Listed, PlanOrdered
  <2> QED
    BY <2>2, <2>3, <2>4 DEF AllInOrder, InOrder
<1>3. CASE (\E force \in BOOLEAN : StartSync(force)) \/ (\E t \in timers : TimerFires(t)) \/ ResumeSync
  <2>1. BeginRun \/ UNCHANGED <<run, handler>>
    BY <1>3 DEF StartSync, TimerFires, ResumeSync
  <2> QED
    BY <1>1, <1>2, <2>1
<1>4. CASE \/ PauseSync \/ StopSync \/ (\E n \in Networks : NetworkChanges(n))
           \/ (\E o \in Ops : QueueOperation(o)) \/ UNCHANGED vars
  BY <1>1, <1>4 DEF PauseSync, StopSync, NetworkChanges, QueueOperation, vars
<1>5. CASE Reload
  <2>1. \A r \in Runs : run'[r] = Off /\ \A o \in Ops : handler'[r][o] = Idle
    BY <1>5 DEF Reload
  <2>2. Off.phase # "on" /\ Listed(Off) = {} /\ PlanOrdered(Off)
    BY DEF Off, Listed, ToSet, PlanOrdered, Ordered, Apart
  <2> QED
    BY <2>1, <2>2 DEF AllInOrder, InOrder
<1>6. ASSUME NEW r \in Runs, RunStep(r) PROVE AllInOrder'
  BY <1>6, RunStepInOrder
<1>7. ASSUME NEW r \in Runs, NEW o \in Ops, HandlerStep(r, o) PROVE AllInOrder'
  <2>1. run' = run /\ handler[r][o].phase # "idle"
    BY <1>7 DEF HandlerStep, Lands, Answered, Fails, Refused, Conflicts, GetStored,
                PutStored, RemoveStored, RetryDue, quiet
  <2>2. \E h : handler' = [handler EXCEPT ![r][o] = h]
    BY <1>7 DEF HandlerStep, Lands, Answered, Fails, Refused, Conflicts, Update, GetStored,
                PutStored, RemoveStored, RetryDue
  <2> QED
    BY <2>1, <2>2, HandlerInOrder
<1>8. ASSUME NEW r \in Runs, NEW o \in Ops, StorageFails(r, o) PROVE AllInOrder'
  <2>1. handler[r][o].phase # "idle" /\ (run' = run \/ run' = [run EXCEPT ![r] = Off])
    BY <1>8 DEF StorageFails, Recovers, Rejects
  <2>2. \E h : handler' = [handler EXCEPT ![r][o] = h]
    BY <1>8 DEF StorageFails, Recovers, Rejects
  <2> QED
    BY <2>1, <2>2, HandlerInOrder
<1> QED
  BY <1>3, <1>4, <1>5, <1>6, <1>7, <1>8 DEF Next

\* What an operation depends on is not left for later in a run that did not warn,
\* for any dependencies, batch sizes and concurrency, however many runs overlap
\* and whatever is forced, stopped, reloaded or fails.
THEOREM AlwaysDependenciesNotLater == Spec => []DependenciesNotLater
<1>1. ASSUME Init PROVE AllInOrder
  BY <1>1, OffInOrder DEF Init
<1>2. IInv /\ AllInOrder /\ [Next]_vars => AllInOrder'
  BY NextInOrder DEF IInv
<1>3. AllInOrder => DependenciesNotLater
  BY DEF AllInOrder, InOrder, Listed, Precedes, DependenciesNotLater
<1> QED
  BY <1>1, <1>2, <1>3, SyncInvariant, PTL DEF Spec

-------------------------------------------------------------------------------
(* Steps of the runs and of the handlers, one run at a time *)

\* Beside a run that is under way there is none, and no handler of another.
LEMMA Alone ==
    ASSUME OneRun, NEW r \in Runs, run[r].phase # "off"
    PROVE  \A q \in Runs \ {r} : /\ run[q].phase = "off" /\ Listed(run[q]) = {}
                                 /\ \A o \in Ops : handler[q][o].phase = "idle"
BY DEF OneRun, SingleRun, RunsOK, RunOK

\* And they stay as they should be when a step leaves them alone.
LEMMA OthersOK ==
    ASSUME OneRun, NEW r \in Runs, run[r].phase # "off",
           \A q \in Runs \ {r} : run'[q] = run[q] /\ handler'[q] = handler[q]
    PROVE  \A q \in Runs \ {r} : /\ RunOK(q)'
                                 /\ \A o \in Ops : Account(handler[q][o], o)'
<1> SUFFICES ASSUME NEW q \in Runs \ {r}
             PROVE  RunOK(q)' /\ \A o \in Ops : Account(handler[q][o], o)'
  OBVIOUS
<1>1. /\ run'[q].phase = "off" /\ Listed(run'[q]) = {}
      /\ \A o \in Ops : handler'[q][o].phase = "idle"
      /\ run'[q] = run[q]
  BY Alone
<1>2. PlanOrdered(run'[q])
  BY <1>1 DEF OneRun, RunsOK, RunOK
<1>3. RunOK(q)'
  BY <1>1, <1>2 DEF RunOK, PlanCurrent
<1>4. \A o \in Ops : Account(handler[q][o], o)'
  BY <1>1 DEF Account, Tallies
<1> QED
  BY <1>3, <1>4

\* Sending a chunk when the last one has settled: each operation of the chunk
\* waited, and had a request to spare.
LEMMA BeginChunkOneRun ==
    ASSUME OneRun, NEW r \in Runs, run[r].phase # "off",
           \A o \in Ops : handler[r][o].phase \in {"idle", "settled"},
           NEW plan \in RunStates, plan.phase = "on", PlanOrdered(plan), PlanCurrent(plan),
           BeginChunk(r, plan)
    PROVE  OneRun'
<1> DEFINE chunk == ToSet(FirstOf(plan.batch, plan.width))
           rest == [plan EXCEPT !.batch = AfterFirst(plan.batch, plan.width)]
           next == [o \in Ops |-> IF \E x \in chunk : x.id = o
                                  THEN Sending((CHOOSE x \in chunk : x.id = o).retryCount)
                                  ELSE Idle]
<1>1. /\ run \in [Runs -> RunStates] /\ handler \in [Runs -> [Ops -> Handlers]]
      /\ sends \in [Ops -> 0 .. SendCap] /\ store \in [Ops -> Stored] /\ reloads \in Nat
  BY SyncAssumption DEF OneRun, IInv, TypeOK
<1>2. /\ plan.batch \in Entries /\ plan.width \in Nat /\ plan.warned \in BOOLEAN
      /\ rest.phase = "on" /\ rest.warned = plan.warned /\ rest.todo = plan.todo
      /\ rest.batch = AfterFirst(plan.batch, plan.width)
  BY DEF RunStates
<1>3. /\ chunk \subseteq ToSet(plan.batch) /\ ToSet(rest.batch) \subseteq ToSet(plan.batch)
      /\ Ordered(rest.batch, plan.warned)
      /\ Apart(chunk, ToSet(rest.batch), plan.warned)
  BY <1>2, Cut DEF Entries, PlanOrdered
<1>4. \A x \in chunk : x \in Listed(plan) /\ x.id \in Ops
  BY <1>2, <1>3, Members DEF Listed, Entries
<1>5. /\ run' = [run EXCEPT ![r] = rest] /\ handler' = [handler EXCEPT ![r] = next]
      /\ sends' = Sent({x.id : x \in chunk})
      /\ UNCHANGED <<queued, store, reloads>>
  BY DEF BeginChunk, events
<1> HIDE DEF rest
<1>6. ASSUME NEW o \in Ops
      PROVE  \/ next[o] = Idle /\ o \notin {x.id : x \in chunk}
             \/ \E x \in chunk : x.id = o /\ next[o] = Sending(x.retryCount)
  <2>1. CASE \E x \in chunk : x.id = o
    BY <2>1
  <2>2. CASE ~\E x \in chunk : x.id = o
    BY <2>2
  <2> QED
    BY <2>1, <2>2
<1> HIDE DEF chunk, next
<1>7. \A o \in Ops : /\ sends'[o] \in Nat /\ sends'[o] <= sends[o] + 1
                     /\ o \notin {x.id : x \in chunk} => sends'[o] = sends[o]
  BY <1>1, <1>5, SyncAssumption DEF Sent
<1>8. \A q \in Runs : /\ run'[q] = IF q = r THEN rest ELSE run[q]
                      /\ handler'[q] = IF q = r THEN next ELSE handler[q]
  BY <1>1, <1>5
<1>9. \A o \in Ops : store[o].status = "pending" => sends[o] <= store[o].retryCount + reloads
  BY Alone DEF OneRun, Spared, Accounts, Account, Tallies
<1>10. ASSUME NEW o \in Ops, NEW x \in chunk, x.id = o, next[o] = Sending(x.retryCount)
       PROVE  /\ next[o].phase = "sent" /\ next[o].retryCount = x.retryCount
              /\ store[o].status = "pending" /\ store[o].retryCount = x.retryCount
              /\ o \in queued
  <2>1. next[o].phase = "sent" /\ next[o].retryCount = x.retryCount
    BY <1>10 DEF Sending, Idle
  <2>2. store[o].status = "pending" /\ store[o].retryCount = x.retryCount
    BY <1>4, <1>10 DEF PlanCurrent
  <2> QED
    BY <2>1, <2>2 DEF OneRun, NotQueued, Absent
<1>11. RunsOK'
  <2>1. PlanOrdered(rest)
    BY <1>2, <1>3 DEF PlanOrdered, Apart
  <2>2. Listed(rest) \subseteq Listed(plan)
    BY <1>2, <1>3 DEF Listed
  <2>3. PlanCurrent(rest)'
    BY <1>5, <2>2 DEF PlanCurrent
  <2>4. ASSUME NEW o \in Ops, next[o].phase # "idle"
        PROVE  \A x \in Listed(rest) : Precedes(o, x.id, plan.warned)
    <3>1. PICK x \in chunk : x.id = o
      BY <1>6, <2>4 DEF Idle
    <3>2. Apart(chunk, Listed(rest), plan.warned)
      BY <1>2, <1>3 DEF PlanOrdered, Apart, Listed
    <3> QED
      BY <3>1, <3>2 DEF Apart
  <2>5. RunOK(r)'
    BY <1>2, <1>8, <2>1, <2>3, <2>4 DEF RunOK
  <2> QED
    BY <1>8, <2>5, OthersOK DEF RunsOK
<1>12. Accounts'
  <2>1. ASSUME NEW o \in Ops PROVE Account(handler[r][o], o)'
    <3>1. handler'[r][o] = next[o] /\ store' = store /\ queued' = queued /\ reloads' = reloads
      BY <1>5, <1>8
    <3>2. CASE next[o] = Idle
      BY <3>1, <3>2 DEF Account, Tallies, Idle
    <3>3. CASE \E x \in chunk : x.id = o /\ next[o] = Sending(x.retryCount)
      <4>1. /\ next[o].phase = "sent" /\ next[o].retryCount = store[o].retryCount
            /\ store[o].status = "pending" /\ o \in queued
        BY <1>10, <3>3
      <4>2. sends'[o] <= store[o].retryCount + 1 + reloads
        BY <1>1, <1>7, <1>9, <4>1, SyncAssumption DEF Stored
      <4> QED
        BY <3>1, <4>1, <4>2 DEF Account, Tallies
    <3> QED
      BY <1>6, <3>2, <3>3
  <2> QED
    BY <1>8, <2>1, OthersOK DEF Accounts
<1>13. Spared'
  <2> SUFFICES ASSUME NEW o \in Ops, store[o].status = "pending", next[o].phase = "idle"
               PROVE  sends'[o] <= store[o].retryCount + reloads
    BY <1>5, <1>8 DEF Spared
  <2> QED
    BY <1>6, <1>7, <1>9, <1>10
<1>14. NotQueued'
  <2>1. \A o \in Ops \ queued : o \notin {x.id : x \in chunk}
    BY <1>4 DEF OneRun, NotQueued, PlanCurrent, Absent
  <2> QED
    BY <1>5, <1>7, <2>1 DEF OneRun, NotQueued
<1>15. AttemptsAccounted'
  <2> SUFFICES ASSUME NEW o \in Ops, store[o].status # "absent"
               PROVE  sends'[o] <= store[o].retryCount + 1 + reloads
    BY <1>5 DEF AttemptsAccounted
  <2>1. /\ sends[o] <= store[o].retryCount + 1 + reloads
        /\ store[o].retryCount \in Nat /\ sends[o] \in Nat
    BY <1>1, SyncAssumption DEF OneRun, AttemptsAccounted, Stored
  <2>2. CASE o \notin {x.id : x \in chunk}
    BY <1>7, <2>1, <2>2
  <2>3. CASE o \in {x.id : x \in chunk}
    <3>1. store[o].status = "pending"
      BY <1>4, <2>3 DEF PlanCurrent
    <3> QED
      BY <1>1, <1>7, <1>9, <2>1, <3>1
  <2> QED
    BY <2>2, <2>3
<1>16. IInv' /\ SingleRun'
  BY BeginChunkIInv, BeginChunkSingle DEF OneRun
<1> QED
  BY <1>11, <1>12, <1>13, <1>14, <1>15, <1>16 DEF OneRun

\* The end of a run whose chunk has settled.
LEMMA EndRunOneRun ==
    ASSUME OneRun, NEW r \in Runs, run[r].phase # "off",
           \A o \in Ops : handler[r][o].phase \in {"idle", "settled"},
           NEW s \in SyncStatus, EndRun(r, s)
    PROVE  OneRun'
<1>1. /\ run \in [Runs -> RunStates] /\ handler \in [Runs -> [Ops -> Handlers]]
      /\ run' = [run EXCEPT ![r] = Off]
      /\ handler' = [handler EXCEPT ![r] = [o \in Ops |-> Idle]]
      /\ UNCHANGED <<queued, store, sends, reloads>>
  BY DEF OneRun, IInv, TypeOK, EndRun, history, events
<1>2. \A q \in Runs : /\ run'[q] = IF q = r THEN Off ELSE run[q]
                      /\ handler'[q] = IF q = r THEN [o \in Ops |-> Idle] ELSE handler[q]
  BY <1>1
<1>3. Idle.phase = "idle" /\ Off.phase = "off" /\ Listed(Off) = {} /\ PlanOrdered(Off)
  BY DEF Idle, Off, Listed, ToSet, PlanOrdered, Ordered, Apart
<1>4. RunsOK'
  <2>1. RunOK(r)'
    BY <1>2, <1>3 DEF RunOK, PlanCurrent
  <2> QED
    BY <1>2, <2>1, OthersOK DEF RunsOK
<1>5. Accounts'
  <2>1. \A q \in Runs, o \in Ops : handler'[q][o].phase = "idle"
    BY <1>2, <1>3, Alone
  <2> QED
    BY <2>1 DEF Accounts, Account, Tallies
<1>6. Spared'
  <2>1. \A o \in Ops : store[o].status = "pending" => \A q \in Runs : handler[q][o].phase = "idle"
    BY Alone DEF OneRun, Accounts, Account, Tallies
  <2> QED
    BY <1>1, <2>1 DEF OneRun, Spared
<1>7. NotQueued' /\ AttemptsAccounted'
  BY <1>1 DEF OneRun, NotQueued, AttemptsAccounted
<1>8. IInv' /\ SingleRun'
  BY EndRunIInv, EndRunSingle DEF OneRun
<1> QED
  BY <1>4, <1>5, <1>6, <1>7, <1>8 DEF OneRun

\* A step of a handler that leaves it with a state h, its record with c and its
\* operation with n requests that tally.
LEMMA HandlerOneRun ==
    ASSUME OneRun, NEW r \in Runs, NEW o \in Ops, handler[r][o].phase # "idle",
           NEW h \in Handlers, NEW c \in Stored, NEW n \in Nat,
           h.phase # "idle", Tallies(h, c, n),
           c.status # "absent" => n <= c.retryCount + 1 + reloads,
           handler' = [handler EXCEPT ![r][o] = h],
           store' = [store EXCEPT ![o] = c], sends' = [sends EXCEPT ![o] = n],
           UNCHANGED <<queued, run, isProcessing, reloads>>, IInv'
    PROVE  OneRun'
<1>1. /\ run \in [Runs -> RunStates] /\ handler \in [Runs -> [Ops -> Handlers]]
      /\ store \in [Ops -> Stored] /\ sends \in [Ops -> 0 .. SendCap]
  BY DEF OneRun, IInv, TypeOK
<1>2. /\ \A q \in Runs, p \in Ops :
            handler'[q][p] = IF q = r /\ p = o THEN h ELSE handler[q][p]
      /\ \A q \in Runs \ {r} : handler'[q] = handler[q] /\ run'[q] = run[q]
      /\ \A p \in Ops : /\ store'[p] = IF p = o THEN c ELSE store[p]
                        /\ sends'[p] = IF p = o THEN n ELSE sends[p]
  BY <1>1
<1>3. /\ run[r].phase = "on" /\ run' = run /\ o \in queued
      /\ \A x \in Listed(run[r]) : x.id # o
  BY DEF OneRun, RunsOK, RunOK, Accounts, Account, Precedes
<1>4. run[r].phase # "off"
  BY <1>3
<1>5. RunsOK'
  <2>1. \A x \in Listed(run[r]) : x.id \in Ops
    <3>1. run[r].batch \in Entries /\ run[r].todo \in Entries
      BY <1>1 DEF RunStates
    <3> QED
      BY <3>1, Members DEF Listed, Entries
  <2>2. RunOK(r)'
    <3>1. PlanCurrent(run[r])'
      BY <1>2, <1>3, <2>1 DEF OneRun, RunsOK, RunOK, PlanCurrent
    <3>2. \A p \in Ops : handler'[r][p].phase # "idle" => handler[r][p].phase # "idle"
      BY <1>2
    <3> QED
      BY <1>3, <3>1, <3>2 DEF OneRun, RunsOK, RunOK
  <2> QED
    BY <1>2, <1>4, <2>2, OthersOK DEF RunsOK
<1>6. Accounts'
  <2>1. ASSUME NEW p \in Ops PROVE Account(handler[r][p], p)'
    <3>1. Account(handler[r][p], p)
      BY DEF OneRun, Accounts
    <3> QED
      BY <1>2, <1>3, <3>1 DEF Account, Tallies
  <2> QED
    BY <1>2, <1>4, <2>1, OthersOK DEF Accounts
<1>7. Spared'
  <2> SUFFICES ASSUME NEW p \in Ops, store'[p].status = "pending",
                      \A q \in Runs : handler'[q][p].phase = "idle"
               PROVE  sends'[p] <= store'[p].retryCount + reloads'
    BY DEF Spared
  <2>1. p # o
    BY <1>2
  <2> QED
    BY <1>2, <2>1 DEF OneRun, Spared
<1>8. NotQueued' /\ AttemptsAccounted'
  BY <1>2, <1>3 DEF OneRun, NotQueued, AttemptsAccounted
<1>9. SingleRun'
  BY <1>3 DEF OneRun, SingleRun
<1> QED
  BY <1>5, <1>6, <1>7, <1>8, <1>9 DEF OneRun

\* What OneRun says of a handler, its record and its requests.
LEMMA OneRunFacts ==
    ASSUME OneRun, NEW r \in Runs, NEW o \in Ops
    PROVE  /\ handler[r][o] \in Handlers /\ store[o] \in Stored
           /\ sends[o] \in 0 .. SendCap /\ sends[o] \in Nat /\ reloads \in Nat
           /\ HandlerOK(handler[r][o], o, applied)
           /\ Tallies(handler[r][o], store[o], sends[o])
           /\ store = [store EXCEPT ![o] = store[o]]
           /\ sends = [sends EXCEPT ![o] = sends[o]]
           /\ store[o].status # "absent" => sends[o] <= store[o].retryCount + 1 + reloads
BY SyncAssumption DEF OneRun, IInv, TypeOK, HandlersOK, Accounts, Account, AttemptsAccounted

\* Every step of a handler keeps the account.
LEMMA HandlerStepOneRun ==
    ASSUME OneRun, NEW r \in Runs, NEW o \in Ops, HandlerStep(r, o), IInv'
    PROVE  OneRun'
<1> DEFINE h == handler[r][o]
           c == store[o]
           n == sends[o]
<1>1. /\ h \in Handlers /\ c \in Stored /\ n \in Nat /\ n \in 0 .. SendCap /\ reloads \in Nat
      /\ HandlerOK(h, o, applied) /\ Tallies(h, c, n)
      /\ store = [store EXCEPT ![o] = c] /\ sends = [sends EXCEPT ![o] = n]
      /\ c.status # "absent" => n <= c.retryCount + 1 + reloads
      /\ handler \in [Runs -> [Ops -> Handlers]] /\ store \in [Ops -> Stored]
      /\ sends \in [Ops -> 0 .. SendCap] /\ SendCap \in Nat
  BY OneRunFacts, SyncAssumption DEF OneRun, IInv, TypeOK
<1>2. handler'[r][o] \in Handlers /\ store'[o] \in Stored /\ sends'[o] \in Nat
  BY SyncAssumption DEF IInv, TypeOK
<1>3. UNCHANGED <<queued, run, isProcessing, reloads>>
  BY DEF HandlerStep, Lands, Answered, Fails, Refused, Conflicts, GetStored,
         PutStored, RemoveStored, RetryDue, quiet, events
<1>4. ASSUME NEW g, NEW d, NEW m,
             handler' = [handler EXCEPT ![r][o] = g],
             store' = [store EXCEPT ![o] = d], sends' = [sends EXCEPT ![o] = m],
             h.phase # "idle", g.phase # "idle", Tallies(g, d, m),
             d.status # "absent" => m <= d.retryCount + 1 + reloads
      PROVE  OneRun'
  <2>1. g \in Handlers /\ d \in Stored /\ m \in Nat
    BY <1>1, <1>2, <1>4
  <2> QED
    BY <1>3, <1>4, <2>1, HandlerOneRun
<1>5. CASE Lands(r, o)
  <2> DEFINE g == [h EXCEPT !.phase = "landed"]
  <2>1. g.phase = "landed" /\ g.retryCount = h.retryCount /\ h.phase = "sent"
    BY <1>1, <1>5 DEF Lands, Handlers
  <2>2. handler' = [handler EXCEPT ![r][o] = g] /\ store' = store /\ sends' = sends
    BY <1>5 DEF Lands
  <2> HIDE DEF g
  <2>3. Tallies(g, c, n)
    BY <1>1, <2>1 DEF Tallies
  <2> QED
    BY <1>1, <1>4, <2>1, <2>2, <2>3
<1>6. ASSUME NEW job, Update(r, o, job), h.phase \in {"sent", "landed"},
             store' = store, sends' = sends
      PROVE  OneRun'
  <2> DEFINE g == [h EXCEPT !.phase = "read", !.job = job]
  <2>1. g.phase = "read" /\ g.retryCount = h.retryCount
    BY <1>1 DEF Handlers
  <2>2. handler' = [handler EXCEPT ![r][o] = g]
    BY <1>1, <1>6 DEF Update
  <2> HIDE DEF g
  <2>3. Tallies(g, c, n)
    BY <1>1, <1>6, <2>1 DEF Tallies
  <2> QED
    BY <1>1, <1>4, <1>6, <2>1, <2>2, <2>3
<1>7. CASE GetStored(r, o)
  <2> DEFINE g == [h EXCEPT !.phase = "write", !.copy = c]
  <2>1. h.phase = "read" /\ c.status = "pending"
    BY <1>1, <1>7 DEF GetStored, Tallies
  <2>2. g.phase = "write" /\ g.retryCount = h.retryCount /\ g.copy = c
    BY <1>1 DEF Handlers
  <2>3. handler' = [handler EXCEPT ![r][o] = g] /\ store' = store /\ sends' = sends
    BY <1>7, <2>1 DEF GetStored
  <2> HIDE DEF g
  <2>4. Tallies(g, c, n)
    BY <1>1, <2>1, <2>2 DEF Tallies
  <2> QED
    BY <1>1, <1>4, <2>1, <2>2, <2>3, <2>4
<1>8. CASE PutStored(r, o)
  <2> DEFINE g == AfterUpdate(h)
             d == Updated(h)
  <2>1. /\ h.phase = "write" /\ h.copy = c /\ c.status = "pending"
        /\ c.retryCount = h.retryCount /\ n <= h.retryCount + 1 + reloads
        /\ h.job \in {"completed", "retry", "failed", "resolve"} /\ h.retryCount \in Nat
    BY <1>1, <1>8, SyncAssumption DEF PutStored, Tallies, HandlerOK, Handlers
  <2>2. /\ g.retryCount = h.retryCount
        /\ h.job = "completed" => g.phase = "remove"
        /\ h.job = "retry" => g.phase = "waiting"
        /\ h.job = "resolve" => g.phase = "read"
        /\ h.job = "failed" => g.phase = "settled"
    BY <1>1, <2>1 DEF AfterUpdate, Handlers
  <2>3. /\ h.job = "completed" => d.status = "completed" /\ d.retryCount = c.retryCount
        /\ h.job = "retry" => d.status = "pending" /\ d.retryCount = h.retryCount + 1
        /\ h.job = "resolve" => d.status = "pending" /\ d.retryCount = c.retryCount
        /\ h.job = "failed" => d.status = "failed" /\ d.retryCount = c.retryCount
    BY <1>1, <2>1 DEF Updated, Stored
  <2>4. /\ handler' = [handler EXCEPT ![r][o] = g]
        /\ store' = [store EXCEPT ![o] = d] /\ sends' = sends
    BY <1>8 DEF PutStored
  <2> HIDE DEF g, d
  <2>6. Tallies(g, d, n) /\ g.phase # "idle"
    BY <1>1, <2>1, <2>2, <2>3 DEF Tallies
  <2>7. n <= d.retryCount + 1 + reloads
    BY <1>1, <2>1, <2>3
  <2> QED
    BY <1>1, <1>4, <2>1, <2>4, <2>6, <2>7
<1>9. CASE RemoveStored(r, o)
  <2> DEFINE g == [h EXCEPT !.phase = "settled"]
  <2>1. g.phase = "settled" /\ h.phase = "remove" /\ Absent.status = "absent"
    BY <1>1, <1>9 DEF RemoveStored, Handlers, Absent
  <2>2. /\ handler' = [handler EXCEPT ![r][o] = g]
        /\ store' = [store EXCEPT ![o] = Absent] /\ sends' = sends
    BY <1>9 DEF RemoveStored
  <2> HIDE DEF g
  <2>4. Tallies(g, Absent, n)
    BY <2>1 DEF Tallies
  <2> QED
    BY <1>1, <1>4, <2>1, <2>2, <2>4
<1>10. CASE RetryDue(r, o)
  <2> DEFINE g == Sending(h.retryCount + 1)
  <2>1. g.phase = "sent" /\ g.retryCount = h.retryCount + 1 /\ h.phase = "waiting"
    BY <1>10 DEF RetryDue, Sending, Idle
  <2>2. handler' = [handler EXCEPT ![r][o] = g] /\ store' = store /\ sends' = Sent({o})
    BY <1>10 DEF RetryDue
  <2> HIDE DEF g
  <2> DEFINE m == IF n < SendCap THEN n + 1 ELSE n
  <2>3. sends' = [sends EXCEPT ![o] = m]
    BY <1>1, <2>2 DEF Sent
  <2>4. m \in Nat /\ m <= n + 1
    BY <1>1
  <2> HIDE DEF m
  <2>5. /\ c.status = "pending" /\ c.retryCount = h.retryCount + 1
        /\ n <= c.retryCount + reloads /\ c.retryCount \in Nat
    BY <1>1, <2>1, SyncAssumption DEF Tallies, Stored
  <2>6. m <= c.retryCount + 1 + reloads
    BY <1>1, <2>4, <2>5
  <2>7. Tallies(g, c, m)
    BY <2>1, <2>5, <2>6 DEF Tallies
  <2> QED
    BY <1>1, <1>4, <2>1, <2>2, <2>3, <2>6, <2>7
<1>11. CASE Answered(r, o)
  BY <1>6, <1>11 DEF Answered
<1>12. CASE Fails(r, o)
  BY <1>6, <1>12 DEF Fails
<1>13. CASE Refused(r, o)
  BY <1>6, <1>13 DEF Refused
<1>14. CASE Conflicts(r, o)
  BY <1>6, <1>14 DEF Conflicts
<1> QED
  BY <1>5, <1>7, <1>8, <1>9, <1>10, <1>11, <1>12, <1>13, <1>14 DEF HandlerStep

-------------------------------------------------------------------------------
(* The other steps, one run at a time *)

\* A start takes the name of a run that is at rest.
LEMMA BeginRunOneRun ==
    ASSUME OneRun, BeginRun, UNCHANGED <<queued, store, sends, reloads>>,
           IInv', SingleRun'
    PROVE  OneRun'
<1>1. PICK r \in Runs : /\ run[r].phase = "off"
                        /\ run' = [run EXCEPT ![r].phase = "reading"]
  BY DEF BeginRun, AtRest
<1>2. run \in [Runs -> RunStates] /\ run[r] \in RunStates
  BY DEF OneRun, IInv, TypeOK
<1>3. /\ \A q \in Runs \ {r} : run'[q] = run[q]
      /\ run'[r].phase = "reading" /\ run'[r].batch = run[r].batch
      /\ run'[r].todo = run[r].todo /\ run'[r].warned = run[r].warned
  BY <1>1, <1>2 DEF RunStates
<1>4. UNCHANGED <<queued, store, sends, reloads, handler>>
  BY DEF BeginRun
<1>5. RunsOK'
  <2>1. RunOK(r)'
    <3>1. RunOK(r) /\ Listed(run'[r]) = Listed(run[r])
      BY <1>3 DEF OneRun, RunsOK, Listed
    <3>2. PlanOrdered(run'[r])
      BY <1>3, <3>1 DEF RunOK, PlanOrdered
    <3> QED
      BY <1>1, <1>3, <1>4, <3>1, <3>2 DEF RunOK, PlanCurrent
  <2>2. ASSUME NEW q \in Runs \ {r} PROVE RunOK(q)'
    BY <1>3, <1>4 DEF OneRun, RunsOK, RunOK, PlanCurrent
  <2> QED
    BY <2>1, <2>2 DEF RunsOK
<1>6. Accounts' /\ Spared' /\ NotQueued' /\ AttemptsAccounted'
  BY <1>4 DEF OneRun, Accounts, Account, Tallies, Spared, NotQueued, AttemptsAccounted
<1> QED
  BY <1>5, <1>6 DEF OneRun

\* A step that leaves runs, handlers, records and counts alone.
LEMMA QuietOneRun ==
    ASSUME OneRun, UNCHANGED <<queued, store, run, handler, sends, reloads>>,
           IInv', SingleRun'
    PROVE  OneRun'
<1>1. RunsOK'
  BY DEF OneRun, RunsOK, RunOK, PlanCurrent
<1>2. Accounts' /\ Spared' /\ NotQueued' /\ AttemptsAccounted'
  BY DEF OneRun, Accounts, Account, Tallies, Spared, NotQueued, AttemptsAccounted
<1> QED
  BY <1>1, <1>2 DEF OneRun

\* A newly queued operation has no handler, is in no list, and nothing was sent.
LEMMA QueueOneRun ==
    ASSUME OneRun, NEW o \in Ops, QueueOperation(o), IInv', SingleRun'
    PROVE  OneRun'
<1> DEFINE c == [Absent EXCEPT !.status = "pending"]
<1>1. /\ o \notin queued /\ queued' = queued \cup {o}
      /\ store' = [store EXCEPT ![o] = c]
      /\ UNCHANGED <<run, handler, sends, reloads>>
      /\ store \in [Ops -> Stored] /\ run \in [Runs -> RunStates] /\ reloads \in Nat
  BY SyncAssumption DEF QueueOperation, history, events, OneRun, IInv, TypeOK
<1>2. /\ c.status = "pending" /\ c.retryCount = 0
      /\ store[o].status = "absent" /\ sends[o] = 0
  BY <1>1 DEF Absent, OneRun, NotQueued
<1> HIDE DEF c
<1>3. \A p \in Ops : store'[p] = IF p = o THEN c ELSE store[p]
  BY <1>1
<1>4. \A r \in Runs : handler[r][o].phase = "idle"
  BY <1>1 DEF OneRun, Accounts, Account
<1>5. RunsOK'
  <2> SUFFICES ASSUME NEW r \in Runs PROVE RunOK(r)'
    BY DEF RunsOK
  <2>1. RunOK(r)
    BY DEF OneRun, RunsOK
  <2>2. \A x \in Listed(run[r]) : x.id \in Ops /\ x.id # o
    <3>1. run[r].batch \in Entries /\ run[r].todo \in Entries
      BY <1>1 DEF RunStates
    <3>2. \A x \in Listed(run[r]) : x.id \in Ops
      BY <3>1, Members DEF Listed, Entries
    <3> QED
      BY <1>2, <2>1, <3>2 DEF RunOK, PlanCurrent
  <2>3. PlanCurrent(run[r])'
    BY <1>1, <1>3, <2>1, <2>2 DEF RunOK, PlanCurrent
  <2> QED
    BY <1>1, <2>1, <2>3 DEF RunOK
<1>6. Accounts'
  <2>1. ASSUME NEW r \in Runs, NEW p \in Ops PROVE Account(handler[r][p], p)'
    <3>1. Account(handler[r][p], p)
      BY DEF OneRun, Accounts
    <3>2. CASE p = o
      BY <1>1, <1>4, <3>2 DEF Account, Tallies
    <3>3. CASE p # o
      BY <1>1, <1>3, <3>1, <3>3 DEF Account, Tallies
    <3> QED
      BY <3>2, <3>3
  <2> QED
    BY <2>1 DEF Accounts
<1>7. Spared' /\ AttemptsAccounted'
  BY <1>1, <1>2, <1>3 DEF OneRun, Spared, AttemptsAccounted
<1>8. NotQueued'
  BY <1>1, <1>3 DEF OneRun, NotQueued
<1> QED
  BY <1>5, <1>6, <1>7, <1>8 DEF OneRun

\* A reload gives every operation a request to spare again.
LEMMA ReloadOneRun ==
    ASSUME OneRun, Reload, IInv', SingleRun'
    PROVE  OneRun'
<1>1. /\ \A r \in Runs : run'[r] = Off /\ \A o \in Ops : handler'[r][o] = Idle
      /\ UNCHANGED <<queued, store, sends>> /\ reloads' = reloads + 1
  BY DEF Reload
<1>2. Idle.phase = "idle" /\ Off.phase = "off" /\ Listed(Off) = {} /\ PlanOrdered(Off)
  BY DEF Idle, Off, Listed, ToSet, PlanOrdered, Ordered, Apart
<1>3. \A o \in Ops : sends[o] \in Nat /\ store[o].retryCount \in Nat /\ reloads \in Nat
  BY SyncAssumption DEF OneRun, IInv, TypeOK, Stored
<1>4. RunsOK' /\ Accounts' /\ NotQueued'
  BY <1>1, <1>2 DEF OneRun, RunsOK, RunOK, PlanCurrent, Accounts, Account, Tallies, NotQueued
<1>5. Spared' /\ AttemptsAccounted'
  BY <1>1, <1>3 DEF OneRun, Spared, AttemptsAccounted
<1> QED
  BY <1>4, <1>5 DEF OneRun

\* A run reads, fails to read, or goes on after a chunk.
LEMMA RunStepOneRun ==
    ASSUME OneRun, NEW r \in Runs, RunStep(r)
    PROVE  OneRun'
<1>1. /\ run[r] \in RunStates /\ PlanOrdered(run[r]) /\ PlanCurrent(run[r])
      /\ TypeOK /\ status \in SyncStatus
  BY DEF OneRun, IInv, TypeOK, RunsOK, RunOK
<1>2. /\ run[r].phase # "off"
      /\ \A o \in Ops : handler[r][o].phase \in {"idle", "settled"}
  BY DEF RunStep, Read, ReadFails, ChunkDone, OneRun, RunsOK, RunOK
<1>3. ASSUME NEW s \in SyncStatus, EndRun(r, s) PROVE OneRun'
  BY <1>2, <1>3, EndRunOneRun
<1>4. ASSUME NEW plan \in RunStates, plan.phase = "on", PlanOrdered(plan),
             PlanCurrent(plan), BeginBatch(r, plan)
      PROVE  OneRun'
  <2>1. PICK w \in 1 .. MaxConcurrent :
          BeginChunk(r, [plan EXCEPT !.batch = FirstOf(plan.todo, plan.size),
                                     !.todo = AfterFirst(plan.todo, plan.size),
                                     !.width = w])
    BY <1>4 DEF BeginBatch
  <2> DEFINE p == [plan EXCEPT !.batch = FirstOf(plan.todo, plan.size),
                               !.todo = AfterFirst(plan.todo, plan.size),
                               !.width = w]
  <2>2. p \in RunStates /\ PlanOrdered(p) /\ PlanCurrent(p)
    BY <1>4, PlanType, PlanCut
  <2>3. p.phase = "on"
    BY <1>4 DEF RunStates
  <2>4. BeginChunk(r, p)
    BY <2>1
  <2> HIDE DEF p
  <2> QED
    BY <1>2, <2>2, <2>3, <2>4, BeginChunkOneRun
<1>5. CASE Read(r)
  <2>1. ASSUME NEW order \in resolveDependencies(Pending), NEW size \in BatchSizes
        PROVE  /\ Plan(order, size) \in RunStates /\ Plan(order, size).phase = "on"
               /\ PlanOrdered(Plan(order, size)) /\ PlanCurrent(Plan(order, size))
    <3>1. Plan(order, size).phase = "on"
      BY DEF Plan, Off
    <3> QED
      BY <1>1, <3>1, PlanFacts, PlanStarts
  <2>2. \/ EndRun(r, status)
        \/ \E order \in resolveDependencies(Pending), size \in BatchSizes :
              BeginBatch(r, Plan(order, size))
    BY <1>5 DEF Read, Plan, Pending
  <2> QED
    BY <1>1, <1>3, <1>4, <2>1, <2>2
<1>6. CASE ReadFails(r)
  BY <1>3, <1>6 DEF ReadFails, SyncStatus
<1>7. CASE ChunkDone(r)
  <2>1. CASE BeginChunk(r, run[r]) /\ run[r].phase = "on"
    BY <1>1, <1>2, <2>1, BeginChunkOneRun
  <2>2. CASE BeginBatch(r, run[r]) /\ run[r].phase = "on"
    BY <1>1, <1>4, <2>2
  <2>3. CASE EndRun(r, "paused") \/ EndRun(r, status)
    BY <1>1, <1>3, <2>3 DEF SyncStatus
  <2> QED
    BY <1>7, <2>1, <2>2, <2>3 DEF ChunkDone
<1> QED
  BY <1>5, <1>6, <1>7 DEF RunStep

-------------------------------------------------------------------------------
(* Theorems for one run at a time *)

\* OneRun holds at the start.
LEMMA InitOneRun ==
    ASSUME Init
    PROVE  OneRun
<1>1. /\ \A r \in Runs : run[r] = Off /\ \A o \in Ops : handler[r][o] = Idle
      /\ \A o \in Ops : store[o] = Absent /\ sends[o] = 0
      /\ queued = {} /\ reloads = 0 /\ ~isProcessing
  BY DEF Init
<1>2. /\ Idle.phase = "idle" /\ Off.phase = "off" /\ Listed(Off) = {} /\ PlanOrdered(Off)
      /\ Absent.status = "absent"
  BY DEF Idle, Off, Listed, ToSet, PlanOrdered, Ordered, Apart, Absent
<1>3. RunsOK /\ Accounts /\ Spared /\ NotQueued /\ AttemptsAccounted /\ SingleRun
  BY <1>1, <1>2 DEF RunsOK, RunOK, PlanCurrent, Accounts, Account, Tallies, Spared,
                    NotQueued, AttemptsAccounted, SingleRun
<1> QED
  BY <1>3, InitIInv DEF OneRun

\* And every step keeps it when nobody forces a start or stops and the storage
\* does not fail.
LEMMA NextOneRun ==
    ASSUME ~Forcing, ~Stopping, MaxFailures = 0, OneRun, [Next]_vars
    PROVE  OneRun'
<1>1. IInv' /\ SingleRun'
  BY NextIInv, NextSingle DEF OneRun
<1>2. CASE \/ \E force \in BOOLEAN : StartSync(force)
           \/ \E t \in timers : TimerFires(t)
           \/ ResumeSync
  <2>1. UNCHANGED <<queued, store, sends, reloads>>
    BY <1>2 DEF StartSync, TimerFires, ResumeSync, history, events
  <2>2. BeginRun \/ UNCHANGED <<run, handler>>
    BY <1>2 DEF StartSync, TimerFires, ResumeSync
  <2> QED
    BY <1>1, <2>1, <2>2, BeginRunOneRun, QuietOneRun
<1>3. CASE PauseSync \/ StopSync \/ (\E n \in Networks : NetworkChanges(n)) \/ UNCHANGED vars
  BY <1>1, <1>3, QuietOneRun DEF PauseSync, StopSync, NetworkChanges, vars, history, events
<1>4. CASE Reload
  BY <1>1, <1>4, ReloadOneRun
<1>5. CASE \E o \in Ops : QueueOperation(o)
  BY <1>1, <1>5, QueueOneRun
<1>6. CASE \E r \in Runs : RunStep(r)
  BY <1>6, RunStepOneRun
<1>7. CASE \E r \in Runs, o \in Ops : HandlerStep(r, o)
  BY <1>1, <1>7, HandlerStepOneRun
<1>8. CASE \E r \in Runs, o \in Ops : StorageFails(r, o)
  BY <1>8 DEF StorageFails, OneRun, IInv, TypeOK
<1> QED
  BY <1>2, <1>3, <1>4, <1>5, <1>6, <1>7, <1>8 DEF Next

\* The invariant of a run at a time holds throughout.
THEOREM OneRunInvariant ==
    ASSUME ~Forcing, ~Stopping, MaxFailures = 0
    PROVE  Spec => []OneRun
<1>1. Init => OneRun
  BY InitOneRun
<1>2. OneRun /\ [Next]_vars => OneRun'
  BY NextOneRun
<1> QED
  BY <1>1, <1>2, PTL DEF Spec

\* Every request is accounted for by the retries written down and the reloads,
\* for any operations, retries and reloads.
THEOREM AlwaysAccounted ==
    ASSUME ~Forcing, ~Stopping, MaxFailures = 0
    PROVE  Spec => []AttemptsAccounted
<1>1. OneRun => AttemptsAccounted
  BY DEF OneRun
<1> QED
  BY <1>1, OneRunInvariant, PTL

\* Records, operations queued and operations applied make up the outbox.
LEMMA OutboxStutters ==
    ASSUME UNCHANGED <<queued, applied>>,
           \A o \in Ops : Stage(o)' = Stage(o)
    PROVE  UNCHANGED Outbox!ovars
BY DEF Outbox!ovars

\* Queuing an operation is the outbox's Queue, the server's applying it Apply, and
\* the put of an outcome Acknowledge or GiveUp.
LEMMA StepImplements ==
    ASSUME OneRun, [Next]_vars, MaxFailures = 0
    PROVE  [Outbox!Next]_(Outbox!ovars)
<1>1. /\ store \in [Ops -> Stored] /\ handler \in [Runs -> [Ops -> Handlers]]
      /\ queued \subseteq Ops
  BY DEF OneRun, IInv, TypeOK
<1>2. ASSUME UNCHANGED <<queued, store, applied>>
      PROVE  UNCHANGED Outbox!ovars
  BY <1>2, OutboxStutters DEF Stage
<1>3. CASE \/ \E force \in BOOLEAN : StartSync(force)
           \/ \E t \in timers : TimerFires(t)
           \/ PauseSync \/ ResumeSync \/ StopSync \/ Reload
           \/ \E n \in Networks : NetworkChanges(n)
           \/ UNCHANGED vars
  BY <1>2, <1>3 DEF StartSync, TimerFires, PauseSync, ResumeSync, StopSync, Reload,
                    NetworkChanges, vars
<1>4. ASSUME NEW o \in Ops, QueueOperation(o) PROVE Outbox!Next
  <2>1. /\ o \notin queued /\ queued' = queued \cup {o} /\ applied' = applied
        /\ store' = [store EXCEPT ![o] = [Absent EXCEPT !.status = "pending"]]
    BY <1>4 DEF QueueOperation
  <2>2. \A p \in Ops : Stage(p)' = IF p = o THEN "queued" ELSE Stage(p)
    BY <1>1, <2>1 DEF Stage, Absent
  <2>3. Stage(o) = "none"
    BY <2>1 DEF Stage
  <2>4. Outbox!Queue(o)
    BY <2>1, <2>2, <2>3 DEF Outbox!Queue, Outbox!Move
  <2> QED
    BY <2>4 DEF Outbox!Next
<1>5. ASSUME NEW r \in Runs, RunStep(r) PROVE UNCHANGED Outbox!ovars
  <2>1. UNCHANGED <<queued, store, applied>>
    BY <1>5, StepKinds DEF OneRun, EndRun, BeginChunk
  <2> QED
    BY <1>2, <2>1
<1>6. ASSUME NEW r \in Runs, NEW o \in Ops, HandlerStep(r, o)
      PROVE  [Outbox!Next]_(Outbox!ovars)
  <2> DEFINE h == handler[r][o]
  <2>1. /\ h \in Handlers /\ store[o] \in Stored /\ Tallies(h, store[o], sends[o])
        /\ HandlerOK(h, o, applied) /\ (h.phase # "idle" => o \in queued)
    BY OneRunFacts DEF OneRun, Accounts, Account
  <2>2. CASE Lands(r, o)
    <3>1. /\ h.phase = "sent" /\ applied' = applied \cup {o}
          /\ UNCHANGED <<queued, store>>
      BY <2>2 DEF Lands, quiet
    <3>2. Stage(o) = "queued" /\ \A p \in Ops : Stage(p)' = Stage(p)
      BY <2>1, <3>1 DEF Stage, Tallies
    <3>3. Outbox!Apply({o})
      BY <3>1, <3>2 DEF Outbox!Apply
    <3> QED
      BY <3>3 DEF Outbox!Next
  <2>3. CASE PutStored(r, o)
    <3>1. /\ h.phase = "write" /\ store' = [store EXCEPT ![o] = Updated(h)]
          /\ UNCHANGED <<queued, applied>>
      BY <2>3 DEF PutStored, quiet
    <3>2. /\ h.copy = store[o] /\ store[o].status = "pending" /\ o \in queued
          /\ h.job \in {"completed", "retry", "failed", "resolve"}
          /\ h.job = "completed" => o \in applied
      BY <2>1, <3>1 DEF Tallies, HandlerOK, Handlers
    <3>3. Updated(h).status = CASE h.job = "completed" -> "completed"
                                [] h.job = "failed" -> "failed"
                                [] OTHER -> "pending"
      BY <2>1, <3>2 DEF Updated, Stored
    <3>4. \A p \in Ops : store'[p] = IF p = o THEN Updated(h) ELSE store[p]
      BY <1>1, <3>1
    <3>5. Stage(o) = "queued" /\ \A p \in Ops \ {o} : Stage(p)' = Stage(p)
      BY <3>1, <3>2, <3>4 DEF Stage
    <3>6. CASE h.job = "completed"
      <4>1. Stage(o)' = "done"
        BY <3>1, <3>2, <3>3, <3>4, <3>6 DEF Stage
      <4>2. Outbox!Acknowledge(o)
        BY <3>1, <3>2, <3>5, <3>6, <4>1 DEF Outbox!Acknowledge, Outbox!Move
      <4> QED
        BY <4>2 DEF Outbox!Next
    <3>7. CASE h.job = "failed"
      <4>1. Stage(o)' = "failed"
        BY <3>1, <3>2, <3>3, <3>4, <3>7 DEF Stage
      <4>2. Outbox!GiveUp(o)
        BY <3>1, <3>5, <4>1 DEF Outbox!GiveUp, Outbox!Move
      <4> QED
        BY <4>2 DEF Outbox!Next
    <3>8. CASE h.job \in {"retry", "resolve"}
      <4>1. Stage(o)' = "queued"
        BY <3>1, <3>2, <3>3, <3>4, <3>8 DEF Stage
      <4> QED
        BY <3>1, <3>5, <4>1, OutboxStutters
    <3> QED
      BY <3>2, <3>6, <3>7, <3>8
  <2>4. CASE RemoveStored(r, o)
    <3>1. /\ h.phase = "remove" /\ store' = [store EXCEPT ![o] = Absent]
          /\ UNCHANGED <<queued, applied>>
      BY <2>4 DEF RemoveStored, quiet
    <3>2. store[o].status = "completed"
      BY <2>1, <3>1 DEF Tallies
    <3>3. \A p \in Ops : Stage(p)' = Stage(p)
      BY <1>1, <3>1, <3>2 DEF Stage, Absent
    <3> QED
      BY <3>1, <3>3, OutboxStutters
  <2>5. CASE \/ Answered(r, o) \/ Fails(r, o) \/ Refused(r, o) \/ Conflicts(r, o)
             \/ GetStored(r, o) \/ RetryDue(r, o)
    BY <1>2, <2>5 DEF Answered, Fails, Refused, Conflicts, GetStored, RetryDue, quiet
  <2> QED
    BY <1>6, <2>2, <2>3, <2>4, <2>5 DEF HandlerStep
<1>7. ASSUME NEW r \in Runs, NEW o \in Ops PROVE ~StorageFails(r, o)
  BY DEF StorageFails, OneRun, IInv, TypeOK
<1> QED
  BY <1>3, <1>4, <1>5, <1>6, <1>7 DEF Next

\* The offline queue, a run at a time over a storage that does not fail, keeps the
\* promise of the outbox: both outcomes are final, and done means applied.
THEOREM OutboxRefinement ==
    ASSUME ~Forcing, ~Stopping, MaxFailures = 0
    PROVE  Spec => ImplementsOutbox
<1>1. Init => Outbox!Init
  BY DEF Init, Outbox!Init, Stage
<1>2. OneRun /\ [Next]_vars => [Outbox!Next]_(Outbox!ovars)
  BY StepImplements
<1> QED
  BY <1>1, <1>2, OneRunInvariant, PTL DEF Spec, Outbox!Spec, ImplementsOutbox
===============================================================================

----------------------------- MODULE SyncProcessor -----------------------------
(***************************************************************************)
(* The browser's offline queue: services/offline/syncProcessor.ts over the *)
(* operations kept by services/offline/offlineStorage.ts.  Runs of         *)
(* processSyncQueue, the operations each has in flight, the user's start,  *)
(* pause, resume and stop, timers, the network and page reloads.           *)
(*                                                                         *)
(* Code between two awaits is one action.  An update of a stored operation *)
(* is two transactions of IndexedDB, a get and a put, with other work in   *)
(* between, and either may fail.  Timestamps, which order operations of    *)
(* the same priority, are left open.  A request that is cut off by a       *)
(* timeout or a reload has reached the server by then or never does.       *)
(***************************************************************************)
EXTENDS Naturals, Sequences, FiniteSets, SequencesExt

CONSTANTS
    Ops,            \* operations that may be queued
    Priority,       \* their priorities
    Dependencies,   \* dependencies of each
    Runs,           \* runs of processSyncQueue that may overlap (a bound)
    BatchSizes,     \* what getBatchSize may return
    MaxConcurrent,  \* CONCURRENT_OPERATIONS
    MaxRetries,     \* MAX_RETRY_ATTEMPTS
    MaxReloads,     \* page reloads (a bound)
    MaxFailures,    \* failing updates and removals of the storage (a bound)
    SendCap,        \* requests are counted up to here (a bound)
    Networks,       \* what the network may be like
    Forcing,        \* whether anybody calls startSync(true)
    Stopping        \* whether anybody calls stopSync()

NetworkStates == {"offline", "good", "failing", "weak"}

ASSUME SyncAssumption ==
    /\ IsFiniteSet(Ops)
    /\ Priority \in [Ops -> Nat]
    /\ Dependencies \in [Ops -> SUBSET Ops]
    /\ BatchSizes \subseteq Nat \ {0}
    /\ MaxConcurrent \in Nat \ {0}
    /\ MaxRetries \in Nat /\ MaxReloads \in Nat /\ MaxFailures \in Nat
    /\ SendCap \in Nat
    /\ Networks \subseteq NetworkStates
    /\ Forcing \in BOOLEAN /\ Stopping \in BOOLEAN

VARIABLES
    queued,         \* operations ever added
    store,          \* the sync queue in IndexedDB
    network,        \* what the network monitor says
    isProcessing,
    status,
    timers,         \* pending setTimeouts that call startSync
    run,            \* the loops of processSyncQueue and processBatch
    handler,        \* processOperation of each run for each operation
    applied,        \* operations the server has applied
    sends,          \* history: requests sent per operation
    reloads,        \* history: page reloads
    failures        \* history: failing updates and removals

events == <<reloads, failures>>
history == <<sends, events>>
vars == <<queued, store, network, isProcessing, status, timers, run, handler,
          applied, history>>

-------------------------------------------------------------------------------
(* Values *)

SyncStatus == {"idle", "syncing", "paused", "error"}

Absent == [status |-> "absent", retryCount |-> 0, data |-> "local"]

Stored == [status : {"absent", "pending", "completed", "failed"},
           retryCount : 0 .. MaxRetries, data : {"local", "resolved"}]

\* A handler's job is the update it is writing.
Idle == [phase |-> "idle", job |-> "none", retryCount |-> 0, copy |-> Absent]

Sending(n) == [Idle EXCEPT !.phase = "sent", !.retryCount = n]

Off == [phase |-> "off", todo |-> <<>>, batch |-> <<>>, size |-> 0, width |-> 0,
        warned |-> FALSE]

Sent(S) == [o \in Ops |-> IF o \in S /\ sends[o] < SendCap THEN sends[o] + 1 ELSE sends[o]]

\* shouldSync allows five failures and asks for a score of 20, shouldContinueSync
\* three and 10: "failing" is 4 or 5 failures, "weak" a score of 10 to 19.
shouldSync == network \in {"good", "failing"}

shouldContinueSync == network \in {"good", "weak"}

-------------------------------------------------------------------------------
(* Order and batches *)

\* What of S is left, and ready, when the first i - 1 of s are resolved.
Left(S, s, i) == S \ {s[j] : j \in 1 .. i - 1}

\* Mutant: what an operation depends on is not looked at.
Ready_Any(S, s, i) == Left(S, s, i)

Ready(S, s, i) == {o \in Left(S, s, i) : Dependencies[o] \subseteq S \ Left(S, s, i)}

\* Nothing is ready at some point of s.  A dependency that is not pending any
\* more counts as missing for this, also when it was completed long ago.
Stuck(S, s) == \E j \in DOMAIN s : Ready(S, s, j) = {}

\* The orders of resolveDependencies for the pending operations S: the first of
\* those that are ready or, from the point on where none is, of all that are left.
resolveDependencies(S) ==
    {s \in [1 .. Cardinality(S) -> S] :
        \A i \in DOMAIN s :
            LET choice == IF \E j \in 1 .. i : Ready(S, s, j) = {}
                          THEN Left(S, s, i) ELSE Ready(S, s, i)
            IN  s[i] \in choice /\ \A p \in choice : Priority[p] <= Priority[s[i]]}

FirstOf(s, n) == SubSeq(s, 1, IF n < Len(s) THEN n ELSE Len(s))

AfterFirst(s, n) == SubSeq(s, n + 1, Len(s))

\* processBatch sends the next operations of the plan's batch at once.
BeginChunk(r, plan) ==
    LET chunk == ToSet(FirstOf(plan.batch, plan.width))
    IN  /\ run' = [run EXCEPT ![r] = [plan EXCEPT !.batch = AfterFirst(@, plan.width)]]
        /\ handler' = [handler EXCEPT ![r] =
                         [o \in Ops |-> IF \E x \in chunk : x.id = o
                                        THEN Sending((CHOOSE x \in chunk : x.id = o).retryCount)
                                        ELSE Idle]]
        /\ sends' = Sent({x.id : x \in chunk})
        /\ UNCHANGED <<queued, store, network, isProcessing, status, timers, applied,
                       events>>

\* The next batch of the plan.
BeginBatch(r, plan) ==
    \E w \in 1 .. MaxConcurrent :
        BeginChunk(r, [plan EXCEPT !.batch = FirstOf(plan.todo, plan.size),
                                   !.todo = AfterFirst(plan.todo, plan.size),
                                   !.width = w])

\* The finally clause of startSync, with the status s the run leaves.
EndRun(r, s) ==
    /\ run' = [run EXCEPT ![r] = Off]
    /\ handler' = [handler EXCEPT ![r] = [o \in Ops |-> Idle]]
    /\ isProcessing' = FALSE
    /\ status' = IF s = "syncing" THEN "idle" ELSE s
    /\ UNCHANGED <<queued, store, network, timers, applied, history>>

-------------------------------------------------------------------------------
(* Starting, pausing, resuming, stopping *)

Init ==
    /\ queued = {} /\ applied = {}
    /\ store = [o \in Ops |-> Absent]
    /\ network \in Networks
    /\ isProcessing = FALSE /\ status = "idle" /\ timers = {}
    /\ run = [r \in Runs |-> Off]
    /\ handler = [r \in Runs |-> [o \in Ops |-> Idle]]
    /\ sends = [o \in Ops |-> 0]
    /\ reloads = 0 /\ failures = 0

Accepts(force) == force \/ (~isProcessing /\ shouldSync)

\* Nothing is left of the last run of this name.
AtRest(r) ==
    run[r].phase = "off" /\ \A o \in Ops : handler[r][o].phase \in {"idle", "settled"}

\* startSync up to the read of the pending operations.
BeginRun ==
    /\ \E r \in Runs : /\ AtRest(r)
                       /\ run' = [run EXCEPT ![r].phase = "reading"]
    /\ isProcessing' = TRUE
    /\ status' = "syncing"
    /\ UNCHANGED handler

StartSync(force) ==
    /\ force => Forcing
    /\ Accepts(force)
    /\ BeginRun
    /\ UNCHANGED <<queued, store, network, timers, applied, history>>

\* The timers' startSync(), which may be refused.
TimerFires(t) ==
    /\ t \in timers
    /\ timers' = timers \ {t}
    /\ IF Accepts(FALSE) THEN BeginRun
                         ELSE UNCHANGED <<isProcessing, status, run, handler>>
    /\ UNCHANGED <<queued, store, network, applied, history>>

\* Mutant: a pause says that nothing is being processed.
PauseSync_Clears ==
    /\ isProcessing
    /\ isProcessing' = FALSE
    /\ status' = "paused"
    /\ UNCHANGED <<queued, store, network, timers, run, handler, applied, history>>

PauseSync ==
    /\ isProcessing
    /\ status' = "paused"
    /\ UNCHANGED <<queued, store, network, isProcessing, timers, run, handler,
                   applied, history>>

ResumeSync ==
    /\ status = "paused"
    /\ IF Accepts(FALSE) THEN BeginRun
                         ELSE UNCHANGED <<isProcessing, status, run, handler>>
    /\ UNCHANGED <<queued, store, network, timers, applied, history>>

StopSync ==
    /\ Stopping
    /\ isProcessing' = FALSE
    /\ status' = "idle"
    /\ UNCHANGED <<queued, store, network, timers, run, handler, applied, history>>

\* addSyncOperation, and the timer when nothing is running.  The ids of its
\* dependencies are known only once they are queued.
QueueOperation(o) ==
    /\ o \notin queued /\ Dependencies[o] \subseteq queued
    /\ queued' = queued \cup {o}
    /\ store' = [store EXCEPT ![o] = [Absent EXCEPT !.status = "pending"]]
    /\ timers' = timers \cup (IF ~isProcessing /\ shouldSync THEN {"queue"} ELSE {})
    /\ UNCHANGED <<network, isProcessing, status, run, handler, applied, history>>

\* The monitor sees the network change; coming online sets a timer.
NetworkChanges(n) ==
    /\ n # network
    /\ network' = n
    /\ timers' = timers \cup (IF network = "offline" /\ ~isProcessing THEN {"online"} ELSE {})
    /\ UNCHANGED <<queued, store, isProcessing, status, run, handler, applied, history>>

-------------------------------------------------------------------------------
(* processSyncQueue and processBatch *)

\* Mutant: the failed operations are read as well.
Read_AlsoFailed(r) ==
    /\ run[r].phase = "reading"
    /\ LET pending == {o \in Ops : store[o].status \in {"pending", "failed"}}
           entry(o) == [id |-> o, retryCount |-> store[o].retryCount]
       IN  \/ /\ pending = {} \/ status # "syncing"
              /\ EndRun(r, status)
           \/ /\ pending # {} /\ status = "syncing"
              /\ \E order \in resolveDependencies(pending), size \in BatchSizes :
                    BeginBatch(r, [Off EXCEPT !.phase = "on", !.size = size,
                                     !.todo = [i \in DOMAIN order |-> entry(order[i])],
                                     !.warned = Stuck(pending, order)])

Read(r) ==
    /\ run[r].phase = "reading"
    /\ LET pending == {o \in Ops : store[o].status = "pending"}
           entry(o) == [id |-> o, retryCount |-> store[o].retryCount]
       IN  \/ /\ pending = {} \/ status # "syncing"
              /\ EndRun(r, status)
           \/ /\ pending # {} /\ status = "syncing"
              /\ \E order \in resolveDependencies(pending), size \in BatchSizes :
                    BeginBatch(r, [Off EXCEPT !.phase = "on", !.size = size,
                                     !.todo = [i \in DOMAIN order |-> entry(order[i])],
                                     !.warned = Stuck(pending, order)])

ReadFails(r) ==
    /\ run[r].phase = "reading"
    /\ EndRun(r, "error")

\* Promise.all of a chunk resolves: the next chunk, the next batch or the end.
ChunkDone(r) ==
    /\ run[r].phase = "on"
    /\ \A o \in Ops : handler[r][o].phase \in {"idle", "settled"}
    /\ \/ /\ run[r].batch # <<>> /\ status = "syncing"
          /\ BeginChunk(r, run[r])
       \/ /\ run[r].batch = <<>> \/ status # "syncing"
          /\ \/ /\ ~shouldContinueSync
                /\ EndRun(r, "paused")
             \/ /\ shouldContinueSync
                /\ run[r].todo = <<>> \/ status # "syncing"
                /\ EndRun(r, status)
             \/ /\ shouldContinueSync
                /\ run[r].todo # <<>> /\ status = "syncing"
                /\ BeginBatch(r, run[r])

-------------------------------------------------------------------------------
(* processOperation *)

quiet == <<queued, network, isProcessing, status, timers, run, events>>

Lands(r, o) ==
    /\ handler[r][o].phase = "sent"
    /\ handler' = [handler EXCEPT ![r][o].phase = "landed"]
    /\ applied' = applied \cup {o}
    /\ UNCHANGED <<quiet, store, sends>>

\* The handler goes on to the update "job" of its stored operation.
Update(r, o, job) ==
    handler' = [handler EXCEPT ![r][o].phase = "read", ![r][o].job = job]

Answered(r, o) ==
    /\ handler[r][o].phase = "landed"
    /\ Update(r, o, "completed")
    /\ UNCHANGED <<quiet, store, sends, applied>>

\* Mutant: the retry is not written down.
Fails_Unrecorded(r, o) ==
    /\ handler[r][o].phase \in {"sent", "landed"}
    /\ IF handler[r][o].retryCount < MaxRetries
       THEN handler' = [handler EXCEPT ![r][o].phase = "waiting"]
       ELSE Update(r, o, "failed")
    /\ UNCHANGED <<quiet, store, sends, applied>>

\* Lost, timed out, cut off or a server error: the retriable failures.
Fails(r, o) ==
    /\ handler[r][o].phase \in {"sent", "landed"}
    /\ Update(r, o, IF handler[r][o].retryCount < MaxRetries THEN "retry" ELSE "failed")
    /\ UNCHANGED <<quiet, store, sends, applied>>

Refused(r, o) ==
    /\ handler[r][o].phase = "sent"
    /\ Update(r, o, "failed")
    /\ UNCHANGED <<quiet, store, sends, applied>>

\* A 409, and the resolution of the handler that store/sync registers.
Conflicts(r, o) ==
    /\ handler[r][o].phase = "sent"
    /\ Update(r, o, "resolve")
    /\ UNCHANGED <<quiet, store, sends, applied>>

\* Mutant: failed operations are cleared away.
AfterUpdate_RemovesFailed(h) ==
    [h EXCEPT !.copy = Absent,
              !.phase = CASE h.job \in {"completed", "failed"} -> "remove"
                          [] h.job = "retry" -> "waiting"
                          [] h.job = "resolve" -> "read",
              !.job = IF h.job = "resolve" THEN "failed" ELSE "none"]

\* What follows the update: removal, the retry's wait, or the result.
AfterUpdate(h) ==
    [h EXCEPT !.copy = Absent,
              !.phase = CASE h.job = "completed" -> "remove"
                          [] h.job = "retry" -> "waiting"
                          [] h.job = "resolve" -> "read"
                          [] h.job = "failed" -> "settled",
              !.job = IF h.job = "resolve" THEN "failed" ELSE "none"]

\* The get of updateSyncOperation; nothing is written if it finds nothing.
GetStored(r, o) ==
    /\ handler[r][o].phase = "read"
    /\ handler' = [handler EXCEPT ![r][o] =
                     IF store[o].status = "absent" THEN AfterUpdate(@)
                     ELSE [@ EXCEPT !.phase = "write", !.copy = store[o]]]
    /\ UNCHANGED <<quiet, store, sends, applied>>

Updated(h) ==
    CASE h.job = "completed" -> [h.copy EXCEPT !.status = "completed"]
      [] h.job = "failed" -> [h.copy EXCEPT !.status = "failed"]
      [] h.job = "resolve" -> [h.copy EXCEPT !.data = "resolved"]
      [] h.job = "retry" -> [h.copy EXCEPT !.status = "pending",
                                           !.retryCount = h.retryCount + 1]

PutStored(r, o) ==
    /\ handler[r][o].phase = "write"
    /\ store' = [store EXCEPT ![o] = Updated(handler[r][o])]
    /\ handler' = [handler EXCEPT ![r][o] = AfterUpdate(@)]
    /\ UNCHANGED <<quiet, sends, applied>>

RemoveStored(r, o) ==
    /\ handler[r][o].phase = "remove"
    /\ store' = [store EXCEPT ![o] = Absent]
    /\ handler' = [handler EXCEPT ![r][o].phase = "settled"]
    /\ UNCHANGED <<quiet, sends, applied>>

\* Mutant: the retry is given the operation as it was.
RetryDue_SameCount(r, o) ==
    /\ handler[r][o].phase = "waiting"
    /\ handler' = [handler EXCEPT ![r][o] = Sending(@.retryCount)]
    /\ sends' = Sent({o})
    /\ UNCHANGED <<quiet, store, applied>>

RetryDue(r, o) ==
    /\ handler[r][o].phase = "waiting"
    /\ handler' = [handler EXCEPT ![r][o] = Sending(@.retryCount + 1)]
    /\ sends' = Sent({o})
    /\ UNCHANGED <<quiet, store, applied>>

\* The page is reloaded: the storage is all that is left.
Reload ==
    /\ reloads < MaxReloads
    /\ reloads' = reloads + 1
    /\ isProcessing' = FALSE /\ status' = "idle" /\ timers' = {}
    /\ run' = [r \in Runs |-> Off]
    /\ handler' = [r \in Runs |-> [o \in Ops |-> Idle]]
    /\ UNCHANGED <<queued, store, network, applied, sends, failures>>

\* The error is caught and answered with the update "job".
Recovers(r, o, job) ==
    /\ handler' = [handler EXCEPT ![r][o] =
                     [@ EXCEPT !.phase = "read", !.job = job, !.copy = Absent]]
    /\ UNCHANGED <<run, isProcessing, status>>

\* The error leaves processOperation and ends the run, unless one has before.
Rejects(r, o) ==
    /\ handler' = [handler EXCEPT ![r][o] = [Idle EXCEPT !.phase = "settled"]]
    /\ IF run[r].phase = "on"
       THEN /\ run' = [run EXCEPT ![r] = Off]
            /\ isProcessing' = FALSE
            /\ status' = "error"
       ELSE UNCHANGED <<run, isProcessing, status>>

\* A transaction fails.  On the way to "completed" the error is taken for one of
\* the request, and its message decides on a retry; handleConflict swallows it;
\* while the failure itself is written it rejects Promise.all, which ends the run
\* but not what else the run has in flight.
StorageFails(r, o) ==
    /\ failures < MaxFailures
    /\ failures' = failures + 1
    /\ handler[r][o].phase \in {"read", "write", "remove"}
    /\ LET finishing == handler[r][o].phase = "remove" \/ handler[r][o].job = "completed"
       IN  \/ finishing /\ handler[r][o].retryCount < MaxRetries /\ Recovers(r, o, "retry")
           \/ finishing /\ Recovers(r, o, "failed")
           \/ handler[r][o].job = "resolve" /\ Recovers(r, o, "failed")
           \/ handler[r][o].job \in {"retry", "failed"} /\ Rejects(r, o)
    /\ UNCHANGED <<queued, store, network, timers, applied, sends, reloads>>

-------------------------------------------------------------------------------
HandlerStep(r, o) ==
    \/ Lands(r, o) \/ Answered(r, o) \/ Fails(r, o) \/ Refused(r, o) \/ Conflicts(r, o)
    \/ GetStored(r, o) \/ PutStored(r, o) \/ RemoveStored(r, o) \/ RetryDue(r, o)

RunStep(r) == Read(r) \/ ReadFails(r) \/ ChunkDone(r)

Next ==
    \/ \E force \in BOOLEAN : StartSync(force)
    \/ \E t \in timers : TimerFires(t)
    \/ PauseSync \/ ResumeSync \/ StopSync \/ Reload
    \/ \E o \in Ops : QueueOperation(o)
    \/ \E n \in Networks : NetworkChanges(n)
    \/ \E r \in Runs : RunStep(r) \/ \E o \in Ops : HandlerStep(r, o) \/ StorageFails(r, o)

Spec == Init /\ [][Next]_vars

\* The storage answers, a fetch is answered or times out, timers fire.
Fairness ==
    /\ \A r \in Runs : WF_vars(RunStep(r)) /\ \A o \in Ops : WF_vars(HandlerStep(r, o))
    /\ WF_vars(\E t \in timers : TimerFires(t))

FairSpec == Spec /\ Fairness

-------------------------------------------------------------------------------
(* Properties *)

Entries == Seq([id : Ops, retryCount : 0 .. MaxRetries])

RunStates == [phase : {"off", "reading", "on"}, todo : Entries, batch : Entries,
              size : Nat, width : Nat, warned : BOOLEAN]

Handlers == [phase : {"idle", "sent", "landed", "read", "write", "remove", "waiting", "settled"},
             job : {"none", "completed", "retry", "failed", "resolve"},
             retryCount : 0 .. MaxRetries, copy : Stored]

\* The values of the variables; a retry is due only below MAX_RETRY_ATTEMPTS.
TypeOK ==
    /\ queued \subseteq Ops /\ applied \subseteq Ops
    /\ store \in [Ops -> Stored]
    /\ network \in Networks
    /\ isProcessing \in BOOLEAN
    /\ status \in SyncStatus
    /\ timers \subseteq {"queue", "online"}
    /\ run \in [Runs -> RunStates]
    /\ handler \in [Runs -> [Ops -> Handlers]]
    /\ sends \in [Ops -> 0 .. SendCap]
    /\ reloads \in 0 .. MaxReloads /\ failures \in 0 .. MaxFailures

\* A handler has a job exactly while it updates the storage, retries only below
\* MAX_RETRY_ATTEMPTS, and works towards "completed" only on what was applied.
HandlerOK(h, o, landed) ==
    /\ h.phase \in {"read", "write"} <=> h.job # "none"
    /\ h.job = "retry" \/ h.phase = "waiting" => h.retryCount < MaxRetries
    /\ h.job = "completed" \/ h.phase \in {"landed", "remove"} => o \in landed
    /\ h.phase = "write" => /\ h.copy.status # "absent"
                            /\ h.copy.status = "completed" => o \in landed

HandlersOK ==
    \A r \in Runs, o \in Ops : HandlerOK(handler[r][o], o, applied)

\* No record says "completed" of an operation that was not applied.
CompletedApplied ==
    \A o \in Ops : store[o].status = "completed" => o \in applied

\* One run at a time, and isProcessing says whether there is one, as long as
\* nobody forces a start or stops: pausing and resuming while requests, storage
\* and timers are awaited never lets a second run send what the first has.  (What
\* is in flight when a storage failure has ended its run is of no run.)
SingleRun ==
    /\ \A r, s \in Runs : run[r].phase # "off" /\ run[s].phase # "off" => r = s
    /\ isProcessing <=> \E r \in Runs : run[r].phase # "off"

\* An operation leaves the stored queue, or is marked completed, only when the
\* server has applied it: forced starts, stops and reloads lose nothing.
NothingLost ==
    \A o \in queued : store[o].status \in {"absent", "completed"} => o \in applied

\* Every request is accounted for: an operation was sent at most once more than
\* the retries written to its record, plus once for each reload that came
\* between a request and the record of its failure.
AttemptsAccounted ==
    \A o \in Ops : store[o].status # "absent" =>
        sends[o] <= store[o].retryCount + 1 + reloads

\* Unless the run has warned of circular dependencies, what an operation depends
\* on is never left for later: when a request for it is under way, its
\* dependencies are in the same chunk, settled before it, or not of this run.  (In
\* the same chunk they are sent at once, and a dependent goes on when its
\* dependency has failed.)
DependenciesNotLater ==
    \A r \in Runs, o \in Ops : handler[r][o].phase # "idle" /\ ~run[r].warned =>
        \A x \in ToSet(run[r].batch) \cup ToSet(run[r].todo) : x.id \notin Dependencies[o]

\* To its author an operation is done when its record is gone or completed.
Stage(o) ==
    IF o \notin queued THEN "none"
    ELSE CASE store[o].status = "pending" -> "queued"
           [] store[o].status = "failed" -> "failed"
           [] OTHER -> "done"

Outbox == INSTANCE OfflineOutbox WITH stage <- [o \in Ops |-> Stage(o)]

\* A run at a time keeps the promise of the outbox: an operation is done only
\* when applied, and done or failed it stays so, never to be sent again.
ImplementsOutbox == Outbox!Spec

\* Every run of processSyncQueue ends, and so does everything it left in flight,
\* whatever the server and the storage answer and however often the user pauses
\* or stops: retries run out, also when runs overlap.
RunsEnd ==
    \A r \in Runs : ~AtRest(r) ~> AtRest(r)
===============================================================================

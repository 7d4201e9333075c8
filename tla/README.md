# Verification of the student attendance system

TLA+ models of the concurrent core of the repository, TLC runs over small
instances of them, and TLAPS proofs for every size.  The system is a FastAPI
backend (`backend/app`) that records attendance and talks to student information
systems (SIS), and a React front end (`frontend/src`) that goes on working
without a network.  (The `README.md` at the root of the repository describes a
different tool and nothing of this.)

Contents: [inventory](#1-the-system), [modules](#2-modules),
[runs](#3-runs-bounds-and-fairness), [proofs](#4-proofs),
[where the code and its comments part](#5-where-the-code-and-its-comments-part),
[what is left out](#6-not-modelled), [what remains](#7-what-remains).

## 1. The system

### Parts, their state, and how they interact

| Part | State | Operations | Talks to |
|---|---|---|---|
| **Circuit breaker** `core/circuit_breaker.py` | state, two counters, the time of the next attempt, metrics, an asyncio lock held *during* the protected call | `call`, `force_open`, `force_closed`, `reset_metrics` | called by the gateway service |
| **Gateway service** `services/api_gateway.py` | providers' endpoints, one breaker each, metrics | `make_request`: rate limit, selection, retry loop | breakers, rate limiter, HTTP |
| **Request queue** `gateway/request_queue.py` | heap, provider queues, table `_active_requests`, futures; tasks: workers, retries, sweep | `enqueue`, `enqueue_and_wait`, `cancel_request`, `start`, `stop` | coordinator; callbacks of callers |
| **Rate limiter** `middleware/rate_limiting.py` | token bucket, deque of waiting requests with futures, processor task | `acquire`, `start`, `stop` | called by the gateway service |
| **Offline sync processor** `services/offline/syncProcessor.ts`, `offlineStorage.ts` | the sync queue in IndexedDB; `isProcessing`, `status`, timers | `startSync`, `pauseSync`, `resumeSync`, `stopSync`, `queueOperation` | network monitor, server, conflict handler |
| **WebSocket pool** `core/websocket.py` and the v2 endpoint in `main.py` | entries by connection id, indexes by class and by user | connect, authenticate, reply, broadcast, clean-up, shutdown | realtime clients |
| **Realtime client** `services/websocket.ts` | one WebSocket, its state, reconnection timers, heartbeat | connect, disconnect, reconnect, ping | WebSocket pool |
| **Attendance records** `services/attendance_engine.py`, `api/v1/attendance_backup.py` | rows of a class session, each with an audit trail | check-in, teacher override, bulk update, checkout | database |
| **Notification batching** `services/notifications/batching_service.py`, `notification_manager.py` | notifications, batches with a count, preferences | send or batch, process batches, force a send, expire | database, push services |
| **Data retention** `compliance/retention_engine.py` | purge schedules, policies, the process-wide job list, a daemon thread | schedule, warn, purge, exempt, start and stop | database, compliance audit log |
| Throttler, router, coordinator, monitoring, API keys (`gateway/`) | rolling windows; endpoint health and connection counts; gateway status | see source | coordinator → queue → router → gateway service → rate limiter and breaker |
| Server sync, SIS integration | sync operations, schedules, OAuth tokens | schedule, run, resolve conflicts, rotate tokens | SIS providers |
| Delivery of notifications, email, SMS | delivery rows, provider lists | send, track | providers |
| Consent, access, security monitoring, analytics | rows stored and reported one at a time | report | database |

The backend runs on one asyncio event loop: between two awaits nothing
interleaves.  The browser is the same with promises.  Hence in these models **the
code between two suspension points is one action**, and the interleaving is
between suspended coroutines, timers, external answers and cancellations.  The
parts over the database interleave by **session**: what is read is as old as
the read, what is written appears at the commit.

### What is hard about it

* *Breaker.*  The lock is held for the whole call, so forced transitions queue up
  behind it; `CancelledError` passes by every handler; `reset_metrics` takes no
  lock.  It must open, probe and close on exactly the configured runs of failures
  and successes, whatever order these happen in.
* *Gateway.*  The breaker's state is read without the lock when an endpoint is
  selected, and used much later.  Every exception is retried, although the
  provider may have acted.
* *Queue.*  A request is at any time with a worker, a sleeping retry task, the
  sweep or in the queue, and may be cancelled, time out or be expired in each.
  No request may be lost, be in two hands, be sent for nobody, or be settled twice.
* *Rate limiter.*  The bucket is filled only when it is asked; the processor, the
  timeouts and the cancellations of the callers and `stop` all settle the same
  futures.  No token may be given twice, and no caller be forgotten.
* *Offline processor.*  Requests, two-transaction storage updates and retry
  sleeps are under way while the user pauses, resumes, stops or forces a start, the
  network changes, or the page is reloaded.  No operation may vanish that the
  server has not applied.
* *WebSockets.*  Both ends learn of the end of a socket on their own.  The client
  uses its id again for the next socket, and the end of the old one arrives
  later; events are not checked for the socket they are of.
* *Attendance records.*  Two requests that look for a row and find none both create
  it, and a status is compared with what was read earlier.  The trail must still
  tell the truth.
* *Batching and retention.*  Passes work from lists they read earlier, one commit at
  a time, while the user or another session changes the rows.  Nothing may be
  dropped, sent twice or deleted in spite of an exemption.

The complete list, line by line with the properties that cover each item, is
`hazards` in `PROJECT.json`.

## 2. Modules

| Module | Models |
|---|---|
| `BreakerOps` | the breaker's state record and its transitions as functions of it, shared by the next two users |
| `BreakerSpec` | **abstract**: a breaker without lock, timer or second counter |
| `CircuitBreaker` | one breaker, its lock, its callers, its metrics |
| `ApiGateway` | `make_request` for one provider: concurrent clients over several endpoints, each with the breaker of `BreakerOps` and its lock |
| `RequestLifecycle` | **abstract**: what the queue promises of a request |
| `RequestQueue` | the request queue with all its tasks |
| `EagerBucket` | **abstract**: a token bucket that fills with every tick |
| `RateLimiter` | bucket, waiting requests, processor, callers |
| `OfflineOutbox` | **abstract**: what the offline queue promises of an operation |
| `SyncProcessor` | the offline sync processor over its storage |
| `ConnectionPool` | the WebSocket server with any sockets, ids, classes and users |
| `RealtimeClient` | the WebSocket client of a page |
| `Realtime` | **composition** of the two: a page, its sockets in succession, the network between them, and `ConnectionPool` by `INSTANCE` |
| `AttendanceRecords` | overlapping requests on the rows of one class session |
| `NotificationBatching` | the batches of one user |
| `Retention` | purge schedules, engines with a session each, their daemons |
| `LineLemmas` | lemmas about lines of tasks (appending, taking the head, removing), used by the proofs of breaker, gateway, queue and limiter |
| `CircuitBreakerProofs`, `ApiGatewayProofs`, `RequestQueueProofs`, `RateLimiterProofs`, `SyncProcessorProofs`, `RealtimeProofs` | theorems about the module they extend |
| `BackendProofs` | theorems about `ConnectionPool`, `AttendanceRecords`, `Retention` and `NotificationBatching`, which share no state: a section each.  The definitions of the last three that every module has (`TypeOK`, `Init`, `Next`, `Spec`) carry the part's name for its sake |
| `MC*` | values for TLC |

`map` in `PROJECT.json` gives the source lines of every definition.  Each
definition named `X_…` after a comment `Mutant:` is a plausible bug in `X`, which
the run named in `mutants` detects.

### CircuitBreaker

`breaker` is the record of `state`, `failure_count`, `success_count` and
`next_attempt`; the clock is reduced to whether `next_attempt_time` has come
(`RecoveryTimeout`).  The asyncio lock is `holder` and the first-in-first-out line
`waiters`; each waiter's task says what it came for (a call or a forced
transition).  `StartCall` takes the lock and moves an open circuit whose time has
come to half open; `CallSucceeds`, `CallFails` and `CallTimesOut` end the call and release
the lock, `FailFast` is the refusal, `CancelRunning` and `CancelWaiting` are the
cancellation of a task.  `metrics` are the counters; `MaxCalls` bounds them.
A failure count without bound (an operator may keep forcing) is capped at
`FailureCap`, at least the threshold, above which the code never tells values apart.

*Checked:* `MetricsOverrunByOne` (outcomes exceed requests by one at most, although
`reset_metrics` takes no lock), `ImplementsBreaker` (refinement of
`BreakerSpec`: `mode` is the state, `run` the counter the state uses, `call` the
lock's holder or the last outcome) and `NobodyStarves`.  *Proved besides:*
`TypeOK`, `Consistent` (no call runs behind an open circuit, the counter a state
uses is below its threshold, an open circuit has a time of its next attempt) and
`LockDiscipline` (a task waits exactly once for what it wants, or runs, or does neither).

### ApiGateway

A client's `pc` is where its coroutine stands: waiting for the breaker's lock,
running the HTTP call, sleeping in a backoff.  `Admit` selects the first endpoint
whose circuit is not open and joins its line; `Retry` joins the *same* line again
(the code does not select twice).  `Respond` is any HTTP answer, after which
`response.json()` may raise and turn the attempt into a failure although the
breaker counted a success.  The rate limiter is a free choice of admitted or
refused (`RateLimiter` models it on its own), the metrics are left out.
`delivered` counts how often the provider carried the current request out (history).

*Checked:* `ImplementsBreakers` (each breaker refines `BreakerSpec` under overlapping
retry loops) and `EveryRequestAnswered`.  *Found violated:* `TriedAfterRecovery` (a
request tries an endpoint whose recovery timeout is over, as the comment on that timeout
says), by the run `gateway_recovery`.  *Proved besides:* `TypeOK`, `LockDiscipline`,
`SilentWhileOpen` (nothing is sent to an endpoint whose circuit is open, although the
line was joined before it opened) and `OutOfServiceForGood`, which is why the finding
is no accident: an open endpoint with no request under way on it is never used again,
as the selection skips it and only a call takes a circuit out of open.

### RequestQueue

`queue` holds the queued requests in order of submission; the heap, the FIFO and
the provider queues are all views of it (`NextRequest` picks by strategy).  `active`
is the table, `future` each caller's future, `worker` what each worker awaits,
`sleeping` the retry tasks, `sweep` the sweep's list and the callback it awaits.
`Expire` is the passing of `timeout`, `WaitTimeout` the deadline of
`asyncio.wait_for` in `enqueue_and_wait`, which retries do not reset.  `Stop` and
`Stopped` are the two halves of `stop()` as the admin command
`clear_request_queue` uses it, with a new queue afterwards and old retry tasks
still asleep.  Each request is submitted once, by a waiter or with a callback.
`leaving` says how a wait was broken off: `wait_for` or a cancellation settles the
future at once (`BreakOff`), and the task that waits cleans up only when it resumes
(`WaiterResumes`), with workers, retries, sweep and stop in between.

*Checked:* `Tracked` (a request whose caller still waits is in the table *and* in a hand
that will report it: queued, at a worker, asleep before a retry, or past its timeout so
that the next sweep finds it; unless a stop is about to settle it), `OneHand`,
`TwoReportsAtMost`, `WantedOnly`
(nothing is sent for a caller that has its answer; excepted are the cancelled
waiter, whose request stays queued, and the timed-out one until its task resumes),
`ImplementsLifecycle` (the abstract `Try` needs a request that is pending or cancelled:
after any other end none is tried again) and `EveryRequestSettles`.  *Proved besides:* `TypeOK` and
`NewcomersFit` (retries overfill the queue, newcomers never do).

### RateLimiter

Time is a count of ticks; one token costs `Cost` ticks of refill, so the floating
point level of the code is exact here.  `tokens` and `last_update` are the bucket as
the last refill left it, and `Level` what it holds now.  `Acquire` takes a token,
joins the deque or is refused; `Process(k)` is one pass of the processor, which
sweeps what is expired and serves the head as long as there are tokens; `TimerFires`
and `CallerCancelled` end a wait from outside, and `Resume` is the caller's task
running again.  A result that was set between is lost together with its token.
`charged` is the history of the callers a token was taken for.

*Checked:* `ImplementsBucket` (the lazily filled bucket refines `EagerBucket`),
`Remembered` (a waiting caller is in the deque exactly once), `WasteExplained` (a
token is wasted only on a caller that was leaving) and `EveryCallerAnswered`.
*Proved besides:* `TypeOK`, `RateBound` (tokens taken never exceed burst and
refill of the time passed) and `AllowedIsPaid`.

### SyncProcessor

`store` is the stored record of each operation, all that survives a `Reload`.  A
`run` is one execution of `processSyncQueue`: the operations still to do, the current
batch, batch size and concurrency.  A `handler` is one `processOperation`:
`sent` (fetch under way), `landed` (the server has applied it, the answer is
outstanding), `read` and `write` (the get and the put of
`updateSyncOperation`), `remove`, `waiting` (the sleep before a retry) and
`settled`.  `Lands` is the server's action, so a timeout can strike before or after it.
`isProcessing`, `status` and `timers` are the fields of the class.  Batch
size and width, which the code derives from network and operations, are chosen
freely from `BatchSizes` and `1 .. MaxConcurrent`.  `StorageFails` is a get, put or
delete that fails: on the way to "completed" the code takes the error for the
request's and retries or writes "failed"; after a conflict the error is swallowed; while
a failure is being written it rejects `Promise.all` and ends the run, whose other
handlers go on (`AtRest`: neither the run nor what it left in flight is at work).
`warned` is the run's warning of circular dependencies.

*Checked:* `SingleRun`, `NothingLost`, `AttemptsAccounted` (requests sent, against
retries recorded and reloads), `DependenciesNotLater` (when an operation is sent and
the run has not warned, what it depends on is not left for later), `ImplementsOutbox`,
`RunsEnd`.

### ConnectionPool, RealtimeClient, Realtime

`ConnectionPool` has the pool's three tables, the task of each socket (`endpoint`)
with the reply it awaits, and the broadcasts under way (`casts`).  Sends suspend
and may fail, and a failed send removes the entry *of the id*, whichever socket
that is by now.  `joined` is the history of the classes an id was authenticated for.
`RealtimeClient` is one object whose handlers do not ask which socket an event is
of; `timers` counts pending reconnections.  `Realtime` joins them: `up` and `down`
are the messages of each socket, lost when it is over; `Breaks` interrupts a
link, after which browser and server notice in either order; `Restarts` ends the
server process.

*Checked for the pool alone:* `NoGhosts` (an entry's socket still has its
task, which will remove it) and `SeatsKept` (a seat in a class outlives its
connection only for an id used by two sockets or authenticated for two classes).
*Checked for both:* `ShownIsReal` (a page that shows a connection has a socket that
is open or opening), `LossIsRepaired` (a page in error has a reconnection pending
while attempts last), `FirstSocketServed` (as long as there was only one socket,
"authenticated" on the page means an entry at the server) and `PageForgotten`.
*Proved besides:* both `TypeOK`, `Reachable` (whoever is authenticated is in both
indexes), `WithinLimit` (the class limit) and `AttemptsBounded`.

### AttendanceRecords

`records` is the committed table, each row with its audit trail.  A request reads
(`ReadCheckIn`, `ReadOverride`, `ReadCheckout`, `ReadBulk` with `SkipBulk` for students
that cannot be found) and later writes: with SQLite the first flush takes the write
lock and the commit releases it, so what lies between is one action.  `seen` is the
row and the status that were read.  A bulk update commits once, at its end; a
student that fails half way rolls everything back.  A check-in and an override read
their row again after the commit (`db.refresh`, `attendance_backup.py:172`, `322`,
`526`), in the same `try`: they pass through `"refresh"`, where `Refreshed` answers
"ok" and `Fails` answers "error" for a change that is durable.  `disturbed` is the
history of students two requests worked on at a time.

*Checked:* `ExactUnlessDisturbed` (duplicates, lost updates and gaps in the trail
are all due to overlap), `AllOrNothing` (a request's work is there as a whole or not at
all: "ok" has logged it for exactly the students it does not report as failed, a refusal
or a failed bulk update has left nothing behind, and only an error to a check-in or an
override leaves open which of the two it is), `ChangesLogged`, `DuplicatesFrozen`,
`AttendanceTypeOK`.

### NotificationBatching

`notices` and `batches` are the rows, `combined` the notifications that passes
create, `pass` what each pass has read: its list of batches, then the
notifications of one.  A sender reads the preferences (`notification_manager.py:107`)
before its insert takes the write lock, and does not read them again: `SetPreferences`
chooses the senders it overtakes, `overtaken` keeps what those have read, and `HasRead` is
what a sender goes by.  The rest of a sender is one action: nothing is sent
(`SendNothing`), it is sent at once (`SendNow`), added to a batch (`AddToBatch`,
`AddToNewBatch`), or dropped (`AddFails`).  Urgency, quiet hours and frequency are a
free choice among these.  `add_to_batch` swallows every exception
(`batching_service.py:137-140`) and its caller answers success all the same: that is
`AddFails`, for the look-up that finds two open batches and, `MaxErrors` times, for any
failure of the database (`failing`).  A rolled-back session may or may not leave the
notification behind, pending (`Left`).  `ProcessBatch` and `ForceSendBatch` combine;
`unsent` are the loaded notifications whose status the ORM will write, as it writes none
that equals the one loaded.  `FindExpired` and `MarkExpired` are the clean-up.  `raised`,
`dropped`, `outdated`, `failing`, `shared` and `late` are history.

*Checked:* `NoneDropped` (as long as `max_batch_size` was never raised, no more is
dropped than the database failed, but for what a sender dropped that went by a size
lowered since), `CombinedOnce` (two combinations of a batch only by two passes that had
it in hand at a time), `AllReported` (what is marked sent was put into a combined
notification, and a batch that was sent leaves out only what was added while a pass had
it loaded), `BatchingTypeOK`.  *Proved without a run:* `CountsExact` (`notification_count`
is the number of the batch's notifications, from one to the largest size allowed).

### Retention

`row` is a purge schedule, `job` what each engine's session is doing, with the list
it has read.  The engine commits with every audit event, so a warning pass
(`WarnOne`) and a purge run (`ReadDue`, `CheckExemption`, `PurgeCommits`) make one
commit per schedule.  A commit expires what the session has loaded, so only the first
check of a run works with values as old as its list (`stale`).  `StartScheduler`
and `StopScheduler` are the daemon; the job list belongs to the process, so
stopping one engine clears the jobs of all.  A session is one thread's: while the daemon
runs its engine serves no requests, and it is stopped between its jobs (`stop_scheduler`
logs an event with the session a job would be using).  `TimePasses`, `ExemptionExpires` and
`PolicyChanges` are the environment.

A failure (`SomethingFails`, `MaxFailures` times) may strike anywhere.  What
`_execute_record_purge` catches (`retention_engine.py:844-852`) sets the schedule to
"failed" in the session and lets the run go on; the status waits there (`failing`) for
the next commit, of another purge or at the run's end (`GivenUp`).  `PurgeFails` is a read
that fails before the purge, `PurgeUnconfirmed` the refresh after its commit: the record
is gone, and its schedule says "failed".  `PassesOver` is a schedule that cannot be read
at all.  `SessionFails` is every other failure: the session loses what it has not
committed, and the operation ends.

*Checked:* `ExemptionHolds` (an exemption granted when no other session was about to
write the schedule holds until it is revoked or expires; its record is purged only by a
second schedule made by two sessions at the same time), `OneLostPerFailure` (one failure
costs one schedule at most, never the rest of its list), `DueIsTakenUp` (what is due
does not stay so as long as the policy purges and an engine's jobs are in the list: it
is purged, or given up as "failed"), `RetentionTypeOK`.  *Proved without a run:*
`PurgedWhenDue` (however old its list, a purge run deletes only what is due).

## 3. Runs, bounds and fairness

All runs pass but `gateway_recovery`, which shows a finding: TLC must find its property
violated.

| Run | Instance | Shows |
|---|---|---|
| `breaker` | 3 tasks, thresholds 2 and 2, 2 counted calls | three tasks: one holds the lock, two stand in line, so barging, cancelling in the middle and forcing behind a call occur; thresholds of 2 distinguish "first" from "last" |
| `gateway` | 2 clients, 2 endpoints, 2 retries | one endpoint fails while the other serves, both clients queue at one breaker, a circuit opens between two attempts |
| `gateway_recovery` | as `gateway` | the finding: with every circuit open and one's recovery timeout over, a request is refused without an attempt |
| `queue` | 2 requests of two providers, one with a waiter and one with a callback, 2 workers, queue of 1, 2 retries, round robin | a queue of 1 is full and overfilled by a retry; two workers, retries, sweep and stop meet on one request, and every accepted request settles.  Other strategies, priorities and sizes are left to the proofs |
| `limiter` | 3 callers, bucket of one and a half tokens, 2 ticks per token, deque of 1, timeout of 2 ticks, 6 ticks | the bucket is full, part full and empty; a caller is admitted, one waits, one is refused; expiry, timeout, cancellation and stop meet on one caller.  Longer deques are left to the proofs |
| `sync` | 3 operations in a chain of dependencies, batches of 1 and 2, 1 retry, all network states; no forced start, stop, reload or storage failure | one run at a time and what it guarantees; with a chain of 3 a run meets a dependency that an earlier run completed.  Reloads are left to the proofs |
| `sync_overlap` | 1 operation, 2 overlapping runs, forced starts, stops, 1 reload, 1 failing storage transaction | what is left of it with two runs at work on one operation, and that all runs end.  What a run ended by a failure leaves in flight takes two operations and is left to the proof of `NothingLost` |
| `pool` | 3 sockets under 2 ids, 2 classes of 1 seat, 1 user, 2 connections | an id is reused while the other is served, the pool and a class are full, an id changes its class |
| `realtime` | 2 sockets of one page, 1 automatic reconnection, 1 message in flight | the second socket is opened while the first is still ending at either side |
| `attendance` | 2 students, 5 requests: a check-in, an override and a checkout of one student, a check-in of the other, a bulk update of both | every kind of request overlaps with every other on a student, a bulk update half way fails, and a refresh after a commit |
| `batching` | 3 notifications, one that expires, 2 passes, `max_batch_size` up to 3, 1 failure of the database | a batch fills and gets a successor, a sender goes by a size since raised or lowered, two passes and a clean-up overlap |
| `retention` | 2 records, 2 schedules, 2 engines of which one has a daemon, 1 failure, anywhere | passes over two schedules with an exemption, a purge by hand or a failure between them, and two schedules of one record |

In `sync` the run slots, in `batching` what
`Interchangeable` names, are interchangeable and declared symmetric; runs with
liveness use no symmetry.  Deadlock checking is on except in
`attendance` and `batching`, where finitely many requests or notifications are all
answered in the end and nothing more can happen.  `SendCap`, `FailureCap`,
`MaxCalls`, `MaxReloads`, `MaxTime`, `MaxInFlight`, `MaxSchedules`, `MaxFailures`, `MaxErrors` and the finite sets of
requests, sockets, engines and passes are the only bounds that are not in the code; the
comments at the constants say what they bound.  The hazards are races of
two, against a third party at most (sweep, timer, restart), and the instances have
one more of each than that needs; the proofs are for any number.

Fairness is weak throughout and per task, which is what an event loop gives:
a coroutine whose lock, sleep, answer or callback has come is resumed.  In detail:
a protected call ends because `asyncio.wait_for` ends it (`breaker`, `gateway`); a
request's timeout elapses and its processor and callback return (`queue`; the
coordinator's processor is `make_request`, which ends, as the run `gateway` shows); time
passes, so a caller's `wait_for` fires, with or without a processor (`limiter`);
a fetch is answered or times out, IndexedDB answers, timers fire (`sync_overlap`);
browser and event loop run their handlers, sends end, and keep-alives find a broken
link (`realtime`); a database operation that was begun goes on, and the daemon looks every
minute what is due and goes on with what it began (`retention`).  Nothing is assumed of users, of the
network's state, of reloads, failures or cancellations.

## 4. Proofs

The proof modules hold for **all** values of the constants that satisfy the
`ASSUME` of the module they extend (TLC evaluates the assumptions in the runs).
Each is built in the same way: an invariant (`IInv`, or in `BackendProofs` one named after
its part) that is inductive, `Init => IInv` and `IInv /\ [Next]_vars => IInv'` with a step
per action, and the properties that follow from it.

**`CircuitBreakerProofs`** (any set of tasks, any thresholds of at least 1).
`IInv == TypeOK /\ Consistent /\ LockDiscipline /\ MetricsOverrunByOne`.
`LockDiscipline` is needed for the rest: only because a task cannot be at two places
of the line does removing it once remove it, and only because the holder is no
longer in line can its end or cancellation free the lock without touching the
line.  `MetricsOverrunByOne` counts the call in flight among the outcomes, which
makes it inductive: the end of a call only moves it from one summand to another.
`Refinement` proves `Spec => ImplementsBreaker`: every action maps to a step of
`BreakerSpec` or to a stutter, under the invariant.

**`ApiGatewayProofs`** (any clients, endpoints, retries).  To `TypeOK` and
`LockDiscipline` come `NotOpen` (the circuit of a running call is not open, so that a
delivery always meets a closed or half-open one) and `Accounted` (deliveries are
bounded by the attempts made).  `AlwaysSilentWhileOpen` and
`AlwaysOutOfServiceForGood` are action properties: each step is taken through all
actions under the invariant.  The second holds of any thresholds and any number of clients
and endpoints, so what `gateway_recovery` shows is not due to its small instance.
`Refinement` (`Spec => ImplementsBreakers`) is for every
endpoint at once: `EndpointStep` shows that a step under the lock of an endpoint is a
step of its abstract breaker, keeps what its counters mean (`Consistent`, an invariant of
its own on top of `IInv`) and leaves every other endpoint alone.

**`RequestQueueProofs`** (any requests, workers, providers, strategy, limits).  `Tracked`,
`OneHand` and `TwoReportsAtMost` depend on each other.  `Hands` says where a request is by
its future and its retries, `Untouched` and `Answered` what is still empty
before it is submitted and after it is settled, `SweepOK` what the sweep's list may
contain, `QueueWanted` for whom queued requests are, `Counted` and `Reported`
relate retries and reports to the places.  That a pending request is always in some
hand needs all of these: `InHandStays` goes through the actions that take one out of a
hand and shows where it is put, or that it is settled, past its timeout, or a stop is
under way.  `Answered` also says that the future of a wait that was broken off is
cancelled, which is why the refinement needs no try after any other end.  From the
invariant follow `TypeCorrect`,
`AlwaysTracked`, `AlwaysOneHand`, `AlwaysNewcomersFit`, `AlwaysTwoReportsAtMost`,
`AlwaysWantedOnly` and `Refinement` (of `RequestLifecycle`).

**`RateLimiterProofs`** (any callers, capacity, rate, timeout).  `InOrder` says
the deque is sorted by arrival, `Arrived` that nobody is older than `now`, so a
sweep removes a prefix; `Fresh` and `Broken` say which futures and answers go with
which way of leaving.  `BucketOK` bounds the last refill.  `Refinement` maps ticks
and takes to those of `EagerBucket`; a refill is a stutter there.

**`SyncProcessorProofs`** (any finite set of operations, any priorities, dependencies,
runs, batch sizes, retries, reloads, storage failures).  `IInv == TypeOK /\
HandlersOK /\ CompletedApplied /\ NothingLost`.  `NothingLost` alone is not
inductive: the removal of a record is justified by the handler's phase, that one by the
job it was given when the answer came, and the put by the *copy* an earlier get
took, which another run may have written meanwhile.  `HandlersOK` and
`CompletedApplied` say exactly that.  `AlwaysSingleRun` is proved separately, from
the hypotheses `~Forcing` and `~Stopping`, which the run `sync` also makes.
`AlwaysDependenciesNotLater` has an invariant of its own and no hypothesis: the list
of every run, whatever other runs, forced starts, failures or reloads do, is in the
order of the dependencies unless the run has warned (`AllInOrder`), since a run only ever
shortens the list it has planned.  It is about the order within a run; what a chunk sends
at once and what an earlier run left out are in section 5.

With `MaxFailures = 0` as a third hypothesis a second invariant is inductive, `OneRun`:
one run at a time, the lists of the run free of repetitions, in the order of the
dependencies unless it has warned, and equal to what is stored (`RunsOK`), each handler's retry
count in step with its record and the requests sent (`Accounts`, by `Tallies`), an
operation that waits one request short of what its record allows (`Spared`), and nothing stored
of what was never queued (`NotQueued`).  `Spared` is what makes `AttemptsAccounted`
survive the next request, and "equal to what is stored" what makes `Spared` apply to
an operation taken from a list that was read long before.  From `OneRun` follow `AlwaysAccounted`
and `OutboxRefinement` (`Spec => ImplementsOutbox`), both for any number of reloads.

**`BackendProofs`: connection pool** (any sockets, ids, classes, users, limits).  `OwnId`: an
entry's socket has the entry's id, so a task that ends removes no other's entry but
under its own id.  `Placed` and `SeatsJoined` relate the indexes to the entries and to
`joined`; `SeatsLimited`, that an index itself never exceeds the limit, is what makes
`WithinLimit` inductive.

**`BackendProofs`: attendance records** (any students, requests, and lists of students
without repetitions; a request that is no bulk update has one student, as its endpoint
takes one).  Every action is first brought to one of six effects (`AttendanceEffects`):
begin, end, look up, skip, create a row, revise rows.  `AttendanceInv` adds to
`AllOrNothing` (`AlwaysAllOrNothing`) what it rests on; the property says of a request
before its commit, and of one between commit and refresh, what it will say of the answers,
which makes it inductive.  `SeenOK`: what a request is about to write is a row of
its student, as rows are never deleted; so nobody writes a row of another.  `ProgressOK`:
the students reported as failed are those before the one a bulk update is at, so that
at its end those it reports and those it wrote make up its list, and nobody is both.
`UndisturbedOK` is the strengthening of `ExactUnlessDisturbed`: of a student nobody has
disturbed, one request at most is at work, and it still sees the row as it is.
`NoChangeUnlogged` and `NobodyRepairsDuplicates` prove the two action properties
from the effects and `SeenOK`.

**`BackendProofs`: retention** (any records, schedules, engines, daemons, policies,
failures).  `ExemptionHolds` is not inductive: a session that read a schedule before may
still write it.  `Harmless` says of every session that it has an exempted schedule neither
in hand (except to grant or revoke) nor on a list it will not look at again, which leaves
the purge runs whose list is not stale; those look at the status first.  A grant that
leaves the status alone does so only because it is still "exempted", unless it was
overtaken (`GrantsOK`).  `PurgesAreDue` rests on a second invariant, `ListsDue`: a purge
run begins with what is due and its list only shrinks (`JobsGoOn`), a schedule stays that
of its record (`ScheduledRecords`), and what is due stays due.  `Harmless` speaks of the
schedules a session will mark as failed, too (`failing`).  `OneLostForEach` counts: a step
that is no failure gives up no schedule that was not given up before, and one that is a
failure at most one more (`LostStep`), since a status waiting for its commit is counted from
the moment it is set.

**`BackendProofs`: batching** (any notifications, passes, sizes, failures).  `OpenOK`: as
long as the size was not raised one batch at most has room below the size in force.
`OvertakenOK`: a sender then goes by a size no smaller than that, so a look-up fails on two
batches only when its size is larger, which puts the notification in `outdated`;
`DroppedOK` counts the others against `failing`.  `DropsExplained` follows.  `PassOK` says
that what a pass has loaded is its batch but for what came late, `SharedOK` that two passes
with one batch in hand have it in `shared`, and so has whoever still holds one that was
sent.  With these `CombinedOnce` and `AllReported` are inductive.  `CountsAreExact` adds
that a batch's notifications are finitely many.

**`RealtimeProofs`** (any sequence of sockets, any number of attempts and messages).  The
client's part is an invariant on its own (`ClientInv`); for the composition
`NetworkOK` says what can be on its way on a socket in which state, and `HeldKnown`,
`KnownOpened` that the server knows only sockets the page has opened.  `FirstOK`
carries `FirstSocketServed` through the answers that are still under way.  The
typing of the server part comes from its own module.  `ServerIsPool` (`Spec =>
Server!Spec`) shows the composition restrains the pool and adds nothing to it, and
`PoolConstants` that its constants are such as `ConnectionPool` assumes when the sockets
are finitely many: the pool's theorems then hold of the server in the composition.

`LineLemmas` states once what appending to, taking from and removing from a line
without repetitions does to its range; four of the proofs cite it.

*Only model-checked:* liveness (`NobodyStarves`, `EveryRequestAnswered`,
`EveryRequestSettles`, `EveryCallerAnswered`, `RunsEnd`, `PageForgotten`,
`DueIsTakenUp`), which is out of reach of the prover.  Every invariant, action property and
refinement the passing runs check is also proved.

## 5. Where the code and its comments part

What the models describe is what the code does.  Where a comment, a test or a name
promises more, the properties are stated as the code has it; the
differences met on the way are these.  The first is checked as the comment has it, and
found violated (`findings` in `PROJECT.json`).

*Breaker and gateway.*  An endpoint whose circuit the last retry opened is never
probed again: the selection offers no open endpoint
(`api_gateway.py:272`), and only a call takes a circuit out of open.
`recovery_timeout` is documented as "Seconds before trying half-open"
(`core/circuit_breaker.py:35`).  `TriedAfterRecovery` says so of the gateway, and the run
`gateway_recovery` ends with a request that is refused although the time has come;
`OutOfServiceForGood` is proved.  Nothing is registered with the circuit breaker manager, so
the coordinator's health monitor sees no circuit and the admin's force commands
find no provider.  The router selects an endpoint and `make_request` selects again,
so the router books health and connections on an endpoint that was not used.

*Queue.*  The sweep expires a request that a worker has: it is recorded and reported
twice (`request_queue.py:675`; `TwoReportsAtMost` bounds it).

*Rate limiter.*  In a window as long as `rate` takes, burst **plus** rate are admitted.
A cancelled caller keeps its place until the processor meets it.  The gateway never
starts the limiters it creates, so whoever queues there only times out.

*Offline sync.*  A chunk sends an operation and its dependency at once
(`syncProcessor.ts:384`; "IDs of operations that must complete first",
`offlineStorage.ts:38`).  A dependency that an earlier run completed counts as missing:
the run warns of a circular dependency that is none and sends the rest by priority
alone, so an operation may be sent before one it depends on
(`:311`, `:319`).  A resolved conflict is stored and its operation marked
failed (`:488`; "not retriable (except conflicts)", `:542`).  A resume while the
paused run winds down is lost (`:150`).  With a forced start, the put of one run
brings back a record the other has removed (`offlineStorage.ts:255`).  An operation
queued while a run is under way starts nothing; it waits for the next occasion
(`:189`).

*WebSockets.*  After a second socket under the same id, a page may show
"authenticated" without an entry at the server (`core/websocket.py:603`), and its
id may hold a seat in a full class against itself.  A server that closes with 1000
is not reconnected to; a manual disconnect while connecting, or answered by a late
1006, is followed by a reconnection.  `reconnectAttempts` is never reset.

*Attendance.*  `main.py` imports `api/v1/attendance.py`, which does not parse; the model
follows its intact copy.  No unique index stands behind check-then-insert: two
requests create two rows, after which every look-up raises (`DuplicatesFrozen`).
`version` ("Optimistic locking") is never compared.  A refresh that fails after the commit
(`attendance_backup.py:172`, `322`, `526`) is answered as an error, with the change
durable; `AllOrNothing` allows for that and no more.  The branch of the bulk update that
creates a row logs it before it has an id and rolls the whole update back.

*Batching.*  The combined notification ("This is the actual notification to send",
`batching_service.py:363`) is stored as pending without `scheduled_at`, and the only
query for pending ones compares that: nobody sends it.  A notification added between a
pass's read and its write stays pending for ever (`late`); two passes send a
batch twice (`shared`); raising `max_batch_size` opens a full batch beside its
successor, and adding then fails while success is reported (`raised`).  Lowering it does
the same to a sender that has read the larger size (`outdated`), and any failure of the
database to whomever it strikes (`failing`), as `add_to_batch` returns `None` and
`notification_manager.py:133-141` reports success whatever it returns.

*Retention.*  A warning pass that read its list before an exemption was granted overwrites
it with "warned" (`retention_engine.py:774`), and the record is purged later.  A
grant does not look at the status, so a purged record can be exempted and, by
revoking, scheduled again.  Exemptions do not end by themselves: no query finds one
that has expired (`tests/compliance/test_retention_engine.py:464` calls a
`check_expired_exemptions` the engine lacks).  What is due on the day it is first
looked at is warned about and purged in one run.  Records older than their policy's
effective date are refused a schedule, so the bulk scheduling of existing data
schedules none under the default policies.  A purge that fails is
marked "failed" by `:844-852`, and no run tries it again; the test of a failing purge
(`tests/compliance/test_retention_engine.py:592-622`) expects the status to stay "warned",
but patches a method the engine lacks and so shows neither.  The `return False` of
`:811-813` and `:823-824` cannot be reached: no policy is ever deleted, and only records
of types that have a purge are scheduled.  A commit that is refused is modelled as a failure of the session.

## 6. Not modelled

*In the modelled parts:* wording, logging and derived figures; the averages of all
metrics; providers added at run time; the localStorage fallback; timestamps in the sync queue
(ties of priority are left open); a second database beside SQLite, whose finer locks let writes of two sessions
interleave; simulated purge runs.  A fetch cut off by a timeout or a reload has reached
the server by then or never does.

*Other parts* (`components` in `PROJECT.json` has each with its reason), in groups:

* **No state of their own**: the endpoints and schemas, the coordinator (its one
  interleaving with the queue is in `RequestQueue`), authentication, formatting, templates,
  reports, dashboards, training material, anonymisation.  Their correctness is that of a
  function, which tests reach.
* **Statistics over stored rows or floating-point time**: analytics, pattern
  detection, monitoring, the throttler's windows and adaptive rates, the router's weights.
* **Calls to outside services**: email, SMS, push, the SIS providers.
* **Cannot run as it is**: `api/v1/attendance.py` does not parse;
  `services/sync/sync_manager.py` uses names it does not import, and the rest of the
  server's synchronisation is reached through it; the SIS router is commented out of
  `main.py` and the token manager decrypts no token before it sends it.  There is no
  behaviour to be faithful to.
* **Rows stored one at a time by one session**: consent, access logs, security events.

These make up most of the repository's lines.

## 7. What remains

The parts that run and whose concurrent state decides whether they are correct are
modelled.  Worth adding to what there is:

1. a liveness instance of `SyncProcessor` with two operations and a storage failure,
   which is beyond what TLC finishes in minutes;
2. the coordinator's composition of queue, router and gateway service, once an open
   endpoint can come back.

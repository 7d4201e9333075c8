------------------------------- MODULE Retention -------------------------------
(***************************************************************************)
(* compliance/retention_engine.py: attendance records are scheduled for    *)
(* their purge, warned about, exempted and purged by engines that have a   *)
(* database session each, for the daily jobs of their daemons and for      *)
(* requests.                                                               *)
(*                                                                         *)
(* An operation reads, and writes when it commits; to log an audit event   *)
(* is to commit.  A commit writes the columns its session has changed,     *)
(* whatever the row holds by then.  A session that fails, or its process,  *)
(* loses what it has not committed and the rest of its operation; only     *)
(* what _execute_record_purge catches lets the operation go on.            *)
(*                                                                         *)
(* All records are younger than the policy: others are refused a schedule. *)
(* A session is used by one thread: an engine whose daemon runs serves no  *)
(* requests, and is stopped, which logs an event, between its jobs.        *)
(* An exemption without an expiry is one that never expires.               *)
(* Left out: simulated runs, which only read, the reasons of exemptions,   *)
(* audit logs, which are marked and never deleted, and tables without a    *)
(* purge, which the code schedules nothing of.                             *)
(***************************************************************************)
EXTENDS Naturals, FiniteSets

CONSTANTS
    Records,        \* attendance records
    MaxSchedules,   \* rows of data_purge_schedules (a bound)
    Engines,        \* DataRetentionEngines with their sessions (a bound)
    Daemons,        \* engines whose scheduler may be started
    Ages,           \* how far records are from their purge at first
    Policies,       \* what update_retention_policy may make of the policy
    MaxFailures     \* failures of sessions and of their reads (a bound)

ASSUME RetentionAssumption ==
    /\ IsFiniteSet(Records) /\ IsFiniteSet(Engines)
    /\ MaxSchedules \in Nat /\ MaxFailures \in Nat
    /\ Daemons \subseteq Engines /\ Ages \subseteq {"far", "near", "due"}
    /\ Policies \subseteq [active : BOOLEAN, auto : BOOLEAN, warns : BOOLEAN]

VARIABLES
    stored,     \* records that exist
    age,        \* how far each is from its purge: "far", "near" (30 days) or "due"
    policy,     \* the retention policy
    row,        \* the schedules
    job,        \* what each session is doing
    running,    \* engines with is_running
    jobs,       \* engines whose jobs are in the process-wide schedule
    exempted,   \* history: schedules exempted in time, and not since revoked or expired
    failures    \* history: how often a session or one of its reads failed

retentionvars == <<stored, age, policy, row, job, running, jobs, exempted, failures>>

-------------------------------------------------------------------------------
(* Rows and jobs *)

Schedules == 1 .. MaxSchedules

NoSchedule == 0

Unused == [record |-> "none", status |-> "none", expired |-> FALSE, warned |-> FALSE]

\* A job has a list, the schedule it is at and the status it saw there, the
\* record it schedules, whether what it read is as old as the list, and the
\* schedules whose status it has set to "failed" and not committed;
\* "overtaken" is history.
Free == [op |-> "free", todo |-> {}, at |-> NoSchedule, saw |-> "none", record |-> "none",
         stale |-> FALSE, failing |-> {}, overtaken |-> FALSE]

Used == {s \in Schedules : row[s] # Unused}

DueForWarning ==
    {s \in Used : /\ row[s].status = "scheduled" /\ ~row[s].warned
                  /\ age[row[s].record] # "far" /\ policy.warns}

DueForPurge ==
    {s \in Used : /\ row[s].status \in {"scheduled", "warned"}
                  /\ age[row[s].record] = "due" /\ policy.auto}

Exempt(s) == row[s].status = "exempted" /\ ~row[s].expired

RetentionInit ==
    /\ stored = Records
    /\ age \in [Records -> Ages]
    /\ policy \in Policies
    /\ row = [s \in Schedules |-> Unused]
    /\ job = [e \in Engines |-> Free]
    /\ running = {} /\ jobs = {}
    /\ exempted = {}
    /\ failures = 0

daemons == <<running, jobs>>
world == <<age, policy, daemons, failures>>

\* A request is begun by an engine whose session is free.
Request(e, j) ==
    /\ job[e] = Free /\ e \notin running
    /\ job' = [job EXCEPT ![e] = j]
    /\ UNCHANGED <<stored, row, exempted, world>>

\* The status of s as a session keeps it, as far as it is one of S: those are
\* not written again.
Saw(s, S) == IF row[s].status \in S THEN row[s].status ELSE "warned"

Over == {"purged", "failed"}

\* e writes the schedules S, and goes on with j.
Writes(e, S, j) ==
    job' = [x \in Engines |->
              IF x = e THEN j
              ELSE [job[x] EXCEPT !.overtaken = @ \/ (job[x].op = "grant" /\ job[x].at \in S)]]

Commits(e, S, j) == Writes(e, S, j) /\ UNCHANGED world

\* e will write s without another look at it.
WillWrite(e, s) ==
    \/ s = job[e].at \/ s \in job[e].failing
    \/ s \in job[e].todo /\ (job[e].op = "purge" => job[e].stale)

-------------------------------------------------------------------------------
(* Scheduling *)

ScheduleReads(e, r) ==
    /\ policy.active
    /\ \A s \in Used : row[s].record # r
    /\ Request(e, [Free EXCEPT !.op = "schedule", !.record = r])

ScheduleInserts(e) ==
    /\ job[e].op = "schedule"
    /\ LET s == Cardinality(Used) + 1
       IN  /\ s \in Schedules
           /\ row' = [row EXCEPT ![s].record = job[e].record, ![s].status = "scheduled"]
           /\ Commits(e, {s}, Free)
    /\ UNCHANGED <<stored, exempted>>

-------------------------------------------------------------------------------
(* Exemptions *)

GrantReads(e, s) ==
    /\ s \in Used
    /\ Request(e, [Free EXCEPT !.op = "grant", !.at = s, !.saw = Saw(s, {"exempted"})])

\* The exemption may come late, or while another session is busy with s.
GrantCommits(e) ==
    /\ job[e].op = "grant"
    /\ LET s == job[e].at
       IN  /\ row' = [row EXCEPT ![s].status = IF job[e].saw = "exempted" THEN @ ELSE "exempted",
                                 ![s].expired = FALSE]
           /\ exempted' = IF /\ row[s].record \in stored /\ ~job[e].overtaken
                             /\ \A x \in Engines \ {e} : ~WillWrite(x, s)
                          THEN exempted \cup {s} ELSE exempted \ {s}
           /\ Commits(e, {s}, Free)
    /\ UNCHANGED stored

RevokeReads(e, s) ==
    /\ s \in Used /\ row[s].status = "exempted"
    /\ Request(e, [Free EXCEPT !.op = "revoke", !.at = s])

RevokeCommits(e) ==
    /\ job[e].op = "revoke"
    /\ LET s == job[e].at
       IN  /\ row' = [row EXCEPT ![s].status = "scheduled", ![s].expired = FALSE]
           /\ exempted' = exempted \ {s}
           /\ Commits(e, {s}, Free)
    /\ UNCHANGED stored

-------------------------------------------------------------------------------
(* The daemon's jobs, and purges by hand *)

StartScheduler(e) ==
    /\ e \in Daemons \ running /\ job[e] = Free
    /\ running' = running \cup {e}
    /\ jobs' = jobs \cup {e}
    /\ UNCHANGED <<stored, age, policy, row, job, exempted, failures>>

\* Mutant: schedule.clear() is forgotten.
StopScheduler_KeepsJobs(e) ==
    /\ e \in running /\ job[e] = Free
    /\ running' = running \ {e}
    /\ UNCHANGED <<stored, age, policy, row, job, jobs, exempted, failures>>

\* schedule.clear() clears the jobs of every engine.
StopScheduler(e) ==
    /\ e \in running /\ job[e] = Free
    /\ running' = running \ {e}
    /\ jobs' = {}
    /\ UNCHANGED <<stored, age, policy, row, job, exempted, failures>>

\* The purge run at 02:00 starts with the warnings, the job at 09:00 is these.
StartJob(e, op) ==
    /\ e \in jobs /\ job[e] = Free
    /\ op = "warn" => DueForWarning # {}
    /\ job' = [job EXCEPT ![e] = [Free EXCEPT !.op = op, !.todo = DueForWarning]]
    /\ UNCHANGED <<stored, row, exempted, world>>

WarnOne(e, s) ==
    /\ job[e].op \in {"warn", "run"} /\ s \in job[e].todo
    /\ row' = [row EXCEPT ![s].status = "warned", ![s].warned = TRUE]
    /\ Commits(e, {s}, [job[e] EXCEPT !.todo = @ \ {s}])
    /\ UNCHANGED <<stored, exempted>>

\* Mutant: only what is still scheduled is purged.
ReadDue_Scheduled(e) ==
    /\ job[e].op = "run" /\ job[e].todo = {}
    /\ job' = [job EXCEPT ![e] =
                 [Free EXCEPT !.op = "purge", !.stale = TRUE,
                              !.todo = {s \in DueForPurge : row[s].status = "scheduled"}]]
    /\ UNCHANGED <<stored, row, exempted, world>>

ReadDue(e) ==
    /\ job[e].op = "run" /\ job[e].todo = {}
    /\ job' = [job EXCEPT ![e] = [Free EXCEPT !.op = "purge", !.stale = TRUE, !.todo = DueForPurge]]
    /\ UNCHANGED <<stored, row, exempted, world>>

\* Mutant: the exemption is not looked at again.
CheckExemption_Once(e, s) ==
    /\ job[e].op = "purge" /\ job[e].at = NoSchedule /\ s \in job[e].todo
    /\ job' = [job EXCEPT ![e].at = s, ![e].saw = Saw(s, Over)]
    /\ UNCHANGED <<stored, row, exempted, world>>

\* What the list was read with is good until the first commit of the run: the
\* status was then one of those that are due.
CheckExemption(e, s) ==
    /\ job[e].op = "purge" /\ job[e].at = NoSchedule /\ s \in job[e].todo
    /\ job' = [job EXCEPT ![e] =
                 IF ~job[e].stale /\ Exempt(s)
                 THEN [job[e] EXCEPT !.todo = @ \ {s}]
                 ELSE [job[e] EXCEPT !.at = s,
                                     !.saw = IF job[e].stale THEN "warned" ELSE Saw(s, Over)]]
    /\ UNCHANGED <<stored, row, exempted, world>>

ManualReads(e, s) ==
    /\ s \in Used /\ row[s].status \in {"scheduled", "warned"}
    /\ Request(e, [Free EXCEPT !.op = "manual", !.at = s, !.saw = Saw(s, Over)])

\* The rows as they are when the session has flushed its statuses "failed".
GivenUp(e) ==
    [s \in Schedules |->
       IF s \in job[e].failing THEN [row[s] EXCEPT !.status = "failed"] ELSE row[s]]

\* A purge of the schedule it is at, and whatever else the session holds.
Purges(e, j) ==
    /\ job[e].op \in {"purge", "manual"} /\ job[e].at # NoSchedule
    /\ LET s == job[e].at
       IN  /\ stored' = stored \ {row[s].record}
           /\ row' = [GivenUp(e) EXCEPT ![s].status = IF job[e].saw = "purged" THEN @ ELSE "purged"]
           /\ Writes(e, {s} \cup job[e].failing, j)
    /\ UNCHANGED <<age, policy, daemons, exempted>>

\* What is left of the run, without the schedule it was at.
Onward(e) == [job[e] EXCEPT !.todo = @ \ {job[e].at}, !.at = NoSchedule, !.saw = "none"]

\* After a commit, which expires what was read.
Renewed(e) == [Onward(e) EXCEPT !.stale = FALSE, !.failing = {}]

PurgeCommits(e) ==
    /\ Purges(e, IF job[e].op = "manual" THEN Free ELSE Renewed(e))
    /\ UNCHANGED failures

SomethingFails ==
    /\ failures < MaxFailures
    /\ failures' = failures + 1

\* The refresh after the commit of a purge fails: the record is gone, and the
\* schedule is then set to "failed".
PurgeUnconfirmed(e) ==
    /\ Purges(e, [Renewed(e) EXCEPT !.failing = {job[e].at}])
    /\ SomethingFails

\* Mutant: the rest of the list is given up with the schedule.
PurgeFails_GivesUp(e) ==
    /\ job[e].op \in {"purge", "manual"} /\ job[e].at # NoSchedule
    /\ job' = [job EXCEPT ![e] = [Onward(e) EXCEPT !.todo = {}, !.failing = @ \cup job[e].todo \cup {job[e].at}]]
    /\ SomethingFails
    /\ UNCHANGED <<stored, row, exempted, age, policy, daemons>>

\* A read of the policy or the record fails: the schedule is set to "failed",
\* which waits for the next commit, and the run goes on.
PurgeFails(e) ==
    /\ job[e].op \in {"purge", "manual"} /\ job[e].at # NoSchedule
    /\ job' = [job EXCEPT ![e] =
         [Onward(e) EXCEPT !.failing = IF job[e].saw = "failed" THEN @ ELSE @ \cup {job[e].at}]]
    /\ SomethingFails
    /\ UNCHANGED <<stored, row, exempted, age, policy, daemons>>

\* A run cannot read a schedule at all, and passes it over.
PassesOver(e, s) ==
    /\ job[e].op = "purge" /\ s \in job[e].todo /\ job[e].at \in {NoSchedule, s}
    /\ job' = [job EXCEPT ![e] = [Onward(e) EXCEPT !.todo = @ \ {s}]]
    /\ SomethingFails
    /\ UNCHANGED <<stored, row, exempted, age, policy, daemons>>

JobEnds(e) ==
    /\ \/ job[e].op = "warn"
       \/ job[e].op \in {"purge", "manual"} /\ job[e].at = NoSchedule
    /\ job[e].todo = {}
    /\ row' = GivenUp(e)
    /\ Commits(e, job[e].failing, Free)
    /\ UNCHANGED <<stored, exempted>>

-------------------------------------------------------------------------------
(* The world *)

SessionFails(e) ==
    /\ job[e] # Free
    /\ SomethingFails
    /\ job' = [job EXCEPT ![e] = Free]
    /\ UNCHANGED <<stored, age, policy, row, daemons, exempted>>

TimePasses ==
    /\ age' = [r \in Records |-> IF age[r] = "far" THEN "near" ELSE "due"]
    /\ age' # age
    /\ UNCHANGED <<stored, policy, row, job, daemons, exempted, failures>>

ExemptionExpires(s) ==
    /\ row[s].status = "exempted" /\ ~row[s].expired
    /\ row' = [row EXCEPT ![s].expired = TRUE]
    /\ exempted' = exempted \ {s}
    /\ UNCHANGED <<stored, job, world>>

PolicyChanges(p) ==
    /\ p # policy
    /\ policy' = p
    /\ UNCHANGED <<stored, age, row, job, daemons, exempted, failures>>

-------------------------------------------------------------------------------
JobStep(e) ==
    \/ ScheduleInserts(e) \/ GrantCommits(e) \/ RevokeCommits(e)
    \/ ReadDue(e) \/ PurgeCommits(e) \/ JobEnds(e)
    \/ \E s \in Schedules : WarnOne(e, s) \/ CheckExemption(e, s)

RequestStep(e) ==
    \/ \E r \in Records : ScheduleReads(e, r)
    \/ \E s \in Schedules :
          GrantReads(e, s) \/ RevokeReads(e, s) \/ ManualReads(e, s)

RetentionNext ==
    \/ \E e \in Engines :
          \/ RequestStep(e) \/ JobStep(e) \/ SessionFails(e)
          \/ PurgeUnconfirmed(e) \/ PurgeFails(e)
          \/ \E s \in Schedules : PassesOver(e, s)
          \/ StartScheduler(e) \/ StopScheduler(e)
          \/ \E op \in {"warn", "run"} : StartJob(e, op)
    \/ TimePasses
    \/ \E s \in Schedules : ExemptionExpires(s)
    \/ \E p \in Policies : PolicyChanges(p)

RetentionSpec == RetentionInit /\ [][RetentionNext]_retentionvars

\* A daemon looks every minute what is due, and goes on with what it began.
RetentionFairSpec == RetentionSpec /\ \A e \in Daemons : WF_retentionvars(JobStep(e) \/ StartJob(e, "run"))

-------------------------------------------------------------------------------
(* Properties *)

Statuses == {"none", "scheduled", "warned", "purged", "exempted", "failed"}

ScheduleRows ==
    [record : Records \cup {"none"}, expired : BOOLEAN, warned : BOOLEAN, status : Statuses]

JobStates == [op : {"free", "schedule", "grant", "revoke", "warn", "run", "purge", "manual"},
              todo : SUBSET Schedules, at : Schedules \cup {NoSchedule}, saw : Statuses,
              record : Records \cup {"none"},
              stale : BOOLEAN, failing : SUBSET Schedules, overtaken : BOOLEAN]

\* The values of the variables; what is in the schedule belongs to an engine
\* that runs, and jobs only wait for rows that exist.
RetentionTypeOK ==
    /\ stored \subseteq Records
    /\ age \in [Records -> {"far", "near", "due"}]
    /\ policy \in Policies
    /\ row \in [Schedules -> ScheduleRows]
    /\ job \in [Engines -> JobStates]
    /\ \A e \in Engines : job[e].todo \cup job[e].failing \cup {job[e].at} \subseteq Used \cup {NoSchedule}
    /\ jobs \subseteq running /\ running \subseteq Engines
    /\ exempted \subseteq Used
    /\ failures \in 0 .. MaxFailures

Twin(s) == \E t \in Used \ {s} : row[t].record = row[s].record

\* An exemption granted in time, while no other session was about to write the
\* schedule, holds until it is revoked or expires: whatever lists the jobs have
\* read, the schedule does not become one that may be purged, and its record is
\* purged only by a second schedule, from two sessions that looked for the first
\* at the same time.
ExemptionHolds ==
    \A s \in exempted :
        row[s].status = "exempted" /\ (row[s].record \in stored \/ Twin(s))

\* A purge run deletes a record only when it is due, however long ago its list
\* was read.  By hand one may be deleted before.
PurgedWhenDue ==
    [][\A r \in stored \ stored' :
         \/ age[r] = "due"
         \/ \E e \in Engines : job[e].op = "manual" /\ row[job[e].at].record = r]_retentionvars

\* A record that is due does not wait, warned about or not, as long as its
\* policy purges and the jobs of an engine are in the schedule: sessions that
\* fail, exemptions that end and other engines only put off that it is purged,
\* or given up as "failed", which no run tries again.
DueIsTakenUp ==
    \A e \in Daemons, s \in Schedules : []<>~(e \in jobs /\ s \in DueForPurge)

\* The schedules that are, or are about to be, given up.
Lost == {s \in Schedules : row[s].status = "failed" \/ \E e \in Engines : s \in job[e].failing}

\* No schedule is given up without a failure of its own: one failure costs one
\* schedule at most, never the rest of the list it was on.
OneLostPerFailure == Cardinality(Lost) <= failures
===============================================================================

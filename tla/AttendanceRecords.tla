--------------------------- MODULE AttendanceRecords ---------------------------
(***************************************************************************)
(* The attendance records of one class session, and the requests that      *)
(* work on them: check-in, teacher override, bulk update and checkout      *)
(* (api/v1/attendance_backup.py over services/attendance_engine.py).       *)
(*                                                                         *)
(* A request reads in one step and writes in a later one.  With SQLite the *)
(* first flush takes the write lock and the commit gives it back, so what  *)
(* lies between is one action; what was read before it may be stale, and a *)
(* status that equals the one read is not written.  Times are left out     *)
(* but for being set, and lateness is a choice between two statuses.       *)
(***************************************************************************)
EXTENDS Naturals, Sequences, FiniteSets

CONSTANTS
    Students,
    Requests,
    Kind,       \* what each request does
    Target,     \* its students: one, or the list of a bulk update
    Enrollments \* the enrollments of the students there may be at first

Kinds == {"check_in", "override", "bulk", "checkout"}

Enrollment == {"none", "active", "withdrawn"}

ASSUME RequestAssumption ==
    /\ Enrollments \subseteq [Students -> Enrollment]
    /\ Kind \in [Requests -> Kinds]
    /\ Target \in [Requests -> Seq(Students)]
    /\ \A o \in Requests :
         /\ Target[o] # <<>>
         /\ Kind[o] # "bulk" => Len(Target[o]) = 1
         /\ \A i, j \in DOMAIN Target[o] : Target[o][i] = Target[o][j] => i = j

VARIABLES
    records,    \* the committed table, each row with its audit trail
    enrollment, \* of each student in the class of the session
    pc, at,     \* how far a request is, and with which of its students
    seen,       \* the row it has read, and the status then
    failed,     \* the students a bulk update has skipped
    answer,
    disturbed   \* history: students two requests worked on at a time

attendancevars == <<records, enrollment, pc, at, seen, failed, answer, disturbed>>

Status == {"present", "late", "absent", "excused"}

Audit == [by : Requests, action : {"create", "update_status", "bulk_update"},
          old : Status \cup {"null"}, new : Status]

Row == [student : Students, status : Status, checked_in : BOOLEAN, checked_out : BOOLEAN,
        manual : BOOLEAN, trail : Seq(Audit)]

NoRow == [id |-> 0, status |-> "null"]

AttendanceTypeOK ==
    /\ records \in Seq(Row)
    /\ enrollment \in [Students -> Enrollment]
    /\ pc \in [Requests -> {"idle", "read", "write", "refresh", "done"}]
    /\ at \in [Requests -> Nat] /\ \A o \in Requests : at[o] \in DOMAIN Target[o]
    /\ seen \in [Requests -> [id : Nat, status : Status \cup {"null"}]]
    /\ failed \in [Requests -> SUBSET Students]
    /\ answer \in [Requests -> {"none", "ok", "already", "refused", "error"}]
    /\ disturbed \in SUBSET Students

AttendanceInit ==
    /\ records = <<>>
    /\ enrollment \in Enrollments
    /\ pc = [o \in Requests |-> "idle"]
    /\ at = [o \in Requests |-> 1]
    /\ seen = [o \in Requests |-> NoRow]
    /\ failed = [o \in Requests |-> {}]
    /\ answer = [o \in Requests |-> "none"]
    /\ disturbed = {}

Person(o) == Target[o][at[o]]

Rows(s) == {i \in DOMAIN records : records[i].student = s}

\* scalar_one_or_none raises.
Twice(S) == Cardinality(S) > 1

-------------------------------------------------------------------------------
(* The steps of a request.                                                 *)

Finish(o, how) ==
    /\ pc' = [pc EXCEPT ![o] = "done"]
    /\ answer' = [answer EXCEPT ![o] = how]

Working(o) == pc[o] \in {"read", "write"}

Everyone(o) == {Target[o][i] : i \in DOMAIN Target[o]}

Begin(o) ==
    /\ pc[o] = "idle"
    /\ pc' = [pc EXCEPT ![o] = "read"]
    /\ disturbed' = disturbed \cup
         {s \in Everyone(o) : \E p \in Requests \ {o} : Working(p) /\ s \in Everyone(p)}
    /\ UNCHANGED <<records, enrollment, at, seen, failed, answer>>

\* A bad code or token, a session that has ended, no late joins, no teacher.
Refused(o) ==
    /\ pc[o] = "read" /\ at[o] = 1
    /\ Finish(o, "refused")
    /\ UNCHANGED <<records, enrollment, at, seen, failed, disturbed>>

\* Any exception, such as "database is locked", rolls back what is not
\* committed.  A refresh that fails after the commit is answered the same way.
Fails(o) ==
    /\ pc[o] \notin {"idle", "done"}
    /\ Finish(o, "error")
    /\ UNCHANGED <<records, enrollment, at, seen, failed, disturbed>>

\* The look-up has found at most one of the rows S, which is worked on next.
Found(o, S) ==
    /\ ~Twice(S)
    /\ pc' = [pc EXCEPT ![o] = "write"]
    /\ seen' = [seen EXCEPT ![o] =
         IF S = {} THEN NoRow
         ELSE LET i == CHOOSE i \in S : TRUE IN [id |-> i, status |-> records[i].status]]
    /\ UNCHANGED <<records, enrollment, at, failed, answer, disturbed>>

Reading(o, kind) == pc[o] = "read" /\ Kind[o] = kind

ReadCheckIn(o) ==
    LET S == Rows(Person(o))
        done == \E i \in S : records[i].checked_in
    IN  /\ Reading(o, "check_in")
        /\ \/ ~done /\ Found(o, S)
           \/ /\ ~Twice(S) /\ done
              /\ Finish(o, "already")
              /\ UNCHANGED <<records, enrollment, at, seen, failed, disturbed>>

ReadOverride(o) ==
    /\ Reading(o, "override")
    /\ Found(o, Rows(Person(o)))

ReadCheckout(o) ==
    LET S == {i \in Rows(Person(o)) : ~records[i].checked_out}
    IN  /\ Reading(o, "checkout")
        /\ \/ S # {} /\ Found(o, S)
           \/ /\ S = {}
              /\ Finish(o, "refused")
              /\ UNCHANGED <<records, enrollment, at, seen, failed, disturbed>>

\* Mutant: the first of several rows is taken.
ReadBulk_First(o) ==
    /\ Reading(o, "bulk")
    /\ \E i \in Rows(Person(o)) : Found(o, {i})

ReadBulk(o) ==
    /\ Reading(o, "bulk")
    /\ Found(o, Rows(Person(o)))

\* A bulk update counts the student as failed and goes on to the next one.
SkipBulk(o) ==
    /\ Reading(o, "bulk")
    /\ Twice(Rows(Person(o)))
    /\ failed' = [failed EXCEPT ![o] = @ \cup {Person(o)}]
    /\ \/ /\ at[o] < Len(Target[o])
          /\ at' = [at EXCEPT ![o] = @ + 1]
          /\ UNCHANGED <<pc, answer>>
       \/ at[o] = Len(Target[o]) /\ Finish(o, "ok") /\ UNCHANGED at
    /\ UNCHANGED <<records, enrollment, seen, disturbed>>

-------------------------------------------------------------------------------
(* The engine.                                                             *)

\* Mutant: the old status and the new one change places.
AuditEntry_Swapped(o, action, old, new) == [by |-> o, action |-> action, old |-> new, new |-> old]

AuditEntry(o, action, old, new) == [by |-> o, action |-> action, old |-> old, new |-> new]

\* create_attendance_record.
Created(o, st, in, manual) ==
    [student |-> Person(o), status |-> st, checked_in |-> in, checked_out |-> FALSE,
     manual |-> manual, trail |-> <<AuditEntry(o, "create", "null", st)>>]

\* Mutant: the old status is taken after the assignment.
Updated_OldIsNew(o, row, old, st, manual) ==
    [row EXCEPT !.status = IF st = old THEN @ ELSE st,
                !.manual = @ \/ manual,
                !.trail = Append(@, AuditEntry(o, "update_status", st, st))]

\* Mutant: a change made on behalf of the student is not logged.
Updated_Unlogged(o, row, old, st, manual) ==
    [row EXCEPT !.status = IF st = old THEN @ ELSE st,
                !.manual = @ \/ manual,
                !.trail = IF manual THEN Append(@, AuditEntry(o, "update_status", old, st)) ELSE @]

\* update_attendance_status of a row whose status was old when it was read.
Updated(o, row, old, st, manual) ==
    [row EXCEPT !.status = IF st = old THEN @ ELSE st,
                !.manual = @ \/ manual,
                !.trail = Append(@, AuditEntry(o, "update_status", old, st))]

\* With the audit of the bulk update, which takes its old status afterwards.
BulkUpdated(o, row, old, st) ==
    [Updated(o, row, old, st, TRUE) EXCEPT !.trail = Append(@, AuditEntry(o, "bulk_update", st, st))]

Writing(o, kind) == pc[o] = "write" /\ Kind[o] = kind

\* A check-in and an override read their row again before they answer.
Refreshes(o) == Kind[o] \in {"check_in", "override"}

Commit(o) ==
    /\ \/ Refreshes(o) /\ pc' = [pc EXCEPT ![o] = "refresh"] /\ UNCHANGED answer
       \/ ~Refreshes(o) /\ Finish(o, "ok")
    /\ UNCHANGED <<at, seen, disturbed>>

Refreshed(o) ==
    /\ pc[o] = "refresh"
    /\ Finish(o, "ok")
    /\ UNCHANGED <<records, enrollment, at, seen, failed, disturbed>>

\* The row read gets new contents, or a row that was not there is added.
Save(o, old, new) ==
    \/ /\ seen[o] # NoRow
       /\ records' = [records EXCEPT ![seen[o].id] = old]
    \/ seen[o] = NoRow /\ records' = Append(records, new)

Current(o) == records[seen[o].id]

\* Each student has one enrollment at most, so a second one, where the
\* first was withdrawn, fails with the commit: Fails is all that is left.
WriteCheckIn(o, st) ==
    /\ Writing(o, "check_in")
    /\ enrollment[Person(o)] # "withdrawn"
    /\ Save(o, [Updated(o, Current(o), seen[o].status, st, FALSE) EXCEPT !.checked_in = TRUE],
               Created(o, st, TRUE, FALSE))
    /\ enrollment' = [enrollment EXCEPT ![Person(o)] = "active"]
    /\ Commit(o)
    /\ UNCHANGED failed

WriteOverride(o, st) ==
    /\ Writing(o, "override")
    /\ Save(o, Updated(o, Current(o), seen[o].status, st, TRUE),
               Created(o, st, st # "absent", TRUE))
    /\ Commit(o)
    /\ UNCHANGED <<enrollment, failed>>

WriteCheckout(o) ==
    /\ Writing(o, "checkout")
    /\ records' = [records EXCEPT ![seen[o].id].checked_out = TRUE]
    /\ Commit(o)
    /\ UNCHANGED <<enrollment, failed>>

\* The students after the one whose row was read are looked up under the lock.
Rest(o) == {Target[o][i] : i \in at[o] + 1 .. Len(Target[o])}

\* Mutant: a student without a row is passed over.
WriteBulk_PassesOver(o, st) ==
    /\ Writing(o, "bulk")
    /\ seen[o] # NoRow
    /\ records' = [i \in DOMAIN records |->
         IF i = seen[o].id THEN BulkUpdated(o, records[i], seen[o].status, st)
         ELSE IF records[i].student \in Rest(o) /\ Rows(records[i].student) = {i}
         THEN BulkUpdated(o, records[i], records[i].status, st)
         ELSE records[i]]
    /\ failed' = [failed EXCEPT ![o] = @ \cup {s \in Rest(o) : Twice(Rows(s))}]
    /\ Commit(o)
    /\ UNCHANGED enrollment

\* A student without a row gets one, and an audit entry without a row to
\* refer to, whose flush fails: the session is of no more use, and Fails is
\* all that is left.
WriteBulk(o, st) ==
    /\ Writing(o, "bulk")
    /\ seen[o] # NoRow /\ \A s \in Rest(o) : Rows(s) # {}
    /\ records' = [i \in DOMAIN records |->
         IF i = seen[o].id THEN BulkUpdated(o, records[i], seen[o].status, st)
         ELSE IF records[i].student \in Rest(o) /\ Rows(records[i].student) = {i}
         THEN BulkUpdated(o, records[i], records[i].status, st)
         ELSE records[i]]
    /\ failed' = [failed EXCEPT ![o] = @ \cup {s \in Rest(o) : Twice(Rows(s))}]
    /\ Commit(o)
    /\ UNCHANGED enrollment

-------------------------------------------------------------------------------
Read(o) == ReadCheckIn(o) \/ ReadOverride(o) \/ ReadCheckout(o) \/ ReadBulk(o) \/ SkipBulk(o)

Write(o) ==
    \/ \E st \in {"present", "late"} : WriteCheckIn(o, st)
    \/ \E st \in Status : WriteOverride(o, st) \/ WriteBulk(o, st)
    \/ WriteCheckout(o)

AttendanceNext ==
    \E o \in Requests :
        Begin(o) \/ Refused(o) \/ Fails(o) \/ Read(o) \/ Write(o) \/ Refreshed(o)

AttendanceSpec == AttendanceInit /\ [][AttendanceNext]_attendancevars

-------------------------------------------------------------------------------
(* Where no two requests worked on a student at a time, the student has    *)
(* one row at most, and its trail is the exact history of its status: it   *)
(* begins with the creation, each change starts from the last one's        *)
(* status, and the last one's is the row's.  Duplicates, lost updates and  *)
(* gaps in the trail are all due to overlapping requests.                  *)
ExactUnlessDisturbed ==
    \A s \in Students \ disturbed :
        /\ ~Twice(Rows(s))
        /\ \A i \in Rows(s) :
             LET t == records[i].trail
             IN  /\ t[1].action = "create"
                 /\ \A k \in 2 .. Len(t) : t[k].old = t[k - 1].new
                 /\ records[i].status = t[Len(t)].new

(* However requests overlap, no status changes but with an entry for the   *)
(* change, by the request that commits: the trail loses order, never an    *)
(* author.                                                                 *)
ChangesLogged ==
    [][\A i \in DOMAIN records :
         records'[i].status # records[i].status =>
           \E k \in DOMAIN records'[i].trail \ DOMAIN records[i].trail :
             /\ records'[i].trail[k].new = records'[i].status
             /\ pc[records'[i].trail[k].by] = "write"
             /\ pc'[records'[i].trail[k].by] # "write"]_attendancevars

LoggedFor(o) ==
    {s \in Students : \E i \in Rows(s) :
        \E k \in DOMAIN records[i].trail : records[i].trail[k].by = o}

(* A request's work is there as a whole or not at all, whatever it is       *)
(* answered.  "ok" means that it has been logged for every student not      *)
(* reported as failed, and a refusal, or the failure of a bulk update, that *)
(* no row has a trace of it.  Only "error" to a check-in or an override     *)
(* leaves it open which: the commit may be behind it, the refresh not.      *)
AllOrNothing ==
    \A o \in Requests : Kind[o] # "checkout" =>
        /\ answer[o] = "ok" \/ pc[o] = "refresh" => LoggedFor(o) = Everyone(o) \ failed[o]
        /\ answer[o] \in {"already", "refused"} \/ pc[o] \in {"idle", "read", "write"} =>
             LoggedFor(o) = {}
        /\ answer[o] = "error" =>
             LoggedFor(o) = {} \/ (Refreshes(o) /\ LoggedFor(o) = Everyone(o))

(* Two rows of a student are beyond repair: once the requests that read    *)
(* the first one are through, nobody comes to change the status of either. *)
Frozen(s) ==
    /\ Twice(Rows(s))
    /\ \A o \in Requests : pc[o] = "write" /\ Kind[o] # "checkout" => Person(o) # s

DuplicatesFrozen ==
    [][\A s \in Students : Frozen(s) =>
         /\ Frozen(s)'
         /\ \A i \in Rows(s) : records'[i].status = records[i].status]_attendancevars
===============================================================================

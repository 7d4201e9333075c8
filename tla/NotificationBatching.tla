------------------------- MODULE NotificationBatching -------------------------
(***************************************************************************)
(* The notifications of one user that are collected in batches             *)
(* (services/notifications/batching_service.py), as notification_manager   *)
(* uses it: a notification is sent at once or added to a batch, a pass     *)
(* turns batches that are due into one combined notification each.         *)
(*                                                                         *)
(* Sending reads the preferences, and then inserts the notification: with  *)
(* SQLite it holds the write lock from there to its commit.  That is one   *)
(* action, which goes by the preferences as they were read: a change of    *)
(* them may overtake any of the senders under way.  A pass reads first:    *)
(* its list of batches, then the notifications of a batch; only then it    *)
(* takes the lock.  It works with the batches as it has read them.         *)
(* What is urgent, quiet hours and the frequency of notifications are a    *)
(* choice; time is that a batch gets due.                                  *)
(***************************************************************************)
EXTENDS Naturals, Sequences, FiniteSets

CONSTANTS
    Notices,        \* the notifications sent to the user
    Expirable,      \* those with an expires_at
    Passes,         \* sessions that process batches
    MaxBatchSize,   \* bound: the largest max_batch_size the user may set
    MaxErrors       \* bound: how often the database fails a sender

ASSUME BatchingAssumption ==
    /\ Expirable \subseteq Notices
    /\ MaxBatchSize \in Nat \ {0} /\ MaxErrors \in Nat

VARIABLES
    notices,    \* status and batch of each notification
    batches,    \* the batches in order of creation
    combined,   \* the combined notifications: their batch and what they report
    pass,       \* what each pass has read
    expiring,   \* the notifications a clean-up has read
    enabled,    \* batch_enabled
    size,       \* max_batch_size
    overtaken,  \* the preferences a sender has read, when they were changed since
    raised,     \* history: max_batch_size was raised
    dropped,    \* history: notifications accepted for a batch and added to none
    outdated,   \* history: those of them sent by a max_batch_size lowered since
    failing,    \* history: how often the database failed a sender
    shared,     \* history: batches two passes had in hand at a time
    late        \* history: notifications added to a batch in a pass's hands

preferences == <<enabled, size, raised>>
senders == <<overtaken, dropped, outdated, failing>>

batchingvars == <<notices, batches, combined, pass, expiring, preferences, senders, shared, late>>

Notice == [status : {"none", "pending", "sent", "failed", "expired"},
           batch : Nat]

Batch == [status : {"pending", "sent"}, count : Nat, due : BOOLEAN]

Preferences == [enabled : BOOLEAN, size : 0 .. MaxBatchSize]

\* No max_batch_size is 0.
NotOvertaken == [enabled |-> FALSE, size |-> 0]

\* No batch is 0.
Idle == [todo |-> {}, batch |-> 0, loaded |-> {}, unsent |-> {}]

Hands == [todo : SUBSET Nat, batch : Nat, loaded : SUBSET Notices, unsent : SUBSET Notices]

BatchingTypeOK ==
    /\ notices \in [Notices -> Notice]
    /\ batches \in Seq(Batch)
    /\ combined \in Seq([batch : Nat, of : SUBSET Notices])
    /\ pass \in [Passes -> Hands]
    /\ expiring \in SUBSET Notices
    /\ enabled \in BOOLEAN /\ size \in 1 .. MaxBatchSize /\ raised \in BOOLEAN
    /\ overtaken \in [Notices -> Preferences]
    /\ dropped \in SUBSET Notices /\ outdated \in SUBSET Notices /\ failing \in 0 .. MaxErrors
    /\ shared \in SUBSET Nat /\ late \in SUBSET Notices

BatchingInit ==
    /\ notices = [n \in Notices |-> [status |-> "none", batch |-> 0]]
    /\ batches = <<>> /\ combined = <<>>
    /\ pass = [p \in Passes |-> Idle]
    /\ expiring = {}
    /\ enabled \in BOOLEAN /\ size \in 1 .. MaxBatchSize /\ raised = FALSE
    /\ overtaken = [n \in Notices |-> NotOvertaken]
    /\ dropped = {} /\ outdated = {} /\ failing = 0
    /\ shared = {} /\ late = {}

NoticesOf(b) == {n \in Notices : notices[n].batch = b}

Pending == {b \in DOMAIN batches : batches[b].status = "pending"}

Open(max) == {b \in Pending : batches[b].count < max}

-------------------------------------------------------------------------------
(* Sending a notification.                                                 *)

New(n) == notices[n].status = "none" /\ n \notin dropped

HasRead(n) ==
    IF overtaken[n] = NotOvertaken THEN [enabled |-> enabled, size |-> size] ELSE overtaken[n]

\* The sender goes by the preferences it has read, and is done with them.
Goes(n) ==
    /\ New(n)
    /\ overtaken' = [overtaken EXCEPT ![n] = NotOvertaken]
    /\ UNCHANGED <<combined, pass, expiring, preferences, shared>>

DatabaseFails ==
    /\ failing < MaxErrors
    /\ failing' = failing + 1

\* The insert is rolled back, or committed by what the session does for the
\* next user.
Left(n) == \E how \in {"none", "pending"} : notices' = [notices EXCEPT ![n].status = how]

\* Notifications are off, there is no device, or something fails, and the
\* caller is told.
SendNothing(n) ==
    /\ Goes(n) /\ Left(n)
    /\ UNCHANGED <<batches, dropped, outdated, failing, late>>

Sent(n, How) ==
    /\ Goes(n)
    /\ \E how \in How : notices' = [notices EXCEPT ![n].status = how]
    /\ UNCHANGED <<batches, dropped, outdated, failing, late>>

\* Mutant: what the platforms accepted counts as delivered.
SendNow_Delivered(n) == Sent(n, {"delivered", "failed"})

\* Batching is off, the notification is urgent, or nothing speaks for a batch.
SendNow(n) == Sent(n, {"sent", "failed"})

BatchLoaded(b) == \E p \in Passes : pass[p].batch = b

\* One more, and due at once when it is full.
Counted(batch, max) == [batch EXCEPT !.count = @ + 1, !.due = @ \/ batch.count + 1 >= max]

Join(n, b) ==
    /\ Goes(n)
    /\ notices' = [notices EXCEPT ![n] = [status |-> "pending", batch |-> b]]
    /\ late' = IF BatchLoaded(b) THEN late \cup {n} ELSE late
    /\ UNCHANGED <<dropped, outdated, failing>>

AddToBatch(n, b) ==
    /\ HasRead(n).enabled /\ Open(HasRead(n).size) = {b}
    /\ batches' = [batches EXCEPT ![b] = Counted(@, HasRead(n).size)]
    /\ Join(n, b)

NewBatch == [status |-> "pending", count |-> 0, due |-> FALSE]

\* Mutant: a batch is created without a look for one that is pending.
AddToNewBatch_Always(n) ==
    /\ HasRead(n).enabled
    /\ batches' = Append(batches, Counted(NewBatch, HasRead(n).size))
    /\ Join(n, Len(batches) + 1)

AddToNewBatch(n) ==
    /\ HasRead(n).enabled /\ Open(HasRead(n).size) = {}
    /\ batches' = Append(batches, Counted(NewBatch, HasRead(n).size))
    /\ Join(n, Len(batches) + 1)

\* With two batches to choose from the look-up raises, or the database fails:
\* nothing is added, though the caller is told of success.
AddFails(n) ==
    /\ HasRead(n).enabled /\ Goes(n) /\ Left(n)
    /\ \/ Cardinality(Open(HasRead(n).size)) > 1 /\ UNCHANGED failing
       \/ DatabaseFails
    /\ dropped' = dropped \cup {n}
    /\ outdated' = IF HasRead(n).size > size THEN outdated \cup {n} ELSE outdated
    /\ UNCHANGED <<batches, late>>

\* The user changes the preferences, when the senders of S have read them.
SetPreferences(on, max, S) ==
    /\ <<on, max>> # <<enabled, size>>
    /\ enabled' = on /\ size' = max
    /\ raised' = (raised \/ max > size)
    /\ overtaken' = [n \in Notices |-> IF n \in S THEN HasRead(n) ELSE overtaken[n]]
    /\ UNCHANGED <<notices, batches, combined, pass, expiring, dropped, outdated, failing,
                   shared, late>>

-------------------------------------------------------------------------------
(* Passes over the batches.                                                *)

\* scheduled_at is reached.
GetsDue(b) ==
    /\ ~batches[b].due
    /\ batches' = [batches EXCEPT ![b].due = TRUE]
    /\ UNCHANGED <<notices, combined, pass, expiring, preferences, senders, shared, late>>

Held == UNION {pass[p].todo \cup {pass[p].batch} : p \in Passes}

\* Mutant: batches that were sent are found again.
Ready_AnyStatus == {b \in DOMAIN batches : batches[b].due /\ batches[b].count > 0}

Ready == {b \in Pending : batches[b].due /\ batches[b].count > 0}

BeginPass(p, S) ==
    /\ pass[p] = Idle /\ S # {}
    /\ pass' = [pass EXCEPT ![p].todo = S]
    /\ shared' = shared \cup (S \cap Held)
    /\ UNCHANGED <<notices, batches, combined, expiring, preferences, senders, late>>

ProcessReadyBatches(p) == BeginPass(p, Ready)

ForceSendBatch(p, b) == b \in Pending /\ BeginPass(p, {b})

LoadBatch(p, b) ==
    /\ b \in pass[p].todo /\ pass[p].batch = 0
    /\ pass' = [pass EXCEPT ![p] =
         [todo |-> @.todo \ {b}, batch |-> b, loaded |-> NoticesOf(b),
          unsent |-> {n \in NoticesOf(b) : notices[n].status # "sent"}]]
    /\ UNCHANGED <<notices, batches, combined, expiring, preferences, senders, shared, late>>

Release(p) == pass' = [pass EXCEPT ![p] = [@ EXCEPT !.batch = 0, !.loaded = {}, !.unsent = {}]]

\* Mutant: every notification of the batch is marked, by its batch_id.
Reported_All(p) == NoticesOf(pass[p].batch)

\* Of the notifications that were loaded, those not sent by then are marked.
Reported(p) == pass[p].unsent

\* The combined notification is pending, and has no scheduled_at to be found by.
ProcessBatch(p) ==
    LET b == pass[p].batch
    IN  /\ b # 0
        /\ combined' = Append(combined, [batch |-> b, of |-> pass[p].loaded])
        /\ batches' = [batches EXCEPT ![b].status = "sent"]
        /\ notices' = [n \in Notices |->
             IF n \in Reported(p) THEN [notices[n] EXCEPT !.status = "sent"] ELSE notices[n]]
        /\ Release(p)
        /\ UNCHANGED <<expiring, preferences, senders, shared, late>>

\* A rollback expires all batches of the session, and the pass fails with
\* the next look at one.
PassFails(p) ==
    /\ pass[p] # Idle
    /\ pass' = [pass EXCEPT ![p] = Idle]
    /\ UNCHANGED <<notices, batches, combined, expiring, preferences, senders, shared, late>>

-------------------------------------------------------------------------------
(* The clean-up of expired notifications reads first, too.                 *)

FindExpired(S) ==
    /\ expiring = {} /\ S # {}
    /\ \A n \in S : notices[n].status = "pending"
    /\ expiring' = S
    /\ UNCHANGED <<notices, batches, combined, pass, preferences, senders, shared, late>>

MarkExpired ==
    /\ expiring # {}
    /\ expiring' = {}
    /\ notices' = [n \in Notices |->
         IF n \in expiring THEN [notices[n] EXCEPT !.status = "expired"] ELSE notices[n]]
    /\ UNCHANGED <<batches, combined, pass, preferences, senders, shared, late>>

-------------------------------------------------------------------------------
NotifyUser(n) ==
    \/ SendNothing(n) \/ SendNow(n) \/ AddToNewBatch(n) \/ AddFails(n)
    \/ \E b \in DOMAIN batches : AddToBatch(n, b)

PassStep(p) ==
    \/ ProcessReadyBatches(p) \/ ProcessBatch(p) \/ PassFails(p)
    \/ \E b \in DOMAIN batches : ForceSendBatch(p, b) \/ LoadBatch(p, b)

BatchingNext ==
    \/ \E n \in Notices : NotifyUser(n)
    \/ \E on \in BOOLEAN, max \in 1 .. MaxBatchSize, S \in SUBSET {n \in Notices : New(n)} :
          SetPreferences(on, max, S)
    \/ \E b \in DOMAIN batches : GetsDue(b)
    \/ \E p \in Passes : PassStep(p)
    \/ \E S \in SUBSET Expirable : FindExpired(S)
    \/ MarkExpired

BatchingSpec == BatchingInit /\ [][BatchingNext]_batchingvars

-------------------------------------------------------------------------------
(* What was accepted for a batch is in one, but for one notification for   *)
(* each failure of the database, as long as the user never raised          *)
(* max_batch_size, which opens a batch that was full beside the one that   *)
(* followed it, and no sender goes by a larger one than the user has now.  *)
NoneDropped == ~raised => Cardinality(dropped \ outdated) <= failing

(* notification_count is what the batch holds: one at least, and no more   *)
(* than max_batch_size ever allowed.                                       *)
CountsExact ==
    \A b \in DOMAIN batches :
        /\ batches[b].count = Cardinality(NoticesOf(b))
        /\ batches[b].count \in 1 .. MaxBatchSize

(* A batch is combined twice only when two passes had it in hand at a time.*)
CombinedOnce ==
    \A i, j \in DOMAIN combined :
        i # j /\ combined[i].batch = combined[j].batch => combined[i].batch \in shared

(* Every notification of a batch that was sent is reported to the user,    *)
(* and none is marked as sent without, whatever is added, expires or is    *)
(* combined meanwhile.  One added while a pass had the batch loaded may be *)
(* left out, and no pass comes back for it.                                *)
AllReported ==
    \A n \in Notices :
        LET b == notices[n].batch
            reported == \E i \in DOMAIN combined : combined[i].batch = b /\ n \in combined[i].of
        IN  b # 0 =>
              /\ batches[b].status = "sent" => reported \/ n \in late
              /\ notices[n].status = "sent" => reported
===============================================================================

--------------------------- MODULE RequestLifecycle ---------------------------
(***************************************************************************)
(* What the request queue promises of every request: it is accepted once,  *)
(* tried at most MaxRetries + 1 times, and settled once, for good.  It is  *)
(* a success only after a try, a failure only after the last one.  When it *)
(* is settled it is not tried any more, unless it was cancelled: the queue *)
(* may not know of that yet.                                               *)
(***************************************************************************)
EXTENDS Naturals

CONSTANTS Requests, MaxRetries

VARIABLES
    status,     \* the caller's view of each request
    tries       \* how often it was given to the processor

lvars == <<status, tries>>

Init ==
    /\ status = [r \in Requests |-> "none"]
    /\ tries = [r \in Requests |-> 0]

Accept(r) ==
    /\ status[r] = "none"
    /\ status' = [status EXCEPT ![r] = "pending"]
    /\ UNCHANGED tries

Try(r) ==
    /\ status[r] \in {"pending", "cancelled"}
    /\ tries[r] <= MaxRetries
    /\ tries' = [tries EXCEPT ![r] = @ + 1]
    /\ UNCHANGED status

Outcomes(r) ==
    {"expired", "cancelled"}
    \cup (IF tries[r] > 0 THEN {"ok"} ELSE {})
    \cup (IF tries[r] = MaxRetries + 1 THEN {"failed"} ELSE {})

\* Stopping the queue settles several requests at once.
Settle ==
    /\ \E S \in SUBSET {r \in Requests : status[r] = "pending"} :
         status' \in {s \in [Requests -> {status[r] : r \in Requests}
                                         \cup {"ok", "failed", "expired", "cancelled"}] :
                        \A r \in Requests : IF r \in S THEN s[r] \in Outcomes(r)
                                            ELSE s[r] = status[r]}
    /\ UNCHANGED tries

Next == Settle \/ \E r \in Requests : Accept(r) \/ Try(r)

Spec == Init /\ [][Next]_lvars
===============================================================================

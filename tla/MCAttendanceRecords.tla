------------------------ MODULE MCAttendanceRecords ------------------------
(* AttendanceRecords with a check-in, an override and a checkout of one    *)
(* student, a check-in of another, and a bulk update of both, for TLC.     *)
EXTENDS AttendanceRecords, TLC

CONSTANTS ann, bob, tap, fix, leave, other, all

MCKind == (tap :> "check_in") @@ (fix :> "override") @@ (leave :> "checkout")
            @@ (other :> "check_in") @@ (all :> "bulk")

MCTarget == [o \in Requests |-> IF o = all THEN <<ann, bob>>
                               ELSE IF o = other THEN <<bob>> ELSE <<ann>>]

MCEnrollments == {(ann :> "none") @@ (bob :> "active"), (ann :> "withdrawn") @@ (bob :> "none")}
===============================================================================

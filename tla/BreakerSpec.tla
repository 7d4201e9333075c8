------------------------------ MODULE BreakerSpec -----------------------------
(***************************************************************************)
(* What a circuit breaker promises its callers, with no lock, no timer and *)
(* one counter: it opens on exactly FailureThreshold failures in a row,    *)
(* refuses calls while open, lets calls probe one at a time once it is     *)
(* half open, and closes on SuccessThreshold probes in a row that succeed. *)
(***************************************************************************)
EXTENDS Naturals

CONSTANTS FailureThreshold, SuccessThreshold

VARIABLES
    mode,      \* closed, open or half_open
    run,       \* closed: failures in a row; half open: successes in a row
    call       \* the latest protected call: running, or how it ended

bvars == <<mode, run, call>>

Init == mode = "closed" /\ run = 0 /\ call = "none"

Begin ==
    /\ call # "running"
    /\ call' = "running"
    /\ IF mode = "open" THEN mode' = "half_open" /\ run' = 0
                        ELSE UNCHANGED <<mode, run>>

Ends(how) == call = "running" /\ call' = how

Abandon == Ends("abandoned") /\ UNCHANGED <<mode, run>>

Succeed ==
    /\ Ends("succeeded")
    /\ \/ mode = "closed" /\ run' = 0 /\ UNCHANGED mode
       \/ /\ mode = "half_open"
          /\ IF run + 1 = SuccessThreshold
             THEN mode' = "closed" /\ run' = 0
             ELSE run' = run + 1 /\ UNCHANGED mode

Fail ==
    /\ Ends("failed")
    /\ \/ mode = "half_open" /\ mode' = "open" /\ run' = 0
       \/ /\ mode = "closed"
          /\ IF run + 1 = FailureThreshold
             THEN mode' = "open" /\ run' = 0
             ELSE run' = run + 1 /\ UNCHANGED mode

Override ==
    /\ call # "running"
    /\ mode' \in {"open", "closed"}
    /\ run' = 0
    /\ UNCHANGED call

Next == Begin \/ Abandon \/ Succeed \/ Fail \/ Override

Spec == Init /\ [][Next]_bvars

===============================================================================

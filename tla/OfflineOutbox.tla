----------------------------- MODULE OfflineOutbox -----------------------------
(***************************************************************************)
(* What the offline queue promises of each operation: once queued it is    *)
(* held until the server has applied it, or until it is given up as        *)
(* failed, and either outcome is final.                                    *)
(***************************************************************************)
CONSTANT Ops

VARIABLES
    stage,      \* each operation as its author sees it
    applied     \* operations the server has applied

ovars == <<stage, applied>>

Init ==
    /\ stage = [o \in Ops |-> "none"]
    /\ applied = {}

Move(o, from, to) ==
    /\ stage[o] = from
    /\ stage' = [stage EXCEPT ![o] = to]
    /\ UNCHANGED applied

Queue(o) == Move(o, "none", "queued")

Acknowledge(o) == o \in applied /\ Move(o, "queued", "done")

GiveUp(o) == Move(o, "queued", "failed")

Apply(S) ==
    /\ \A o \in S : stage[o] = "queued"
    /\ applied' = applied \cup S
    /\ UNCHANGED stage

Next ==
    \/ \E o \in Ops : Queue(o) \/ Acknowledge(o) \/ GiveUp(o)
    \/ \E S \in SUBSET Ops : Apply(S)

Spec == Init /\ [][Next]_ovars
===============================================================================

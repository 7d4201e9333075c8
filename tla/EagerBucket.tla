------------------------------ MODULE EagerBucket ------------------------------
(***************************************************************************)
(* What a token bucket promises: a level that rises by one unit with every *)
(* tick of the clock up to the capacity, and falls by Cost units for every *)
(* token taken.                                                            *)
(***************************************************************************)
EXTENDS Naturals

CONSTANTS
    Capacity,   \* units a full bucket holds
    Cost        \* units, and so ticks, of one token

VARIABLES level, now, spent

bucket == <<level, now, spent>>

Init == level = Capacity /\ now = 0 /\ spent = 0

Tick ==
    /\ now' = now + 1
    /\ level' = IF level < Capacity THEN level + 1 ELSE level
    /\ UNCHANGED spent

\* k tokens are taken together.
Take(k) ==
    /\ k * Cost <= level
    /\ level' = level - k * Cost
    /\ spent' = spent + k
    /\ UNCHANGED now

Next == Tick \/ \E k \in 0 .. level : Take(k)

Spec == Init /\ [][Next]_bucket
===============================================================================

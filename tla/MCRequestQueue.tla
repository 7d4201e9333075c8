---------------------------- MODULE MCRequestQueue ----------------------------
(* RequestQueue on a request of each of two providers, for TLC. *)
EXTENDS RequestQueue, TLC

CONSTANTS r1, r2, power, skyward

MCProvider == [r \in Requests |-> IF r = r1 THEN power ELSE skyward]
MCPriority == [r \in Requests |-> IF r = r1 THEN 4 ELSE 2]
===============================================================================

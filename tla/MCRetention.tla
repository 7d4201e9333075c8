------------------------------ MODULE MCRetention ------------------------------
(* Retention with two records and two engines, one of them a daemon's, for TLC. *)
EXTENDS Retention

CONSTANTS ann, bob, e1, e2

MCPolicies == {[active |-> TRUE, auto |-> a, warns |-> TRUE] : a \in BOOLEAN}
===============================================================================

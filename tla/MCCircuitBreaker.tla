---------------------------- MODULE MCCircuitBreaker ---------------------------
(* CircuitBreaker on three tasks, for TLC. *)
EXTENDS CircuitBreaker, TLC
===============================================================================

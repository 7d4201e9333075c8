----------------------------- MODULE MCRateLimiter -----------------------------
(* RateLimiter with a bucket of one token and a half, for TLC. *)
EXTENDS RateLimiter
===============================================================================

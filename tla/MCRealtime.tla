------------------------------ MODULE MCRealtime ------------------------------
(* Realtime with two sockets, one after or beside the other, for TLC. *)
EXTENDS Realtime
===============================================================================

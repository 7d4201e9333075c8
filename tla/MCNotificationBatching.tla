------------------------ MODULE MCNotificationBatching ------------------------
(* NotificationBatching with two passes at a time, for TLC. *)
EXTENDS NotificationBatching, TLC

CONSTANTS n1, n2, n3

Interchangeable == Permutations({n2, n3}) \cup Permutations(Passes)
===============================================================================

--------------------------- MODULE MCConnectionPool ---------------------------
(* ConnectionPool with an id for two sockets and an id for one, for TLC. *)
EXTENDS ConnectionPool

CONSTANTS s1, s2, s3, page, tab

MCId == [s \in Sockets |-> IF s = s3 THEN tab ELSE page]
===============================================================================

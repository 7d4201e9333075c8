----------------------------- MODULE MCApiGateway -----------------------------
(* ApiGateway on small sets of clients and endpoints, for TLC. *)
EXTENDS ApiGateway, TLC
===============================================================================

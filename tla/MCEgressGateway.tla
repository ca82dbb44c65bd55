--------------------------- MODULE MCEgressGateway ---------------------------
(* EgressGateway with an operation that may reach public addresses only, through  *)
(* a proxy that carries no IPv6, a Bench send that may reach any destination, and *)
(* two connections for one slot.                                                  *)
EXTENDS EgressGateway, TLC

CONSTANTS l1, l2, c1, c2, n1, pub4, alt4, pub6, int4
=============================================================================

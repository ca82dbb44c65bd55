---------------------------- MODULE MCVoyageScans ----------------------------
(* VoyageScans with two requests for the same domain. *)
EXTENDS VoyageScans, TLC

CONSTANTS r1, r2
=============================================================================

---------------------------- MODULE MCAmbuloScans ----------------------------
(* AmbuloScans with two requests for the same target and wordlist. *)
EXTENDS AmbuloScans, TLC

CONSTANTS r1, r2
Symmetry == Permutations(Requests)
=============================================================================

------------------------------ MODULE MCMcpScans ------------------------------
(* Two calls that start a scan and one that cancels. *)
EXTENDS McpScans, TLC

Symmetry == Permutations(Jobs)

===============================================================================

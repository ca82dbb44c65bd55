--------------------------- MODULE MCNodeOperations ---------------------------
(* NodeOperations for TLC. *)
EXTENDS NodeOperations, TLC

\* Message slots and copies are interchangeable. Operations are not: their types differ.
Symmetry == Permutations(Msgs) \cup Permutations(Copies)
=============================================================================

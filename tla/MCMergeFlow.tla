----------------------------- MODULE MCMergeFlow -----------------------------
(* Small instances of MergeFlow for TLC. *)
EXTENDS MergeFlow, TLC

\* The loops and the operators are interchangeable (safety properties only).
Symmetry == Permutations(Loops) \cup Permutations(Users)
=============================================================================

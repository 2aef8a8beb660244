----------------------------- MODULE MCTaskStore -----------------------------
(* Small instances of TaskStore for TLC. *)
EXTENDS TaskStore, TLC

\* The processes, the ids and the keys are interchangeable.
Symmetry == Permutations(Clients) \cup Permutations(Ids)
=============================================================================

---------------------------- MODULE MCEventsFile ----------------------------
(* Small instances of EventsFile for TLC. *)
EXTENDS EventsFile, TLC

\* The writers are interchangeable (safety properties only).
Symmetry == Permutations(Writers)
=============================================================================

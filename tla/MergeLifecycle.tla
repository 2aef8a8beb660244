---------------------------- MODULE MergeLifecycle ----------------------------
(***************************************************************************)
(* What the merge queue promises about ONE loop: the life cycle drawn in   *)
(* merge_queue.rs (MergeState, and the "Invalid state transition" checks   *)
(* of the mark_* methods).  No log, no files, no concurrent clients: only  *)
(* the state that a reader of the queue sees for each loop.                *)
(*                                                                         *)
(*        absent --> queued <--> ... any state, by a new enqueue           *)
(*        queued, needs_review --> merging --> merged | needs_review       *)
(*        queued, needs_review --> discarded                               *)
(*                                                                         *)
(* The first line is the code's: enqueue asks for no state.  The comment   *)
(* of is_terminal says that merged and discarded are terminal, "no further *)
(* transitions possible" (merge_queue.rs:139); nothing enforces it.        *)
(***************************************************************************)
CONSTANT Loops

Absent == "absent"

\* MergeState, plus Absent for a loop that has no event in the log.
MergeStates == {"queued", "merging", "merged", "needs_review", "discarded"}

\* The states from which the method that records `e' accepts the transition.
AllowedFrom(e) ==
  CASE e = "merging"      -> {"queued", "needs_review"}
    [] e = "merged"       -> {"merging"}
    [] e = "needs_review" -> {"merging"}
    [] e = "discarded"    -> {"queued", "needs_review"}
    [] e = "queued"       -> MergeStates \cup {Absent}

-----------------------------------------------------------------------------
VARIABLE state

Init == state = [l \in Loops |-> Absent]

Move(l, e) ==
  /\ state[l] \in AllowedFrom(e)
  /\ state' = [state EXCEPT ![l] = e]

Next == \E l \in Loops, e \in MergeStates : Move(l, e)

Spec == Init /\ [][Next]_state
=============================================================================

------------------------------ MODULE MergeQueue ------------------------------
(***************************************************************************)
(* The merge queue of parallel loops (ralph-core/src/merge_queue.rs): an   *)
(* append-only JSONL file shared by every ralph process of a repository.   *)
(*                                                                         *)
(* A method that moves an entry first reads the whole file under a SHARED  *)
(* flock (get_entry), lets go of it, checks the state it saw, and then     *)
(* appends one line under an EXCLUSIVE flock (append_event).  Each flock   *)
(* section is atomic; the pair is not.  One client call is therefore two   *)
(* steps, Check and Write, with the accepted request kept in op[c].        *)
(* A refused check returns an error and changes nothing, so it is not a    *)
(* step.  A client may be killed between the two steps, or inside the      *)
(* second: writeln! hands the JSON text and the newline to the file in two *)
(* write calls.                                                            *)
(***************************************************************************)
EXTENDS Naturals, Sequences

CONSTANTS
  Loops,      \* ids of the worktree loops
  Clients,    \* processes that use the queue (loops, merge-ralphs, CLI, API)
  MaxLog,     \* bound on the number of lines ever written
  Idle        \* "no request in flight"

ASSUME MaxLogAssumption == MaxLog \in Nat

Absent == "absent"

\* MergeState / MergeEventType: a line of the log carries the state it sets.
MergeStates == {"queued", "merging", "merged", "needs_review", "discarded"}

Requests == [loop : Loops, event : MergeStates]

ASSUME IdleAssumption == Idle \notin Requests

\* A line of the file; nl says whether its newline was written.
Lines == [loop : Loops, event : MergeStates, nl : BOOLEAN]

VARIABLES
  log,        \* the contents of .ralph/merge-queue.jsonl
  op          \* op[c]: the request of c that passed its check and is not written

vars == <<log, op>>

-----------------------------------------------------------------------------
(* Reading the file *)

\* read_all_events fails as a whole on a line that holds two JSON objects,
\* which is what an append after a missing newline leaves behind.
Readable(lg) == \A i \in 1..Len(lg) : i < Len(lg) => lg[i].nl

\* derive_state: the last event of a loop is its state.
IsLastOf(lg, l, i) ==
  /\ i \in 1..Len(lg)
  /\ lg[i].loop = l
  /\ \A j \in 1..Len(lg) : lg[j].loop = l => j <= i

StateIn(lg, l) ==
  IF \E i \in 1..Len(lg) : lg[i].loop = l
  THEN lg[CHOOSE i \in 1..Len(lg) : IsLastOf(lg, l, i)].event
  ELSE Absent

\* Mutant: an outcome is refused only for an entry that is merged already.
AllowedFromUnmerged(e) ==
  CASE e = "merging"      -> {"queued", "needs_review"}
    [] e = "merged"       -> MergeStates \ {"merged"}
    [] e = "needs_review" -> MergeStates \ {"merged"}
    [] e = "discarded"    -> {"queued", "needs_review"}
    [] e = "queued"       -> MergeStates \cup {Absent}

\* Mutant: a loop can be discarded while it is being merged.
AllowedFromDiscardAny(e) ==
  CASE e = "merging"      -> {"queued", "needs_review"}
    [] e = "merged"       -> {"merging"}
    [] e = "needs_review" -> {"merging"}
    [] e = "discarded"    -> {"queued", "needs_review", "merging"}
    [] e = "queued"       -> MergeStates \cup {Absent}

\* The states each method accepts; enqueue asks nothing.
AllowedFrom(e) ==
  CASE e = "merging"      -> {"queued", "needs_review"}
    [] e = "merged"       -> {"merging"}
    [] e = "needs_review" -> {"merging"}
    [] e = "discarded"    -> {"queued", "needs_review"}
    [] e = "queued"       -> MergeStates \cup {Absent}

\* The outcome of get_entry and of the match that follows it: a queue that
\* cannot be read refuses everything.
Accepts(e, l) == Readable(log) /\ StateIn(log, l) \in AllowedFrom(e)

-----------------------------------------------------------------------------
Init ==
  /\ log = << >>
  /\ op = [c \in Clients |-> Idle]

\* First half of mark_merging, mark_merged, mark_needs_review and discard:
\* get_entry under the shared lock, and the match on the state it returned.
Check(c, e, l) ==
  /\ op[c] = Idle
  /\ e # "queued"
  /\ Accepts(e, l)
  /\ op' = [op EXCEPT ![c] = [loop |-> l, event |-> e]]
  /\ UNCHANGED log

\* Mutant: the event is written under the name of the Rust variant.
EnqueueMisnamed(c, l) ==
  /\ op[c] = Idle
  /\ op' = [op EXCEPT ![c] = [loop |-> l, event |-> "Queued"]]
  /\ UNCHANGED log

\* enqueue reads nothing before it appends.
Enqueue(c, l) ==
  /\ op[c] = Idle
  /\ op' = [op EXCEPT ![c] = [loop |-> l, event |-> "queued"]]
  /\ UNCHANGED log

Line(c, newline) ==
  [loop |-> op[c].loop, event |-> op[c].event, nl |-> newline]

\* append_event: seek to the end and write the line, under the exclusive lock.
Write(c) ==
  /\ op[c] # Idle
  /\ Len(log) < MaxLog
  /\ log' = Append(log, Line(c, TRUE))
  /\ op' = [op EXCEPT ![c] = Idle]

\* The client is killed after its check, before its append ...
CrashBeforeWrite(c) ==
  /\ op[c] # Idle
  /\ op' = [op EXCEPT ![c] = Idle]
  /\ UNCHANGED log

\* ... or between the two write calls of writeln!.
CrashInsideWrite(c) ==
  /\ op[c] # Idle
  /\ Len(log) < MaxLog
  /\ log' = Append(log, Line(c, FALSE))
  /\ op' = [op EXCEPT ![c] = Idle]

Request(c) ==
  \E l \in Loops : \/ \E e \in MergeStates : Check(c, e, l)
                   \/ Enqueue(c, l)

Next ==
  \E c \in Clients : \/ Request(c)
                     \/ Write(c)
                     \/ CrashBeforeWrite(c)
                     \/ CrashInsideWrite(c)

Spec == Init /\ [][Next]_vars

-----------------------------------------------------------------------------
(* Properties *)

TypeOK ==
  /\ log \in Seq(Lines)
  /\ Len(log) <= MaxLog
  /\ op \in [Clients -> Requests \cup {Idle}]

\* The log tells a story for each loop, whatever the interleaving: its first
\* event is the enqueue, and an outcome (merged, needs_review) is recorded only
\* after some process recorded that it was merging.  The checks of the mark_*
\* methods are made on an older log than the one that is appended to.
FirstIsQueued(lg) ==
  \A i \in 1..Len(lg) :
    \E j \in 1..i : lg[j].loop = lg[i].loop /\ lg[j].event = "queued"

OutcomeAfterMerging(lg) ==
  \A i \in 1..Len(lg) :
    lg[i].event \in {"merged", "needs_review"} =>
      \E j \in 1..i : j < i /\ lg[j].loop = lg[i].loop /\ lg[j].event = "merging"

StoryInOrder == FirstIsQueued(log) /\ OutcomeAfterMerging(log)

\* A client that has the queue for itself moves each loop along the life cycle
\* that the checks of the methods draw (true only without concurrent clients).
\* In it merged and discarded are not the end: enqueue checks nothing and takes
\* a loop back to queued from there, although is_terminal is documented as "no
\* further transitions possible" (merge_queue.rs:139).
Lifecycle == INSTANCE MergeLifecycle WITH
  state <- [l \in Loops |-> StateIn(log, l)]

FollowsLifecycle == Lifecycle!Spec
=============================================================================

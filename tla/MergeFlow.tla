------------------------------- MODULE MergeFlow -------------------------------
(***************************************************************************)
(* How the work of a parallel loop reaches the main branch.  It composes   *)
(* the merge queue (MergeQueue) with the processes that use it:            *)
(*                                                                         *)
(*   - worktree loops, which enqueue themselves when they complete         *)
(*     (loop_completion.rs);                                               *)
(*   - the in-place loops: the user's primary loop and the merge-ralphs,   *)
(*     all of them `ralph run' processes that wait for .ralph/loop.lock    *)
(*     (main.rs, loop_lock.rs) and hold it until they exit (loop_runner.rs);*)
(*   - `ralph loops discard|retry|merge' (loops.rs) and the API's          *)
(*     loop.merge (ralph-api/src/loop_domain.rs).                          *)
(*                                                                         *)
(* The agents are external: a merge-ralph's agent either merges the branch *)
(* of its loop and says so, or does not.  A process may be killed.         *)
(***************************************************************************)
EXTENDS Naturals, Sequences

CONSTANTS
  Loops,      \* ids of the worktree loops
  Users,      \* operators: each issues one command
  Commands,   \* the commands they may issue
  Primary,    \* the user's in-place loop
  MaxSpawn,   \* bound on the merge-ralphs spawned for one loop
  MaxKills,   \* bound on the processes killed
  MaxLog, Idle,
  Free        \* "nobody holds the loop lock"

ASSUME MaxSpawnAssumption == MaxSpawn \in Nat
ASSUME MaxKillsAssumption == MaxKills \in Nat
ASSUME MaxLogAssumption == MaxLog \in Nat
ASSUME CommandsAssumption ==
  Commands \subseteq {"discard", "retry", "merge", "api_merge", "api_force"}

\* <<l, k>> is the k-th merge-ralph spawned for l (RALPH_MERGE_LOOP_ID = l).
Ralphs == Loops \X (1..MaxSpawn)
InPlace == {Primary} \cup Ralphs
Processes == InPlace \cup Loops \cup Users

ASSUME ProcessesAssumption ==
  /\ Primary \notin Ralphs \cup Loops \cup Users
  /\ Loops \cap (Users \cup Ralphs) = {}
  /\ Users \cap Ralphs = {}
  /\ Free \notin Processes
  /\ Idle \notin [loop : Loops,
                  event : {"queued", "merging", "merged", "needs_review", "discarded"}]

VARIABLES
  log, op,    \* the merge queue: see MergeQueue
  holder,     \* who holds .ralph/loop.lock
  pc,         \* where each process is
  target,     \* the loop that a user's command is about
  branch,     \* branch ralph/<loop>: "live", "merged" into main, or "deleted"
  kills       \* processes killed so far

vars == <<log, op, holder, pc, target, branch, kills>>

Q == INSTANCE MergeQueue WITH Clients <- Processes

State(l) == Q!StateIn(log, l)

-----------------------------------------------------------------------------
Init ==
  /\ Q!Init
  /\ holder = Primary
  /\ pc = [p \in Processes |->
             IF p \in Ralphs THEN "unborn"
             ELSE IF p \in Users THEN "idle" ELSE "working"]
  /\ target = [u \in Users |-> Idle]
  /\ branch = [l \in Loops |-> "live"]
  /\ kills = 0

Goto(p, label) == pc' = [pc EXCEPT ![p] = label]

-----------------------------------------------------------------------------
(* Worktree loops: one process per loop id *)

\* LoopCompletionHandler with auto-merge: the loop enqueues itself and exits.
WorktreeCompletes(l) ==
  /\ pc[l] = "working"
  /\ Q!Enqueue(l, l)
  /\ Goto(l, "enqueuing")
  /\ UNCHANGED <<holder, target, branch, kills>>

WorktreeEnqueued(l) ==
  /\ pc[l] = "enqueuing"
  /\ Q!Write(l)
  /\ Goto(l, "exited")
  /\ UNCHANGED <<holder, target, branch, kills>>

\* Any other reason to terminate (or --no-auto-merge): nothing is enqueued.
WorktreeStops(l) ==
  /\ pc[l] = "working"
  /\ Goto(l, "exited")
  /\ UNCHANGED <<log, op, holder, target, branch, kills>>

-----------------------------------------------------------------------------
(* In-place loops *)

\* The merge-ralphs that a spawn for each loop of S brings to life, the pool
\* permitting (a spawn that fails is logged and the loop stays queued).
Spawned(S) ==
  {r \in Ralphs : /\ r[1] \in S
                  /\ pc[r] = "unborn"
                  /\ \A q \in Ralphs : q[1] = r[1] /\ pc[q] = "unborn" => r[2] <= q[2]}

\* p goes to label and the merge-ralphs of born start waiting for the lock.
GotoSpawning(p, label, born) ==
  pc' = [q \in Processes |-> IF q = p THEN label
                             ELSE IF q \in born THEN "waiting" ELSE pc[q]]

\* Mutant: the lock is taken without asking whether it is free.
AcquireLockUnchecked(r) ==
  /\ pc[r] = "waiting"
  /\ holder' = r
  /\ Goto(r, "starting")
  /\ UNCHANGED <<log, op, target, branch, kills>>

\* --exclusive: try_acquire, then acquire_blocking.  flock promises no order.
AcquireLock(r) ==
  /\ pc[r] = "waiting"
  /\ holder = Free
  /\ holder' = r
  /\ Goto(r, "starting")
  /\ UNCHANGED <<log, op, target, branch, kills>>

\* The run fails before the loop starts: the lock's metadata cannot be parsed,
\* the directories or the preflight checks fail.
StartFails(r) ==
  /\ pc[r] \in {"waiting", "starting"}
  /\ Goto(r, "dead")
  /\ holder' = IF pc[r] = "starting" THEN Free ELSE holder
  /\ UNCHANGED <<log, op, target, branch, kills>>

\* RALPH_MERGE_LOOP_ID is set: mark_merging ...
Claim(r) ==
  /\ pc[r] = "starting"
  /\ Q!Check(r, "merging", r[1])
  /\ Goto(r, "claiming")
  /\ UNCHANGED <<holder, target, branch, kills>>

Claimed(r) ==
  /\ pc[r] = "claiming"
  /\ Q!Write(r)
  /\ Goto(r, "working")
  /\ UNCHANGED <<holder, target, branch, kills>>

\* ... and a refusal is logged, and the run goes on all the same.
ClaimRefused(r) ==
  /\ pc[r] = "starting"
  /\ ~Q!Accepts("merging", r[1])
  /\ Goto(r, "working")
  /\ UNCHANGED <<log, op, holder, target, branch, kills>>

\* The agent merges ralph/<loop> into main, if the branch is still there.
AgentMerges(r) ==
  /\ r \in Ralphs
  /\ pc[r] = "working"
  /\ branch[r[1]] = "live"
  /\ branch' = [branch EXCEPT ![r[1]] = "merged"]
  /\ UNCHANGED <<log, op, holder, pc, target, kills>>

\* TerminationReason::CompletionPromise.
Finish(p) ==
  /\ pc[p] = "working"
  /\ p \in Ralphs => branch[p[1]] = "merged"
  /\ Goto(p, IF p \in Ralphs THEN "landing_ok" ELSE "processing")
  /\ UNCHANGED <<log, op, holder, target, branch, kills>>

\* Mutant: a run that gave up returns without handle_termination.
GiveUpUnrecorded(p) ==
  /\ pc[p] = "working"
  /\ Goto(p, "exiting")
  /\ UNCHANGED <<log, op, holder, target, branch, kills>>

\* Every other termination reason.
GiveUp(p) ==
  /\ pc[p] = "working"
  /\ Goto(p, IF p \in Ralphs THEN "landing_bad" ELSE "exiting")
  /\ UNCHANGED <<log, op, holder, target, branch, kills>>

\* An error ends the run past handle_termination (every `?' of run_loop_impl:
\* agents, hooks, waves, history): the process is gone, its entry stays as it is.
Fails(r) ==
  /\ pc[r] = "working"
  /\ Goto(r, "dead")
  /\ holder' = Free
  /\ UNCHANGED <<log, op, target, branch, kills>>

\* Mutant: the termination reason is not looked at.
OutcomesUnconditional(p) == {"merged"}

\* handle_termination of a merge loop: mark_merged, or mark_needs_review when
\* the run did not complete or the commit's SHA cannot be resolved.
Outcomes(p) == IF pc[p] = "landing_ok" THEN {"merged", "needs_review"}
                                       ELSE {"needs_review"}

Land(r) ==
  /\ pc[r] \in {"landing_ok", "landing_bad"}
  /\ \E e \in Outcomes(r) : Q!Check(r, e, r[1])
  /\ Goto(r, IF pc[r] = "landing_ok" THEN "recording_ok" ELSE "recording_bad")
  /\ UNCHANGED <<holder, target, branch, kills>>

Landed(r) ==
  /\ pc[r] \in {"recording_ok", "recording_bad"}
  /\ Q!Write(r)
  /\ Goto(r, IF pc[r] = "recording_ok" THEN "processing" ELSE "exiting")
  /\ UNCHANGED <<holder, target, branch, kills>>

LandRefused(r) ==
  /\ pc[r] \in {"landing_ok", "landing_bad"}
  /\ \E e \in Outcomes(r) : ~Q!Accepts(e, r[1])
  /\ Goto(r, IF pc[r] = "landing_ok" THEN "processing" ELSE "exiting")
  /\ UNCHANGED <<log, op, holder, target, branch, kills>>

\* process_pending_merges: every completed in-place loop, merge-ralphs included,
\* spawns one merge-ralph for each queued entry it reads.
ProcessQueue(p) ==
  /\ pc[p] = "processing"
  /\ LET queued == IF Q!Readable(log)
                   THEN {l \in Loops : State(l) = "queued"} ELSE {}
     IN  GotoSpawning(p, "exiting", Spawned(queued))
  /\ UNCHANGED <<log, op, holder, target, branch, kills>>

\* Mutant: the lock outlives its process (a lock file instead of a flock).
ExitKeepsLock(p) ==
  /\ pc[p] = "exiting"
  /\ Goto(p, "exited")
  /\ UNCHANGED <<log, op, holder, target, branch, kills>>

\* The process exits and the kernel drops its flock.
Exit(p) ==
  /\ pc[p] = "exiting"
  /\ Goto(p, "exited")
  /\ holder' = Free
  /\ UNCHANGED <<log, op, target, branch, kills>>

-----------------------------------------------------------------------------
(* Operators *)

\* A process is gone: it returned, or it failed or was killed.
Ended == {"exited", "api_merged", "dead"}
Alive(p) == pc[p] \notin {"unborn"} \cup Ended

\* Mutant: the command remembers its own process id as the loop.
BeginSwapped(u, l, label) ==
  /\ pc[u] = "idle"
  /\ target' = [target EXCEPT ![u] = u]
  /\ Goto(u, label)

Begin(u, l, label) ==
  /\ pc[u] = "idle"
  /\ target' = [target EXCEPT ![u] = l]
  /\ Goto(u, label)

\* ralph loops discard: the queue entry first (if there is one) ...
DiscardCheck(u, l) ==
  /\ "discard" \in Commands
  /\ Begin(u, l, "discarding")
  /\ Q!Check(u, "discarded", l)
  /\ UNCHANGED <<holder, branch, kills>>

DiscardWrite(u) ==
  /\ pc[u] = "discarding"
  /\ Q!Write(u)
  /\ Goto(u, "removing")
  /\ UNCHANGED <<holder, target, branch, kills>>

DiscardAbsent(u, l) ==
  /\ "discard" \in Commands
  /\ Begin(u, l, "removing")
  /\ ~Q!Readable(log) \/ State(l) = Q!Absent
  /\ UNCHANGED <<log, op, holder, branch, kills>>

\* ... then the worktree and its branch.
DiscardRemove(u) ==
  /\ pc[u] = "removing"
  /\ Goto(u, "exited")
  /\ branch' = [branch EXCEPT ![target[u]] = IF @ = "live" THEN "deleted" ELSE @]
  /\ UNCHANGED <<log, op, holder, target, kills>>

\* ralph loops retry: only for an entry that needs review.
Retry(u, l) ==
  /\ "retry" \in Commands
  /\ pc[u] = "idle"
  /\ Q!Readable(log) /\ State(l) = "needs_review"
  /\ GotoSpawning(u, "exited", Spawned({l}))
  /\ UNCHANGED <<log, op, holder, target, branch, kills>>

\* ralph loops merge: refused while the loop runs or once it is settled; the
\* --force flag lets it through when the entry is being merged.
Merge(u, l) ==
  /\ "merge" \in Commands
  /\ pc[u] = "idle"
  /\ ~Alive(l)
  /\ Q!Readable(log) /\ State(l) \in {"queued", "needs_review", "merging"}
  /\ GotoSpawning(u, "exited", Spawned({l}))
  /\ UNCHANGED <<log, op, holder, target, branch, kills>>

\* A loop that never got into the queue but left its worktree is enqueued first.
MergeOrphan(u, l) ==
  /\ "merge" \in Commands
  /\ Begin(u, l, "adopting")
  /\ ~Alive(l)
  /\ ~Q!Readable(log) \/ State(l) = Q!Absent
  /\ branch[l] = "live"
  /\ Q!Enqueue(u, l)
  /\ UNCHANGED <<holder, branch, kills>>

MergeAdopted(u) ==
  /\ pc[u] = "adopting"
  /\ Q!Write(u)
  /\ GotoSpawning(u, "exited", Spawned({target[u]}))
  /\ UNCHANGED <<holder, target, branch, kills>>

\* loop.merge of the API: mark_merging with its own pid, then mark_merged with
\* the current HEAD.
ApiClaim(u, l) ==
  /\ "api_merge" \in Commands
  /\ Begin(u, l, "api_claiming")
  /\ Q!Check(u, "merging", l)
  /\ UNCHANGED <<holder, branch, kills>>

ApiClaimed(u) ==
  /\ pc[u] = "api_claiming"
  /\ Q!Write(u)
  /\ Goto(u, "api_claimed")
  /\ UNCHANGED <<holder, target, branch, kills>>

\* force: the entry is being merged by someone else.
ApiForce(u, l) ==
  /\ "api_force" \in Commands
  /\ Begin(u, l, "api_merging")
  /\ Q!Check(u, "merged", l)
  /\ UNCHANGED <<holder, branch, kills>>

ApiMerge(u) ==
  /\ pc[u] = "api_claimed"
  /\ \/ Q!Check(u, "merged", target[u]) /\ Goto(u, "api_merging")
     \/ ~Q!Accepts("merged", target[u]) /\ Goto(u, "exited") /\ UNCHANGED <<log, op>>
  /\ UNCHANGED <<holder, target, branch, kills>>

ApiMerged(u) ==
  /\ pc[u] = "api_merging"
  /\ Q!Write(u)
  /\ Goto(u, "api_merged")
  /\ UNCHANGED <<holder, target, branch, kills>>

-----------------------------------------------------------------------------
\* SIGKILL (`ralph loops stop --force'), power loss: the lock is released by
\* the kernel; a request in flight is lost, written, or written without newline.
Kill(p) ==
  /\ p \notin Users /\ Alive(p)
  /\ kills < MaxKills
  /\ kills' = kills + 1
  /\ Goto(p, "dead")
  /\ holder' = IF holder = p THEN Free ELSE holder
  /\ \/ op[p] = Idle /\ UNCHANGED <<log, op>>
     \/ Q!CrashBeforeWrite(p)
     \/ Q!CrashInsideWrite(p)
  /\ UNCHANGED <<target, branch>>

WorktreeStep(l) == WorktreeCompletes(l) \/ WorktreeEnqueued(l) \/ WorktreeStops(l)

\* What a merge-ralph does next, luck and its agent's choices apart.
RalphStep(r) ==
  \/ Claim(r) \/ Claimed(r) \/ ClaimRefused(r)
  \/ Land(r) \/ Landed(r) \/ LandRefused(r)

InPlaceStep(p) ==
  \/ p \in Ralphs /\ RalphStep(p)
  \/ Finish(p) \/ GiveUp(p) \/ ProcessQueue(p) \/ Exit(p)

Command(u, l) ==
  \/ DiscardCheck(u, l) \/ DiscardAbsent(u, l) \/ Retry(u, l)
  \/ Merge(u, l) \/ MergeOrphan(u, l) \/ ApiClaim(u, l) \/ ApiForce(u, l)

CommandStep(u) ==
  \/ DiscardWrite(u) \/ DiscardRemove(u) \/ MergeAdopted(u)
  \/ ApiClaimed(u) \/ ApiMerge(u) \/ ApiMerged(u)

Next ==
  \/ \E l \in Loops : WorktreeStep(l)
  \/ \E p \in InPlace : InPlaceStep(p)
  \/ \E r \in Ralphs : AcquireLock(r) \/ StartFails(r) \/ AgentMerges(r) \/ Fails(r)
  \/ \E u \in Users : CommandStep(u) \/ \E l \in Loops : Command(u, l)
  \/ \E p \in Processes : Kill(p)

Spec == Init /\ [][Next]_vars

\* Running processes keep running: a loop ends at the latest at its iteration
\* or runtime limit, a started command runs to its end, and the kernel hands a
\* released flock to each waiter in the end.  Nothing makes an operator act,
\* an agent merge, a start or a run fail, or a new primary loop start.
Fairness ==
  /\ \A l \in Loops : WF_vars(WorktreeStep(l))
  /\ \A p \in InPlace : WF_vars(InPlaceStep(p))
  /\ \A r \in Ralphs : SF_vars(AcquireLock(r))
  /\ \A u \in Users : WF_vars(CommandStep(u))

FairSpec == Spec /\ Fairness

-----------------------------------------------------------------------------
(* Properties *)

PCs == {"unborn", "idle", "waiting", "starting", "claiming", "working", "landing_ok",
        "landing_bad", "recording_ok", "recording_bad", "processing", "exiting",
        "exited", "dead", "enqueuing", "discarding", "removing", "adopting",
        "api_claiming", "api_claimed", "api_merging", "api_merged"}

TypeOK ==
  /\ Q!TypeOK
  /\ holder \in InPlace \cup {Free}
  /\ pc \in [Processes -> PCs]
  /\ target \in [Users -> Loops \cup {Idle}]
  /\ branch \in [Loops -> {"live", "merged", "deleted"}]
  /\ kills \in 0..MaxKills

\* Only the holder of the loop lock works in the main checkout: two in-place
\* loops are never past the lock together, whoever was killed or restarted.
InsideLock == {"starting", "claiming", "working", "landing_ok", "landing_bad",
               "recording_ok", "recording_bad", "processing", "exiting"}
OneInPlaceLoop == \A p \in InPlace : pc[p] \in InsideLock => holder = p

\* An entry reported as merged is one whose branch is in main, unless the API's
\* loop.merge reported it: a refused claim, a second merge-ralph for the same
\* loop, a crash or a race with discard does not make the queue lie.
MergedIsMerged ==
  \A l \in Loops : State(l) = "merged" =>
    branch[l] = "merged" \/ \E u \in Users : pc[u] = "api_merged" /\ target[u] = l

\* The queue's file tells each loop's story in order (see MergeQueue), whichever
\* of these processes race on it and wherever one of them is killed.
StoryInOrder == Q!StoryInOrder

\* A merge-ralph that was spawned gets its turn at the lock and ends.
SpawnedRalphsEnd ==
  \A r \in Ralphs : pc[r] = "waiting" ~> pc[r] \in Ended

\* p is on its way to settle l: its merge-ralph, or an API call that claims it.
Settles(p, l) ==
  \/ /\ p \in Ralphs /\ p[1] = l
     /\ pc[p] \in ({"waiting"} \cup InsideLock) \ {"processing", "exiting"}
  \/ /\ p \in Users /\ target[p] = l
     /\ pc[p] \in {"api_claiming", "api_claimed", "api_merging"}

\* An entry in merging is settled by whoever comes to settle it, even if it was
\* left there by another that was killed or failed and even if its own claim is
\* refused: unless it is killed or fails itself, or a kill inside a write has
\* made the queue unreadable.  An error after the claim leaves the entry in
\* merging with nobody to settle it: the code has no more to promise.
MergingIsResolved ==
  \A l \in Loops : \A p \in Ralphs \cup Users :
    Settles(p, l) /\ State(l) = "merging"
      ~> State(l) # "merging" \/ pc[p] = "dead" \/ ~Q!Readable(log)
=============================================================================

-------------------------------- MODULE Waves --------------------------------
(***************************************************************************)
(* Waves of workers in one loop.  `ralph wave emit' appends the events of a *)
(* wave to the events file; the loop reads them after the agent's turn     *)
(* (process_events_from_jsonl_with_waves), runs one worker for each in     *)
(* handle_wave_events and execute_wave of ralph-cli/src/loop_runner.rs,    *)
(* appends what the workers emitted to the same file and reads that.       *)
(*                                                                         *)
(* A worker is a task of the loop's runtime, an agent process and what the *)
(* agent leaves running behind it.  Waves can be dispatched at any time,   *)
(* by processes the agent left in the background too.  The events file can *)
(* be read and written, and a wave's lines are read all together: torn     *)
(* lines and rotated files are EventsFile's subject.                       *)
(***************************************************************************)
EXTENDS Naturals, FiniteSets

CONSTANTS
  Concurrency, \* of the hat the waves are for
  MaxTotal,    \* bound on the workers of a wave
  MaxWaves     \* bound on the waves dispatched

ASSUME WavesAssumption ==
  /\ Concurrency \in Nat \ {0} /\ MaxTotal \in Nat \ {0} /\ MaxWaves \in Nat

\* Wave ids begin with the time, so the order of dispatch is theirs.
Ids   == 1..MaxWaves
Slots == 0..(MaxTotal - 1)

VARIABLES
  pc,       \* where the loop is
  fate,     \* what has become of each wave
  total,    \* its number of events
  current,  \* the wave being executed
  acp,      \* its backend is an ACP one, not a process in a terminal
  spawned,  \* how many of its workers have been
  task,     \* the task of each worker
  proc,     \* its process
  timedOut, \* its time is over, and its task waits for it
  wrote,    \* there are events in its own events file
  outcome,  \* what its task returned
  cutoff,   \* the aggregate timeout ran out
  record    \* what the tracker holds for each worker

InWave == {"spawn", "collect", "report", "reread"}
Places == {"agent", "recover", "waves"} \cup InWave
\* ordinary: read as any events are.  answered: so are its answers.  refused:
\* the answers are replaced by scope violations.  redispatched: they were taken
\* for another wave.
Settled == {"ordinary", "answered", "unanswered", "refused", "redispatched", "lost"}
Fates   == {"none", "unread", "read", "running"} \cup Settled
\* stuck: it waits for a thread that waits for it.
Busy    == {"runs", "waits", "deaf", "stuck"}
\* stray: a process that was started and that no task knows of, ended or not.
Procs   == {"none", "agent", "tool", "stray", "gone"}
Outcomes == {"none", "events", "silent", "failure"}

workers == <<task, proc, timedOut, wrote, outcome>>
wave    == <<current, acp, spawned, cutoff, record>>
vars == <<pc, fate, total, workers, wave>>

TypeOK ==
  /\ pc \in Places
  /\ fate \in [Ids -> Fates] /\ total \in [Ids -> 0..MaxTotal]
  /\ current \in 0..MaxWaves /\ spawned \in 0..MaxTotal
  /\ task \in [Slots -> {"none", "ended"} \cup Busy]
  /\ proc \in [Slots -> Procs]
  /\ timedOut \in [Slots -> BOOLEAN] /\ wrote \in [Slots -> BOOLEAN]
  /\ outcome \in [Slots -> Outcomes] /\ record \in [Slots -> Outcomes]
  /\ {acp, cutoff} \subseteq BOOLEAN

Init ==
  /\ pc = "agent"
  /\ fate = [w \in Ids |-> "none"] /\ total = [w \in Ids |-> 0]
  /\ current = 0 /\ acp = FALSE /\ spawned = 0 /\ cutoff = FALSE
  /\ task = [i \in Slots |-> "none"] /\ proc = [i \in Slots |-> "none"]
  /\ timedOut = [i \in Slots |-> FALSE] /\ wrote = [i \in Slots |-> FALSE]
  /\ outcome = [i \in Slots |-> "none"] /\ record = [i \in Slots |-> "none"]

Of(w) == {i \in Slots : i < total[w]}

-----------------------------------------------------------------------------
(* The loop *)

\* `ralph wave emit' of an agent, or of a process one left behind.  A worker
\* is refused it.
Emit ==
  /\ \E w \in Ids, n \in 1..MaxTotal :
       /\ fate[w] = "none" /\ \A v \in Ids : v < w => fate[v] # "none"
       /\ fate' = [fate EXCEPT ![w] = "unread"]
       /\ total' = [total EXCEPT ![w] = n]
  /\ UNCHANGED <<pc, workers, wave>>

\* What is read of the file, and what becomes of it.
Read(f) == fate' = [w \in Ids |-> IF fate[w] = "unread" THEN f ELSE fate[w]]

\* After the turn: read, with the waves apart.  If there is no other event
\* and the output names `ralph emit', the loop goes on polling the file.
EndTurn ==
  /\ pc = "agent"
  /\ Read("read")
  /\ pc' \in {"recover", "waves"}
  /\ UNCHANGED <<total, workers, wave>>

\* recover_expected_emit_after_output: this reads waves as ordinary events.
Recover ==
  /\ pc = "recover"
  /\ Read("ordinary")
  /\ pc' = "waves"
  /\ UNCHANGED <<total, workers, wave>>

NoWave ==
  /\ pc = "waves" /\ \A w \in Ids : fate[w] # "read"
  /\ pc' = "agent"
  /\ UNCHANGED <<fate, total, workers, wave>>

\* detect_wave_events: the least of the ids; the other waves are gone.
Detect ==
  /\ pc = "waves"
  /\ \E w \in Ids :
       /\ fate[w] = "read" /\ \A v \in Ids : fate[v] = "read" => w <= v
       /\ current' = w /\ acp' \in BOOLEAN
       /\ fate' = [v \in Ids |-> CASE v = w           -> "running"
                                   [] fate[v] = "read" /\ v # w -> "lost"
                                   [] OTHER           -> fate[v]]
  /\ pc' = "spawn"
  /\ UNCHANGED <<total, workers, spawned, cutoff, record>>

\* Mutant: one worker more than there are events.
SpawnOneMore ==
  /\ pc = "spawn" /\ spawned <= total[current]
  /\ Cardinality({i \in Slots : task[i] \in Busy}) < Concurrency
  /\ task' = [task EXCEPT ![spawned] = "runs"] /\ proc' = [proc EXCEPT ![spawned] = "agent"]
  /\ spawned' = spawned + 1
  /\ UNCHANGED <<pc, fate, total, timedOut, wrote, outcome, current, acp, cutoff, record>>

\* What the start of a worker leaves: an agent, no process, or, if its terminal
\* cannot be read, one that goes on though its task is over.
Started == IF acp THEN {"agent", "gone"} ELSE {"agent", "gone", "stray"}

\* Mutant: the permit is held only while the output is read.
SpawnPermit ==
  /\ pc = "spawn" /\ spawned < total[current]
  /\ Cardinality({i \in Slots : task[i] = "runs"}) < Concurrency
  /\ \E p \in Started :
       /\ task' = [task EXCEPT ![spawned] = IF p = "agent" THEN "runs" ELSE "ended"]
       /\ proc' = [proc EXCEPT ![spawned] = p]
       /\ outcome' = [outcome EXCEPT ![spawned] = IF p = "agent" THEN "none" ELSE "failure"]
  /\ spawned' = spawned + 1
  /\ UNCHANGED <<pc, fate, total, timedOut, wrote, current, acp, cutoff, record>>

\* The loop itself waits for a permit, which a task holds until it ends.
Spawn ==
  /\ pc = "spawn" /\ spawned < total[current]
  /\ Cardinality({i \in Slots : task[i] \in Busy}) < Concurrency
  /\ \E p \in Started :
       /\ task' = [task EXCEPT ![spawned] = IF p = "agent" THEN "runs" ELSE "ended"]
       /\ proc' = [proc EXCEPT ![spawned] = p]
       /\ outcome' = [outcome EXCEPT ![spawned] = IF p = "agent" THEN "none" ELSE "failure"]
  /\ spawned' = spawned + 1
  /\ UNCHANGED <<pc, fate, total, timedOut, wrote, current, acp, cutoff, record>>

\* Mutant: the last worker is forgotten.
SpawnedAllLess ==
  /\ pc = "spawn" /\ spawned + 1 >= total[current]
  /\ pc' = "collect"
  /\ UNCHANGED <<fate, total, workers, wave>>

SpawnedAll ==
  /\ pc = "spawn" /\ spawned = total[current]
  /\ pc' = "collect"
  /\ UNCHANGED <<fate, total, workers, wave>>

Ended == \A i \in Of(current) : task[i] = "ended"

\* join_all within the aggregate timeout.
JoinAll ==
  /\ pc = "collect" /\ Ended
  /\ pc' = "report"
  /\ UNCHANGED <<fate, total, workers, wave>>

\* The aggregate timeout is longer than a worker's: when it runs out only
\* tasks that wait without a limit are left.
CutOff ==
  /\ pc = "collect" /\ ~Ended
  /\ \A i \in Of(current) : task[i] # "runs"
  /\ cutoff' = TRUE /\ pc' = "report"
  /\ UNCHANGED <<fate, total, workers, current, acp, spawned, record>>

\* Mutant: it does not wait for the tasks that are left.
ReportAtOnce ==
  /\ pc = "report"
  /\ record' = [i \in Slots |-> IF i \notin Of(current) THEN "none"
                                ELSE IF cutoff THEN "failure" ELSE outcome[i]]
  /\ pc' = "reread"
  /\ UNCHANGED <<fate, total, workers, current, acp, spawned, cutoff>>

\* The progress reporter ends when every task has; then the results go to the
\* tracker.  After a cut-off there are none: each worker is one that did not
\* report, and so a failure.  merge_wave_results_to_events_file appends them.
Report ==
  /\ pc = "report" /\ Ended
  /\ record' = [i \in Slots |-> IF i \notin Of(current) THEN "none"
                                ELSE IF cutoff THEN "failure" ELSE outcome[i]]
  /\ pc' = "reread"
  /\ UNCHANGED <<fate, total, workers, current, acp, spawned, cutoff>>

\* What may become of the answers, read as any events are.  A result without
\* events has left no line; the hat may publish what triggers another concurrent
\* hat; the hat that dispatched the wave may not publish it (enforce_hat_scope).
Answers == IF \A i \in Of(current) : record[i] = "silent" THEN {"unanswered"}
           ELSE {"answered", "redispatched", "refused"}

\* The answers are read, and the waves among what is read are dropped.  What the
\* wave left running, strays too, is nobody's any more.
Reread ==
  /\ pc = "reread"
  /\ \E f \in Answers :
       fate' = [w \in Ids |-> CASE w = current        -> f
                                [] fate[w] = "unread" -> "lost"
                                [] OTHER              -> fate[w]]
  /\ pc' = "agent"
  /\ task' = [i \in Slots |-> "none"] /\ outcome' = [i \in Slots |-> "none"]
  /\ proc' = [i \in Slots |-> IF proc[i] = "agent" THEN "agent" ELSE "none"]
  /\ timedOut' = [i \in Slots |-> FALSE] /\ wrote' = [i \in Slots |-> FALSE]
  /\ current' = 0 /\ acp' = FALSE /\ spawned' = 0 /\ cutoff' = FALSE /\ record' = [i \in Slots |-> "none"]
  /\ UNCHANGED total

Step == \/ EndTurn \/ Recover \/ NoWave \/ Detect \/ Spawn \/ SpawnedAll
        \/ JoinAll \/ Report \/ Reread

-----------------------------------------------------------------------------
(* The workers *)

\* The agent, or what it left running, emits: into the worker's own file, as
\* long as somebody will read it.
Write(i) ==
  /\ proc[i] \in {"agent", "tool"} /\ task[i] \in Busy
  /\ wrote' = [wrote EXCEPT ![i] = TRUE]
  /\ UNCHANGED <<pc, fate, total, task, proc, timedOut, outcome, wave>>

\* It may leave a process behind that holds the terminal.
AgentExits(i) ==
  /\ proc[i] = "agent"
  /\ \E p \in {"tool", "gone"} : proc' = [proc EXCEPT ![i] = p]
  /\ UNCHANGED <<pc, fate, total, task, timedOut, wrote, outcome, wave>>

ToolExits(i) ==
  /\ proc[i] = "tool"
  /\ proc' = [proc EXCEPT ![i] = "gone"]
  /\ UNCHANGED <<pc, fate, total, task, timedOut, wrote, outcome, wave>>

\* The worker's file is read and removed, the progress sent, the permit given
\* back.  late: its time was over.
Result(i, late) ==
  /\ task' = [task EXCEPT ![i] = "ended"]
  /\ outcome' = [outcome EXCEPT ![i] = IF wrote[i] THEN "events"
                                       ELSE IF late THEN "failure" ELSE "silent"]
  /\ UNCHANGED <<pc, fate, total, wrote, wave>>

\* An error is the result whatever there is in the worker's file, which is read
\* and removed all the same.
Fails(i) ==
  /\ task' = [task EXCEPT ![i] = "ended"]
  /\ outcome' = [outcome EXCEPT ![i] = "failure"]
  /\ UNCHANGED <<pc, fate, total, wrote, wave>>

\* run_wave_worker_acp: done, out of time, or failed, the whole process group is
\* killed.
AcpEnds(i) ==
  /\ acp /\ task[i] = "runs"
  /\ proc' = [proc EXCEPT ![i] = "gone"]
  /\ Fails(i) \/ \E late \in BOOLEAN : Result(i, late)
  /\ UNCHANGED timedOut

\* run_wave_worker_pty: the output has ended.
OutputEnds(i) ==
  /\ ~acp /\ task[i] = "runs" /\ proc[i] = "gone"
  /\ task' = [task EXCEPT ![i] = "waits"]
  /\ UNCHANGED <<pc, fate, total, proc, timedOut, wrote, outcome, wave>>

\* The thread that reads the terminal gives up at what is not UTF-8: the output
\* has ended for the task, though the agent has not.
Garbled(i) ==
  /\ ~acp /\ task[i] = "runs" /\ proc[i] \in {"agent", "tool"}
  /\ task' = [task EXCEPT ![i] = "deaf"]
  /\ UNCHANGED <<pc, fate, total, proc, timedOut, wrote, outcome, wave>>

\* The agent is killed; what it left running is not.
TimeOut(i) ==
  /\ ~acp /\ task[i] = "runs"
  /\ task' = [task EXCEPT ![i] = "waits"]
  /\ timedOut' = [timedOut EXCEPT ![i] = TRUE]
  /\ \E p \in IF proc[i] = "agent" THEN {"tool", "gone"} ELSE {proc[i]} :
       proc' = [proc EXCEPT ![i] = p]
  /\ UNCHANGED <<pc, fate, total, wrote, outcome, wave>>

\* After a timeout nobody takes the lines that are still read, and the channel
\* for them is not closed: when it is full, the reading thread waits for room and
\* the task for the thread, even if no process is left.
Floods(i) ==
  /\ task[i] = "waits" /\ timedOut[i]
  /\ task' = [task EXCEPT ![i] = "stuck"]
  /\ UNCHANGED <<pc, fate, total, proc, timedOut, wrote, outcome, wave>>

\* Mutant: what a worker emitted before its time was over is not looked at.
PtyEndsLate(i) ==
  /\ task[i] \in {"waits", "deaf"}
  /\ proc[i] # "agent" /\ (task[i] = "waits" => proc[i] = "gone")
  /\ task' = [task EXCEPT ![i] = "ended"]
  /\ outcome' = [outcome EXCEPT ![i] = IF timedOut[i] THEN "failure"
                                       ELSE IF wrote[i] THEN "events" ELSE "silent"]
  /\ timedOut' = [timedOut EXCEPT ![i] = FALSE]
  /\ UNCHANGED <<pc, fate, total, proc, wrote, wave>>

\* child.wait() and the end of the reading thread, neither with a limit.
PtyEnds(i) ==
  /\ task[i] \in {"waits", "deaf"}
  /\ proc[i] # "agent" /\ (task[i] = "waits" => proc[i] = "gone")
  /\ Result(i, timedOut[i]) /\ timedOut' = [timedOut EXCEPT ![i] = FALSE]
  /\ UNCHANGED proc

Worker(i) == \/ Write(i) \/ AgentExits(i) \/ ToolExits(i) \/ AcpEnds(i) \/ OutputEnds(i)
             \/ Garbled(i) \/ TimeOut(i) \/ Floods(i) \/ PtyEnds(i)

Next == Emit \/ Step \/ CutOff \/ \E i \in Slots : Worker(i)

\* The loop and its tasks go on, and so do their timers.
Scheduled == /\ WF_vars(Step) /\ WF_vars(CutOff)
             /\ \A i \in Slots : /\ WF_vars(AcpEnds(i)) /\ WF_vars(OutputEnds(i))
                                 /\ WF_vars(TimeOut(i)) /\ WF_vars(PtyEnds(i))

\* Processes nobody waits for with a limit end by themselves: those left
\* behind, and agents whose output is no longer read.
ProcessesEnd == \A i \in Slots : /\ WF_vars(ToolExits(i))
                                 /\ WF_vars(task[i] = "deaf" /\ AgentExits(i))

Spec == Init /\ [][Next]_vars
ScheduledSpec == Spec /\ Scheduled
FairSpec == Spec /\ Scheduled /\ ProcessesEnd

-----------------------------------------------------------------------------
(* Properties *)

\* There are never more agents at work for a task than the hat's concurrency
\* allows, be they killed, deaf or waited for: a permit is held as long as the
\* process lives, not as long as somebody reads its output (execute_wave).
\* Strays, whose tasks failed, hold none.
WithinConcurrency == Cardinality({i \in Slots : proc[i] = "agent"}) <= Concurrency

\* When a wave is merged there is a record of each of its workers, and what a
\* worker emitted is merged, be it in time or too late.  Exempt are the workers
\* of an ACP backend that failed, and the waves whose aggregate timeout ran out:
\* every worker of these is recorded as a failure (execute_wave).
EmittedIsMerged ==
  pc = "reread" => \A i \in Of(current) :
    /\ record[i] # "none"
    /\ cutoff => record[i] = "failure"
    /\ record[i] = "events" <=> wrote[i] /\ ~cutoff /\ ~(acp /\ outcome[i] = "failure")

\* No agent of a wave outlives it: when the loop selects the next hat, the
\* aggregator, nothing of the wave is still at work, cut off or not.  Dropping
\* the handles of the tasks does not cancel them; waiting for the reporter
\* does the waiting (execute_wave).  What agents leave behind may outlive it,
\* and so may strays.
NoneOutlivesItsWave ==
  pc \notin InWave => \A i \in Slots : task[i] = "none" /\ proc[i] # "agent"

\* Whatever the workers do, what becomes of a wave is settled at last, if the
\* processes they leave behind end, and unless a worker that was killed leaves so
\* many lines that its task is stuck.
WavesSettle ==
  \A w \in Ids : fate[w] = "unread" ~> \/ fate[w] \in Settled
                                      \/ \E i \in Slots : task[i] = "stuck"

==============================================================================

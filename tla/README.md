# A TLA+ model of Ralph

Ralph (`crates/` of this repository) runs a coding agent in a loop: it builds a
prompt from pending events, runs the agent, reads the events the agent
reported, routes them to "hats", and decides whether to go on. Several loops
can run in parallel, each in a git worktree, and a queue brings their work back
to the main branch. What makes it hard is not the text it produces but what
happens between processes: agents, their children, the loop, other loops,
operators and a chat bot all append to the same files without a daemon in the
middle, and any of them may be killed.

This directory holds TLA+ modules of the parts where that matters, TLC
configurations for small instances, and TLAPS proofs for every instance.

    tlc -config EventsFileShared.cfg MCEventsFile      # a model-checking run
    tlapm EventsFileProofs.tla                          # a proof module

`PROJECT.json` lists the runs, the lines of code each definition stands for,
the hazards and the theorems. Paths below are relative to `crates/`.

## 1. The system and its parts

Modelled, at least in part:

| component | state it keeps | operations | shared with |
|---|---|---|---|
| Merge queue (`ralph-core/src/merge_queue.rs`) | `.ralph/merge-queue.jsonl`, append only; an entry's state is that of its last line | enqueue, mark_merging, mark_merged, mark_needs_review, discard, list, get_entry | every ralph process of the repository, by flock on the file |
| Merging parallel loops (`ralph-cli/src/loop_runner.rs`, `loops.rs`, `ralph-core/src/loop_completion.rs`, `ralph-api/src/loop_domain.rs`) | `.ralph/loop.lock`, worktrees and branches, merge-ralph processes | complete, spawn, claim, merge, land, discard, retry, merge, force | the queue, the lock, git |
| Event bus and hat registry (`ralph-proto/src/event_bus.rs`, `ralph-core/src/hat_registry.rs`) | a queue of pending events per hat, one for human events | publish, take, next hat, the hats a batch activates | owned by one event loop |
| Event loop (`ralph-core/src/event_loop`, `ralph-cli/src/loop_runner.rs`) | LoopState: counters, topics seen, requests, activations | iterate, read events, recover late events, fall back, check limits, judge | the events file, the task store, signals, stop/restart files |
| Events file (`ralph-core/src/event_reader.rs`, `event_logger.rs`, `ralph-cli/src/main.rs`, `ralph-telegram/src/handler.rs`) | `.ralph/events-<run>.jsonl` and one reader's byte offset | append in one write or in two, read the new lines, skip to the end at the start | agents and their children, the loop, the bot |
| Loop lock and registry (`ralph-core/src/loop_lock.rs`, `loop_registry.rs`) | the flock and its metadata; a JSON registry of running loops with pids | acquire, wait, release; register, list, clean stale entries | every ralph process |
| Loop completion, worktrees, landing (`loop_completion.rs`, `worktree.rs`, `landing.rs`) | git worktrees and branches | create, auto-commit, remove, write a hand-off | git, the merge queue |
| Task store (`ralph-core/src/task_store.rs`, `ralph-cli/src/task_cli.rs`) | `.ralph/agent/tasks.jsonl` | add, ensure, start, close, fail, reopen, list | agents, their children, the loop, the API |
| Lifecycle hooks (`ralph-core/src/hooks/`, `loop_runner.rs`, `loops.rs`) | `.ralph/suspend-state.json` and the signal files `stop-requested`, `restart-requested`, `resume-requested` | run a phase's hooks, warn, block, suspend; wait, back off, resume, stop | the loop, operators, the bot, the next loop in the workspace |
| Waves (`wave_detection.rs`, `wave_tracker.rs`, `loop_runner.rs`) | a semaphore, the tasks and processes of the workers, their own events files, the tracker | dispatch, detect, execute, time out, collect, merge, read again | the events file, agents, what agents leave running |
| Human in the loop (`ralph-telegram/src`, `event_loop/mod.rs`) | `.ralph/telegram-state.json` (chat, pending question, last update) | ask, wait, give up; poll, handle, record, react | the loop's thread and the polling task, the next process, the chat's server |
| Urgent steering (`urgent_steer.rs`, `rpc_stdin.rs`) | a queue in memory and a file that blocks the next emit | push, drain, acknowledge | the TUI or RPC client, `ralph emit` |
| RPC API (`ralph-api/src`) | idempotency cache, streams, domains over the same files | loop.merge, loop.discard, task.*, config.*, stream.* | the queue, the task store |

Not modelled in these modules, and why:

| component | why not, or when |
|---|---|
| Planning sessions | a conversation file with a status field: planned together with the API |
| Memory and scratchpad | Markdown rewritten under a lock; no control decision depends on it |
| Loop history, summaries, diagnostics | written for people, never read back by the loop |
| Agent adapters | subprocesses, terminals, output formats: for the loop an agent is a run with an outcome, which is what EventLoop has |
| Terminal interface | display; what it sends to the loop is the guidance signal |
| Configuration, presets, preflight | merging YAML; what `validate` guarantees is an assumption of EventBus (`ReservedAssumption`) |
| Prompts and skills | text |
| Test tools, web dashboard | harnesses around the program; a TypeScript client of the API |

How they interact: an agent or one of its children runs `ralph emit`, which
appends a line to the events file. The loop's EventReader takes the new lines
after each run, EventLoop checks them (scope, backpressure, completion,
cancellation) and publishes them on the EventBus, and the bus decides which hat
the next prompt is about. A loop in a worktree that completes enqueues itself
in the merge queue; the in-place loop that completes next spawns one
merge-ralph (another `ralph run`, on the main checkout) for each queued entry;
a merge-ralph waits for the loop lock, claims the entry, lets its agent merge
the branch, and records the outcome. Operators and the API act on the same
queue at any time. Before and after each phase the loop runs the configured hooks,
which can hold or end it; an agent that dispatches a wave makes it run many
agents at once before it goes on; one that asks a question makes it wait for a
line that its own polling task, in the same process, appends to the events file.

## 2. What is hard here, and what makes each part correct

- **Check, unlock, append.** Every mark_* method of the queue reads under a
  shared lock and appends under a separate exclusive one. Two processes can
  both pass their checks. Correct means: each loop's log still starts with its
  enqueue, and no outcome comes without a claim.
- **Killed in the middle of a line.** `writeln!` on a `File` is two writes, and
  nobody locks the events file. A newline can be missing, late, or follow
  somebody else's text. Correct means: nothing is read twice, nothing read out
  of order, and no event disappears without an `event.malformed`.
- **Merge-ralphs in a crowd.** Every completed in-place loop spawns for every
  queued entry, so several merge-ralphs of one loop may wait, some of them for
  an entry that was merged, discarded or retried meanwhile. Correct means: one
  of them in the checkout at a time, no entry called merged whose branch is
  not, and none left in merging unless its merge-ralph was killed or failed.
- **Many ways round an iteration.** After a run, before a fallback and in two
  polling loops the same lines are read by the same function with different
  callers. Correct means: the limits hold whichever way leads to the next run,
  a cancellation or an accepted completion ends the loop, completion is earned
  (required events, no open tasks), no accepted event is lost for want of a
  subscriber, and every loop ends.
- **A list rewritten whole.** The task list is loaded, changed and written back
  by every `ralph tools task`, three of them without a lock over both. Correct
  means: a stable key has one task, and what a command answered stays true until
  another command about the same task. The registry of loops is rewritten in
  the same way, and not modelled yet.
- **A loop that waits in the workspace.** A suspended loop waits for files that
  anybody can write at any time, also for nobody or for the loop before. Correct
  means: no disposition is lost behind a later hook, the state file tells what
  is waited for, a stop ends the loop wherever it is taken, and a loop ends with
  the reason it published.
- **Workers that do not end.** A worker is a task, a process, a terminal and
  whatever the agent leaves running. Correct means: no more agents than
  the hat allows, every worker accounted for once and its results merged, none at
  work when the loop goes on, and the wave over in the end; and where that fails,
  why.
- **Two threads, one state file.** The loop and the polling task each load the
  bot's state, hold it across seconds of network calls and save all of it,
  through one temporary name. Correct means: no message is lost or handled over
  and over, a question is pending while the loop waits for it and only then, and
  an answer is for the question it was given to; and where that fails, why.

`PROJECT.json` ("hazards") has the full list, each at its line.

## 3. Modules

| module | stands for | composed with |
|---|---|---|
| `MergeLifecycle` | abstract: the life cycle of one entry as the mark_* methods document it | implemented by MergeQueue with one client |
| `MergeQueue` | the log, its two flock sections, crashes between and inside them | instantiated by MergeFlow (`Q`) |
| `MergeFlow` | worktree loops, the primary loop, merge-ralphs, the loop lock, operators and the API | MergeQueue |
| `EventBus` | routing and the choice of active hats: operators only | extended by EventLoop |
| `EventLoop` | `run_loop_impl` and the EventLoop it drives, with agents, signals and the task store as environment | EventBus |
| `EventChannel` | abstract: what EventLoop takes the events file for | implemented by EventsFile until it is disturbed |
| `EventsFile` | the file at the grain of bytes, its writers and its reader | EventChannel |
| `TaskStore` | the task list, its lock, the commands that change it | none: EventLoop takes whether tasks are open from its environment |
| `Hooks` | the boundaries of `run_loop_impl` with their hooks, suspension, the signal files, kills and the next loop | none: what the loop does between its boundaries is EventLoop's |
| `Waves` | `handle_wave_events` and `execute_wave`, the workers' tasks and processes | none: a wave's lines are read all together, as EventChannel allows |
| `Robot` | the question and its wait, the polling task, the state file at the grain of open, write and rename | none: the events file is a sequence of lines |
| `MCMergeFlow`, `MCEventLoop`, `MCEventsFile`, `MCTaskStore`, `MCHooks`, `MCWaves`, `MCRobot` | instances for TLC: symmetry sets, two hats with their topics, hooks of each kind | |
| `MergeQueueProofs`, `MergeFlowProofs`, `EventLoopProofs`, `EventsFileProofs`, `TaskStoreProofs`, `HooksProofs`, `WavesProofs`, `RobotProofs` | theorems about the modules they are named for | |

### MergeQueue

`log` is the file, one record per line with a flag for its newline; `op[c]` is
the request of client c that passed its check and has not been appended. `Check`
is `get_entry` and the match on the state it returned; `Enqueue` asks nothing;
`Write` is `append_event`. A refused check returns an error and changes nothing,
so it is no step. `CrashBeforeWrite` and `CrashInsideWrite` kill a client between
its two sections or between the two writes of `writeln!`. `Readable` is what
`read_all_events` makes of a line with two objects: the whole read fails, and
every later mark_* with it, while `enqueue` goes on appending.

### MergeFlow

`pc` says where each process is, `holder` who has `.ralph/loop.lock`, `branch`
what became of `ralph/<loop>`, `target` the loop an operator's command is about.
Processes are the worktree loops, the primary in-place loop, MaxSpawn possible
merge-ralphs for each loop, and operators that issue one command each. The
queue's steps are MergeQueue's own actions with the processes as clients. A
merge-ralph goes waiting, starting, claiming, working, landing, recording,
processing, exiting, exited; `ClaimRefused` goes on to work as the code does.
`Kill` takes any process that is not an operator at any point; the kernel drops
its flock. An agent that ends without a merge leads to the record "needs_review"
(`GiveUp`), but `Fails` is any of the errors with which `run_loop_impl` returns
past `handle_termination` once the entry is claimed: the process is gone
("dead"), the lock free and the entry still in merging. An operator is at
"api_merged" once the API's loop.merge has recorded "merged", which it does
without merging anything.

The queue's "current owner" (pid) is not kept, because no decision depends on
it; a dead worktree loop is told from a live one by `Alive`. `StartFails` stands
for every error between spawning and the claim, and is "dead" too.

### EventBus and EventLoop

Events are topics with a payload; "pass" stands for a payload with all the
evidence backpressure asks for. A hat's queue is a set: the code only asks
whether it is empty and what is in it. `Recipients` is `EventBus::publish`,
`ActiveHats` is `determine_active_hat_ids`.

`pc` is the place in `run_loop_impl`:

    head --> select --> run --> ran --> judge --> verdict --> head
              |                  |        ^
              v                  +-> emit +      (recover_expected_emit_after_output)
             late --> head | fallback --> head   (recover_late_events_before_fallback)

Each step is what the code does between two points where somebody else's action
can be noticed: the file, the task store and the signals belong to the
environment (`Emit`, `TouchTasks`, `Raise`), which moves at any time until the
loop is done. `Digest` is `process_events_from_jsonl` over a whole batch; a
batch is a sequence and the definitions under "Reading the events file" are
about places in it. `granted` is a history variable: cancellations read and
completions accepted, less what `EmitFound` drops, the one step of the code that
forgets a request (section 7). Signals are the interrupt, the stop and restart
files, the removed workspace, the runtime/cost budget, and queued guidance. Off
in this module: hooks, waves and the robot service, which have modules of their
own, and I/O errors. The audit of file modifications is no step: the loop always
selects Ralph, who has no restrictions, so `audit_file_modifications` returns at
once.

### EventsFile

A text is TextLen bytes, `Byte(e, k)` the k-th byte of event e, and a newline one
byte of its own. `AppendLine` is a writer with one `write_all`; `AppendText` and
`AppendNewline` are the two writes of `writeln!` on a file; `Kill` falls between
them. Reading is line by line as `BufRead::lines` does it: `ReadLine` takes the
bytes up to the next newline or the end the file has at that moment, parses
them, and moves `position` by the line's length plus one, newline or not;
`EndRead` is the end of the iterator and the seek of the next read. So
`position` and `cursor` differ after an unfinished line. A wave's batch of lines
(`write_wave_events`) is several `AppendLine`s: nothing depends on their staying
together. `Sync` is the jump to the file's end when a run starts.

`ReadLine` has a guard the code does not have: one read does not meet so many
unfinished lines that its offset gets a whole text ahead. A read can meet one
only if the file ends there at that moment and grows before the next call, once
per event written during the read. TLC's instance does not reach the bound:
four events, texts of five bytes. The theorems are about behaviours within it.

### TaskStore

`file` is the list, `copy[c]` the TaskStore of the process that client c runs,
`cmd[c]` its command. `Load` is TaskStore::load with the checks made before
saving; `Truncate` takes the exclusive lock, applies the command to `Base(c)`
(the file read again for ensure, start and reopen; the loaded copy for add,
close and fail) and empties the file as fs::write does first; `Write` writes it
and answers. `Kill` falls between the two and leaves a prefix. Three history
variables say what should be: `told` holds each task as the last command about
it answered, `stale` the clients whose copy is older than the file, and
`overtaken` whether such a copy was ever written by add, close or fail.

A task is an id, a key and a status; titles, priorities, blockers, owners and
times change with them and decide nothing here. A process killed before it has
the lock changes nothing and is one that never goes on. Ids are unique: a
new one is never in the list.

### Hooks

`at` is the place in `run_loop_impl`: one of the twelve phases with hooks, or a
place between them (`head`, `select`, `agent`, `judge`, `publish`, `over`).
`outcomes` is the sequence of dispositions `dispatch_phase_event_hooks` has
collected, `wait` what it or the gate behind it waits for, `poll` which of the
files is looked at next: the loops of the code look at stop, restart and resume
in that order, and anybody can write between two looks. `Attempt`, `Backoff`,
`Await...` are the three modes of a suspending hook, `Gate...` is
`wait_for_resume_if_suspended`. `ResumeLooks` and `ResumeWrites` are the two
halves of `ralph loops resume`. `Kill` takes the loop anywhere and `Start` is
the next one, which finds the files. A hook is its disposition and mode; its
outcome is any. Not in the module: the child process of a hook with its payload
and metadata, errors of the disk, and `ralph hooks validate`, which changes
nothing.

### Waves

`pc` is the loop's place: `agent`, the emit recovery, and the steps of a wave
(`spawn`, `collect`, `report`, `reread`). Each worker has a `task` of the
runtime, a `proc` (the agent, then what it left holding the terminal, then
nothing) and an events file of its own (`wrote`). `Spawn` takes a permit before
it starts a task; a task in a terminal goes from running to waiting
(`OutputEnds`) or deaf (`Garbled`: the reader has stopped and nobody drains the
terminal), is killed by `TimeOut`, and ends in `PtyEnds` when no process is
left. After a timeout nobody takes the lines the reading thread still sends
through a channel of 256, so `Floods` leaves the task "stuck": its thread waits
for room and it for the thread, processes or none. A task of an ACP backend ends
in `AcpEnds`, in time, late, or with an error, which drops what the worker
emitted (`Fails`). `Started` is what a start can leave: an agent, nothing, or,
when the terminal's reader cannot be cloned, a "stray" child that no task knows
of. `CutOff` is the aggregate timeout. `fate` is a history of each wave: whether
it was executed, read as ordinary events by a recovery, or lost behind another.
Left out: errors of the disk while a wave runs, torn lines (EventsFile has
them), and a loop killed in a wave.

### Robot

`lp` is where the loop is in asking and waiting, `bp` where the polling task is
with a message, and `copy[p]` the state thread p has loaded and not yet let go.
A save is three steps, `Open`, `Fill`, `Rename`, on `state` and `tmp`; `fd[p]`
says under what name the file that p has open is to be found by now, so a write
can land in `state` itself after the other thread has renamed. A file holds a
state, nothing, or what serde refuses; `Readable` is the load's answer. `chat`
is all the human has written, `offset`, `upto` and `confirmed` are getUpdates'
(asking from an offset confirms what is before it). `Write`, `Expire` and `Exit`
are the human, the clock or a signal, and the end of the process at any point;
`Start` is the next process, which goes on after the last update recorded. The
events of one process after another are taken for one sequence. Four history
variables tell apart what the code gets right and what it cannot: `fresh`
(nobody has saved since the copy was loaded), `undone` (fields that a save of an
old copy put back), `clashed` (two saves overlapped), `left` (questions whose
wait ended with them pending). The properties hold but for these, and each
exemption is needed: without it TLC finds a counterexample. Only the primary
loop has a robot service, so there is one asker. Left out: check-ins, greeting
and farewell, which only read the chat, the replies to commands, and the daemon.

## 4. Runs

| run | instance | properties |
|---|---|---|
| MergeQueueLifecycle | 2 loops, 1 client, 5 lines | TypeOK, FollowsLifecycle (refines MergeLifecycle) |
| MergeFlowSafety | 2 loops, 1 operator (command line or API), 2 merge-ralphs per loop that may fail, 1 kill | TypeOK, OneInPlaceLoop, MergedIsMerged, StoryInOrder |
| MergeFlowFair | 1 loop, 2 operators (command line and API), 2 merge-ralphs that may fail, 1 kill | SpawnedRalphsEnd, MergingIsResolved |
| EventLoopSafety | 2 hats with a default event and one activation each, any of six lines in the file at any time, outputs with a printed event, the promise as text or a mention of `ralph emit`, interrupt and stop, 3 iterations | TypeOK, RunsWithinLimits, ActivationsBounded, GrantedEndsLoop, CancelledIsReported, SeenIsDelivered |
| EventLoopFair | 2 hats, tasks opened and closed at any time, scope, emit recovery, the promise as text, guidance and restart, 2 iterations | Terminates, CompletionIsEarned |
| EventsFileShared | 3 writers, 4 events, 1 kill, texts of 5 bytes | TypeOK, ReadsGoForward, IntactIsDelivered, LossIsReported, ChannelUntilDisturbed |
| TaskStoreShared | 3 processes at a time, 3 ids, 1 key, 5 commands, 1 kill | TypeOK, OneTaskPerKey, AnswersAreKept |
| HooksSuspend | hooks that block, warn and suspend in each mode, 2 loops one after the other, 2 iterations, 2 backoffs, 3 stops and resumes | TypeOK, StateTellsTheWait, ReasonStands, BoundariesHold, StopIsHonoured, RestartEnds, StopEnds |
| HooksResume | the same with one loop | ResumeAnswersThisWait, violated: section 7 |
| WavesWorkers | 2 waves of up to 3 workers, concurrency 2, in a terminal or of an ACP backend | TypeOK, WithinConcurrency, EmittedIsMerged, NoneOutlivesItsWave, WavesSettle |
| WavesHang | 1 wave of 1 worker, without the assumption that processes end | WavesSettle, violated: section 7 |
| RobotQuestions | 2 messages, texts or commands, 2 questions, 2 processes one after the other | TypeOK, PendingTellsTheWait, MessagesHandled, AnswersFit |

Why the bounds are enough to mean something:

- *MaxLog*: five lines hold an enqueue, a claim, an outcome and two more, for
  two loops, with a torn line anywhere. In MergeFlow the bound of 20 is
  never reached: the processes are finitely many and each writes a few lines.
- *MaxSpawn = 2*: two merge-ralphs of one loop can wait, claim and land in any
  order, which is the smallest crowd; with two loops there are four of them and
  the primary loop at the lock.
- *MaxKills = 1*: the properties are about what one death does to the others.
  Failures (`Fails`, `StartFails`) have no bound.
- *MaxIterations*: two or three iterations let a hat be activated, exhausted and
  asked again, a topic be repeated three times (also by lines in one batch), a
  completion be rejected and then granted, and every recovery run before and
  after the limit is reached.
- *MaxUnread = 2*: a batch can hold a cancellation and a completion, a garbage
  line and an event, in both orders; longer batches come about by reading twice.
- *LatePolls, EmitPolls = 1*: the recovery loops differ between their first, a
  middle and the last poll only in the counter.
- *TextLen = 5, MaxEvents = 4*: texts longer than the offset can get ahead of the
  reader, so that an event can lose its first bytes and still be recognised as
  one that was lost.

- *MaxRuns = 5*: an old copy can be loaded, overtaken by an add, an ensure and a
  close, and written; with three processes two of them can be stale at once,
  and a third one writing.
- *Hooks*: two loops, so that one finds what a killed one left; two iterations,
  so that what was signalled at one boundary is seen at the next; three
  requests, so that a stop meets two resumes; two backoffs differ in being the
  last.
- *Waves*: three workers under a concurrency of two, so that one waits for a
  permit; two waves, so that one is dispatched while the other runs.
- *Robot*: two messages and two questions, so that an answer can be given to one
  question and read for the other, or be handled twice; two processes, so that
  one starts with what another left. With it come all orders of two saves.

Symmetry is used only in runs of safety properties, over ids that the modules
treat alike (loops, clients, operators, writers, tasks). Deadlock is not an
error where work ends: in MergeFlow every process exits, in EventLoop the loop
is done, in TaskStore the commands have run out, in Hooks and Robot the last
loop is over. In Waves it is no work's end: a worker that is stuck stops the
loop for good, which is what the code does (section 7) and what WavesSettle
exempts by name. MergeQueue and EventsFile run with the deadlock check on: the
queue always accepts some request or crash until its bound, the reader can
always end a read of what there is.

## 5. Fairness

- MergeFlow: weak fairness for each worktree loop, each in-place process and
  each operator's started command, because a running process keeps running and
  a loop has iteration and runtime limits (`WorktreeStep`, `InPlaceStep`,
  `CommandStep`); an agent is not required to merge. Strong fairness for
  `AcquireLock`: a waiter blocks in flock(2), the lock is released again and
  again, and the kernel wakes each waiter in the end. No fairness for issuing a
  command, for killing, or for anything that would start a new primary loop:
  that a queued entry is ever taken is therefore *not* claimed, and the code
  does not guarantee it.
- EventLoop: weak fairness of `Step`, the loop's own thread. The end of an agent's
  run is one of its steps, since adapters end an agent by idle timeout or with
  the interrupt. The environment has no fairness: agents need never emit.
- Hooks: weak fairness of `Step`, the loop's thread, which polls; none for
  operators and signals. `RestartEnds` and `StopEnds` follow a request that was
  made, and StopEnds ends where the code's promise does: in a suspension by the
  termination's own hooks, with no request left to end it.
- Waves: `Scheduled` is weak fairness of the loop, of the aggregate timeout and
  of each worker's timer, reader and task: threads and timers of one runtime.
  `ProcessesEnd` adds that what an agent leaves running, and an agent nobody
  reads, end by themselves. Nothing in the code makes them; WavesWorkers assumes
  it and WavesHang shows what happens without.
- Robot: none; its properties are safety properties. That a wait ends follows
  from its deadline alone.

## 6. Proofs

Every theorem holds for all values of the constants allowed by the named
assumptions.

**MergeQueueProofs.** `TypeCorrect`; `StoryAlwaysInOrder`. StoryInOrder is not
inductive: what is appended was decided on an older log. The strengthening
`IInv` adds `Grounded(c)`: a request in flight is grounded in the log as it is
now (its loop has an enqueue, and an outcome its claim). This survives other
clients' appends because the log only grows, which is why the race is harmless
for this property. `SingleClientLifecycle` proves the refinement of
MergeLifecycle when Clients has one member, from `StateAfterAppend` (appending a
line changes the state of its loop only) and the invariant that the request in
flight is current.

**MergeFlowProofs.** `TypeCorrect`; `UsesTheQueue`: MergeFlow's steps are queue
steps or leave the queue alone, so Spec implies Q!Spec and the theorems of the
queue carry over, as `StoryTold` does for StoryInOrder. `LockExclusive` by
`LockInv`: a process past the lock holds it, and one that is waiting or gone
does not. `QueueIsHonest`: `HonestInv` says every "merged" in the log is vouched
for, by a merged branch or by a call of the API's loop.merge about it
(`Vouched`), every one in flight is that of a merged branch or of the call
itself (`RequestHonest`), and a process about to land well has a merged branch;
it needs that a merged branch stays merged and that discard deletes live ones
only. The exemption is needed: `loop.merge` of the API records "merged" with the
current HEAD and merges nothing (`ralph-api/src/loop_domain.rs`).

Two theorems are what SpawnedRalphsEnd and MergingIsResolved rest on.
`EveryStepAdvances`: each place of a process has a rank (`Place`), and a step
lowers that of one process and raises none, or merges a branch, which happens
once for each; and the lock's holder is a process that is still to end (from
`LockInv`), so nobody waits for a lock that is never released.
`MergingHasAnOwner`: as long as the queue can be read, an entry in merging has a
process that claimed it and is still to record the outcome (`Lander`), or a
merge-ralph of its loop was killed or failed (`Deserter`). `OwnedInv` adds what a
request in flight says, by where its process is (`RequestKnown`): only a claim
says "merging", and it makes its process the owner; an owner gives the entry up
only by writing its outcome or by dying. The outcome could also be refused, but
while the queue can be read it is refused only to an entry that is not in
merging. A deserter is not overcome by the code: only `--force`, the API or a
merge-ralph that still waits gets the entry out, which is why MergingIsResolved
speaks of whoever comes to settle it.

**EventLoopProofs.** `TypeCorrect`; `LimitsHold` (`LimitsInv`: from the check at
the head to the agent's end no counter is at its limit, whatever step comes
between); `NoAcceptedEventLost` (an event that becomes "seen" has a recipient,
for any subscriptions); `CompletionEarned`; `GrantsHonoured` and
`CancellationReported` (`GrantInv`: a cancellation that was read is still
requested until the verdict has ended the loop for it, and an accepted
completion has ended it); `ActivationsWithinLimit`. Two exemptions and a
hypothesis each name a behaviour of the code worth knowing:

- `GrantsHonoured` and `CancellationReported` hold for any outputs, recoveries
  included, but of `granted`, which leaves out what the emit recovery drops: the
  recovery entered when an output mentions `ralph emit` and no event was read can
  read a cancellation, or accept a completion, and forget it (section 7). The
  theorems say that no other step does (`RoundGrants`: what a round of the
  recovery reads is either dropped there or kept for the verdict).
- `CompletionEarned` exempts the promise in the text of an agent that emitted
  nothing, which completes the loop without any of the conditions.
- `ActivationsWithinLimit` assumes `OwnTriggers`: each topic is the trigger of one
  hat, and no hat is a catch-all. The exhausted hat is looked up by queue, the
  activated one by topic: with overlapping triggers an exhausted hat can be
  activated by what lies in another hat's queue.

`LoopAdvances` is what Terminates rests on: `StepsLeft` counts the iterations
left, each worth a `Visit` (the steps from the head of the loop to the next,
polls of the recoveries included), and the place within the present one. It
starts at MaxIterations * Visit + 3, each step of the loop lowers it and nothing
else changes it. It needs that a run is begun only below the limit (`LimitsInv`,
`IterationInv`), and that a loop with nothing pending comes to a run by a
recovery or the fallback, which leave something pending.

**EventsFileProofs.** `TypeCorrect`, `NothingReadTwice`, `IntactReachesLoop`,
`NoSilentLoss` rest on one inductive invariant:

- `Shape`: the events are in the file in order, each text in one piece (an
  append is one write at the file's end), and whatever is between two texts is
  newlines.
- `Place`: every text that ends before the cursor has been skipped, read or
  reported; every event read has its text before the cursor. ReadsGoForward
  follows: what lies at or after the cursor is younger.
- `Near`: without a race the offset is the cursor, or one past it at the end of
  an unfinished line; so when the newline comes next the two agree again.

`UndisturbedIsChannel` is the refinement of EventChannel by `Even`: while nothing
fell between the two writes of a line, the reader has taken exactly the events
whose lines end before the cursor, and no line it can meet is unfinished.

**TaskStoreProofs.** `TypeCorrect`, `KeysStayUnique` and `AnswersStay`, from one
invariant. `IdsFresh`: the id of a command that has loaded is in no list and is
nobody else's, so whatever copy it is added to stays free of duplicates
(`ApplyDistinct`). `StaleIsRight`: a copy not marked stale is the file, and while
somebody writes every loaded copy is marked; this is why only a stale add, close
or fail can undo anything. `AnswersAgree`: without one, the list about to be
written is `told` with the new answer (`ApplyItems`).

**HooksProofs.** `Invariance` of TypeOK, `Placed` (where a wait can be), `Counted`
(an iteration is begun only below the limit), `Reported` and `ReasonStands` (the
reason published is the reason given, but for a stop or restart), and
`StateIsExplained` (the state file is that of the present wait, was inherited, or
waits for its stop or restart to be taken). From it `TypeCorrect`, `StateIsTrue`,
`ReasonStays`, `BoundariesAreHeld` (outcomes are only added to, so a disposition
is still there when the boundary is left, whatever hooks come behind it) and
`StoppedStays`: a stop is taken only by a loop that thereby gets the reason
"stopped", and such a loop goes on through the hooks of its termination only and
ends with that reason, unless a restart lets it go where one of them suspends it,
one of them blocks, or it is killed (`EndingInv`, and an action by action look at
what can replace a reason).

`RestartAdvances` and `StopAdvances` are what RestartEnds and StopEnds rest on. A
loop with a signal up goes through the boundaries in one direction (`StageOf`),
through the hooks of a boundary once, and looks at the files of a wait at most
five times before it has seen the signal (`Looks`); `StepsLeft` puts the three
together for phases of at most m hooks (`SomeBound`: there is such an m). Every
step of the loop lowers it while the signal is up, and the signal stays up until
the loop is over (a restart) or ends for it (a stop).

**WavesProofs.** `Invariance` of TypeOK, `Placed`, `Accounted` (each slot of the
wave is not spawned, at work, or recorded), EmittedIsMerged and `WithinPermits`
(a cardinality: tasks that hold a permit are no more than there are).
`ConcurrencyIsKept` follows because an agent a task has started holds its permit:
none is released while the process lives. A stray has no task, holds no permit
and is not counted. `MergedIsEmitted` (exempt: the workers of an ACP backend that
failed, and waves that were cut off, whose workers are all failures),
`WavesAreOver`. `WavesAdvance` is what WavesSettle rests on: a wave that is under
way is settled within MaxTotal + 9 steps of the loop (`StepsLeft`), since the wave
being executed takes all the others that were read or written meanwhile with it
when it is read again; what is settled stays settled; the loop waits only for
workers of its wave that are not over, each of which has a step it can take
(`CanMove`) or is stuck for good (`WaitsForWorkers`), and each step of a worker
leaves less of its work (`WorkLeft`). That the last process lets go of the
terminal is what fairness must add, and what the run WavesHang does without. No
fairness helps one that is stuck, and WavesSettle exempts it.

**RobotProofs.** `TypeCorrect` needs `Placed` (a save goes on only where one is
made) and `Living` (loop and task die together). `OneSaves`: until two saves
overlap, the temporary file is the copy of the one who saves, so a rename succeeds
and makes that copy the state (`RenameMoves`). `Recorded`: the last update
recorded, confirmed, or in anybody's copy, and the one passed, all have every text
before them in the events file (`Settled`, which only grows); `NoMessageLost`
follows. `MessagesAreHandled` adds its second half, a count over the whole
history: the text that is written and not recorded is the first after what is
recorded (`Resumes`), so the next process comes to it first and writes no other
twice; one message is repeated at most by each process but the first (`Counts`).
`Tells` relates what is pending to both copies: a fresh copy has the pending
question, or none after the line that answers it, and an old one that puts nothing
back agrees with the file (`NothingPutBack`). `PendingIsTheWaits` and
`AnswersAreForTheirQuestions` follow.

Left to model checking: the six liveness properties, which need fairness and
ENABLED, out of the prover's reach. Their safety half is proved, in the theorems
named `...Advance(s)` and `MergingHasAnOwner`: a number that every step of the
loop lowers and nothing else raises, or a process that is still to act. TLC shows
on the small instances that the fair steps are possible until then. Every other
property of the runs that pass is a theorem, under the hypothesis named. Nothing
here needs a recursive operator.

The modules meet in this way: EventLoop takes the file for a queue `unread`.
EventsFile shows when that is so. `ralph emit` runs to its end in one process,
and the loop reads after its agent has ended, so an ordinary run does not
disturb a line; agents that emit in parallel, a bot that answers during a
read, or a killed process do.

## 7. Where the code and its documents disagree

| run | what TLC shows |
|---|---|
| HooksResume | `ralph loops resume` checks the suspend state and the signal file, then writes the signal; the loop takes a signal, then removes the state. A second resume between the two leaves its signal in the workspace, and the next suspension is let go at once. The hooks' design says resume on a loop that is not suspended is a no-op, and its signal single-use. |
| WavesHang | After the aggregate timeout the loop drops its handles on the workers, which stops nothing, and then waits for each of them without a limit: for an agent whose output is no longer read, for what the agent left holding its terminal, or for a reading thread that is stuck with no process left. The comment there says the timeout prevents indefinite hangs. |

Seen in the code, and not the subject of a run.

*Merging.* `is_terminal` of `merge_queue.rs` (line 139) calls merged and
discarded entries terminal, "no further transitions possible", and the mark_*
methods refuse them; but `enqueue` checks nothing, so an entry of either kind is
queued again, and MergeLifecycle has that transition because the code has it. An
error after the claim, any `?` of `run_loop_impl` past `mark_merging`
(`loop_runner.rs:1193`, 1490, 1799, 2047, 2142, 2239, 2326 among them), ends a
merge-ralph without `handle_termination`: the entry stays in merging with nobody
at work on it, though nobody was killed. When a merge-ralph's claim is refused
because the loop was discarded meanwhile, the refusal is logged and the run goes
on, so the branch of a discarded loop can still be merged. A worktree loop
leaves its merge to an in-place loop that may never come. The lock gives no
order, so entries are not merged first in, first out. A torn line in the merge
queue makes it unreadable for everybody until it is repaired by hand. A
discarded loop's worktree can be removed between its merge-ralph's claim and
merge.

*The event loop.* An emit recovery that reads a cancellation, or accepts a
completion, clears the request and returns Terminate, which its caller takes for
"events found" (`loop_runner.rs:2391`): the loop goes on, although `mod.rs:2291`
calls `loop.cancel` an "unconditional graceful termination". A silent agent is
never given up: the fallback's own task.resume makes next_hat succeed, which
resets the count of consecutive fallbacks, although `loop_runner.rs` limits them
to three. The promise printed as text completes a loop whatever
`required_events`, `persistent` and the open tasks say, while
`check_completion_event` refuses the same promise as an event and says that
"completion is only accepted via JSONL events" (`mod.rs:626`). An event an agent
prints in `<event>` tags is logged for the history into the file the reader
reads, behind its position, and the next read takes it for an emitted one.
Guidance reaches the prompt one run late in every behaviour; LoopThrashing
cannot be reported, since `abandoned_task_redispatches` is never raised;
task_block_counts is never reset, so "3 consecutive" blocks need not be
consecutive.

*Files.* `task_store.rs` says that it "uses file locking to ensure safe
concurrent access", but add, close and fail of `ralph tools task` load and save
under two locks, so that one of them can undo another process's command after it
was answered (`overtaken` in TaskStore), and a process killed inside fs::write
takes the rest of the list with it; the bot's append_event, documented as
atomic, writes text and newline separately, so that another append can join two
events into one malformed line (`disturbed` in EventsFile); ids of tasks created
in the same second can collide (TaskStore takes them for unique); a read that
starts inside a multi-byte character would fail on every later call.

*Waves.* The aggregate timeout throws away the results of workers that ended
well, while the configuration says the aggregator activates "with whatever
results are available". A failed worker leaves a line `wave.worker.failed` and
one for each topic its hat publishes, but a worker that ends well without
emitting leaves none, so the aggregator may have nothing to be triggered by.
What an ACP worker emitted is read and dropped if its run ends with an error
(`loop_runner.rs:5700`), while a worker out of time keeps it. After a timeout
the channel of 256 lines from the terminal is neither drained nor closed (5877,
5894), so a worker killed in full flow leaves its reading thread in
`blocking_send` (5884) and its task in the join (5941) for ever. With
`enforce_hat_scope` the answers are dropped if the dispatching hat may not
publish them. Answers to a hat that runs concurrently itself are taken for a
dispatch and dropped, as are further waves in a batch and waves read by a
recovery. A wave does not look at interrupts. When the terminal's reader cannot
be cloned (5867), the child already started is not killed: it loses its terminal
and its permit, and may go on.

*Questions.* A reply is published twice, by the wait and by the event reader's
next read of the same line. `state.rs` calls its save atomic, but two at once
can leave a state no load accepts, and no save follows without a load: it stays
that way until it is removed by hand. A message handled between the sending of a
question and its recording is guidance, one written before the question and
handled after it is its answer. Commands are not recorded, so the last ones are
carried out again by the next process. An error of the wait leaves its question
pending. `/stop` and `/restart` are not looked at during a wait.

## 8. Plan

Order of work, the most important first. Done: 1 to 8.

1. MergeLifecycle, MergeQueue, then MergeFlow: the part where independent
   processes meet. Proofs: types, story, lifecycle, lock, honesty, progress.
2. EventBus, EventLoop: the heart of the program. Proofs: types, limits,
   delivery, completion, grants, cancellation, activations, progress.
3. EventChannel, EventsFile: the channel between the two worlds. Proofs: types,
   order, delivery, loss, refinement.
4. What the code does against its documents, as violated properties of small
   instances: the two in section 7; the others there have been seen by reading
   or by runs that made room for later modules.
5. TaskStore: load and save of `ralph tools task`, which changes can be lost and
   which cannot. Proofs: types, keys, answers.
6. Waves: dispatch, workers under a semaphore, deadlines, results. Proofs: types,
   concurrency, account, end, progress.
7. Hooks: dispositions, suspension, resume, stop and restart. Proofs: types, the
   state file, reasons, boundaries, stops, progress.
8. Robot: question, answer, timeout and the two threads over one file. Proofs:
   types, messages, pending questions, answers.
9. The loop registry with pid reuse and stale entries; the idempotency cache of
   the API; urgent steering's gate on `ralph emit`.

These would need the registry's file at the grain TaskStore has, and the streams
of the API. The adapters, the terminal interface, the configuration and the
prompts make up most of the repository's lines; nothing in them changes the
state these modules are about, and to the loop they are outcomes it is given.

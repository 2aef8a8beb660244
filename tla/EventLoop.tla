------------------------------ MODULE EventLoop ------------------------------
(***************************************************************************)
(* One orchestration loop: run_loop_impl of ralph-cli/src/loop_runner.rs   *)
(* drives the EventLoop of ralph-core/src/event_loop.  Each iteration      *)
(* builds a prompt from the pending events, runs an agent, which reports   *)
(* by appending lines to the events file (`ralph emit`), reads the new     *)
(* lines, publishes them on the bus and decides whether the loop is over.  *)
(*                                                                         *)
(* The agent's children may go on appending after the agent has ended, and *)
(* signals arrive at any time: the file, the task store and the signals    *)
(* are shared with the environment, everything else is the loop's own.     *)
(*                                                                         *)
(* Hooks, waves, the robot service and I/O errors are off in this module.  *)
(***************************************************************************)
EXTENDS EventBus, Sequences, FiniteSets

CONSTANTS
  Payloads,       \* payloads told apart; "pass" carries all the evidence
  Garbage,        \* a line that is not an event
  Emits,          \* the lines an agent may append
  StartTopic,     \* starting_event, task.start, or task.resume on resume
  Complete,       \* completion_promise
  Cancel,         \* cancellation_promise
  Required,       \* required_events
  Persistent,     \* persistent
  TasksGate,      \* memories.enabled: open tasks refuse completion
  EnforceScope,   \* enforce_hat_scope
  Publishes,      \* Publishes[h]: the topics hat h may publish
  Defaults,       \* Defaults[h]: default_publishes, for some of the hats
  MaxActivations, \* MaxActivations[h]: max_activations, for some of the hats
  MaxIterations, MaxFailures,
  LatePolls, EmitPolls, \* polls after the first in the two recovery loops
  Outputs,        \* what the agent's output may be like, see OutputKinds
  Signals,        \* the signals the environment may raise
  MaxUnread,      \* bound on the lines waiting in the file
  None            \* "not yet"

Events == [topic : Topics, payload : Payloads]

\* What a run may be like: whether it succeeds, mentions `ralph emit`, holds the
\* completion promise as text, and the event, if any, printed in <event> tags.
OutputKinds == [success : BOOLEAN, mentions : BOOLEAN, promise : BOOLEAN,
                printed : Events \cup {None}]
SignalKinds == {"interrupt", "stop", "restart", "gone", "budget", "guidance"}

\* Topics the orchestrator publishes; <hat>.exhausted and <hat>.scope_violation
\* are one topic each.
SystemTopics == {"task.resume", "event.malformed", "build.task.abandoned", "human.guidance",
                 "event.orphaned", "hat.exhausted", "hat.scope_violation",
                 "build.blocked", "review.blocked", "verify.failed"}

Lines == Events \cup {Garbage}

\* What record_event compares: a default event also carries its source hat,
\* which stands in for its empty payload.
Signatures == [topic : Topics, payload : Payloads \cup Hats]

\* A topic three times in a row, three malformed lines, three blocks.
Strikes == 3
MaxFallbacks == 3

Reasons == {"completed", "max_iterations", "max_runtime", "consecutive_failures",
            "loop_stale", "validation_failure", "stopped", "interrupted",
            "restart_requested", "workspace_gone", "cancelled"}

ASSUME LoopAssumption ==
  /\ SystemTopics \cup {StartTopic, Complete, Cancel} \subseteq Topics
  /\ "human.guidance" \in HumanTopics
  /\ {"text", "pass"} \subseteq Payloads
  /\ Garbage \notin Events /\ Emits \subseteq Events \cup {Garbage}
  /\ Required \subseteq Topics
  /\ \A b \in {Persistent, TasksGate, EnforceScope} : b \in BOOLEAN
  /\ Publishes \in [Hats -> SUBSET Topics]
  /\ DOMAIN Defaults \subseteq Hats /\ \A h \in DOMAIN Defaults : Defaults[h] \in Topics
  /\ DOMAIN MaxActivations \subseteq Hats
  /\ \A h \in DOMAIN MaxActivations : MaxActivations[h] \in Nat
  /\ \A n \in {MaxIterations, MaxFailures, LatePolls, EmitPolls, MaxUnread} : n \in Nat
  /\ Outputs \subseteq OutputKinds
  /\ Signals \subseteq SignalKinds
  /\ None \notin OutputKinds \cup Reasons \cup Signatures \cup Events

VARIABLES
  pc,         \* where run_loop_impl is
  iteration, failures, malformed,         \* counters of LoopState
  sig, same,  \* last_emitted_signature, consecutive_same_signature
  seen,       \* seen_topics
  cancelReq, doneReq, \* cancellation_requested, completion_requested
  blocks,     \* task_block_counts, up to Strikes; at Strikes it is abandoned
  acts, exhausted,    \* hat_activation_counts, exhausted_hats
  active,     \* last_active_hat_ids
  shown,      \* the hats whose default event may be published
  fallbacks,  \* consecutive_fallbacks
  polls,      \* polls left in a recovery loop
  out,        \* the agent's last output
  wrote,      \* agent_wrote_events
  reason,     \* the termination reason
  pending,    \* the bus
  unread,     \* lines of the events file after the reader's position
  signals,    \* signals raised and not yet taken
  openTasks,  \* whether the task store holds an open task of this loop
  granted     \* history: cancellations read and completions accepted, but for
              \* those the emit recovery has dropped

bookkeeping == <<malformed, sig, same, seen, blocks>>
prompting   == <<acts, exhausted, active, shown>>
vars == <<pc, iteration, failures, bookkeeping, cancelReq, doneReq, prompting, fallbacks,
          polls, out, wrote, reason, pending, unread, signals, openTasks, granted>>

TypeOK ==
  /\ pc \in {"head", "select", "late", "run", "ran", "emit", "judge", "verdict",
            "fallback", "done"}
  /\ {iteration, failures, malformed, same, fallbacks, polls} \subseteq Nat
  /\ sig \in Signatures \cup {None} /\ seen \subseteq Topics
  /\ {cancelReq, doneReq, wrote, openTasks} \subseteq BOOLEAN
  /\ blocks \in [Payloads -> 0..Strikes]
  /\ acts \in [Hats -> Nat]
  /\ exhausted \subseteq Hats /\ active \subseteq Hats /\ shown \subseteq Hats
  /\ out \in OutputKinds \cup {None} /\ reason \in Reasons \cup {None}
  /\ pending \in [Queues -> SUBSET Topics]
  /\ unread \in Seq(Lines)
  /\ signals \subseteq SignalKinds /\ granted \subseteq Reasons

HasPending == Queued(pending) # {}

\* initialize: the start event is on the bus, the file is read from its end.
Init ==
  /\ pc = "head"
  /\ iteration = 0 /\ failures = 0 /\ malformed = 0 /\ same = 0 /\ fallbacks = 0 /\ polls = 0
  /\ sig = None /\ out = None /\ reason = None
  /\ seen = {} /\ exhausted = {} /\ active = {} /\ shown = {} /\ granted = {} /\ signals = {}
  /\ cancelReq = FALSE /\ doneReq = FALSE /\ wrote = FALSE
  /\ blocks = [p \in Payloads |-> 0] /\ acts = [h \in Hats |-> 0]
  /\ pending = Deliver([q \in Queues |-> {}], {StartTopic})
  /\ unread = <<>>
  /\ openTasks \in {FALSE, TasksGate}

-----------------------------------------------------------------------------
(* Reading the events file *)

\* Backpressure: done events without their evidence become the opposite.
Demoted(t) == CASE t = "build.done"    -> "build.blocked"
                [] t = "review.done"   -> "review.blocked"
                [] t = "verify.passed" -> "verify.failed"
                [] OTHER               -> t
Checked(e) == IF e.payload = "pass" THEN e ELSE [e EXCEPT !.topic = Demoted(e.topic)]

\* The reader hands over all the unread lines at once: b, a sequence.  The
\* definitions below are about places in it.
IsEvent(b)  == {i \in 1..Len(b) : b[i] # Garbage}
Allowed(e)  == EnforceScope /\ active # {} => \E h \in active : e.topic \in Publishes[h]
InScope(b)  == {i \in IsEvent(b) : Allowed(b[i])}
Cancels(b)  == \E i \in InScope(b) : b[i].topic = Cancel
\* Completion counts only as the last event of the batch.
Completes(b) == \E i \in InScope(b) : /\ b[i].topic = Complete
                                     /\ \A j \in InScope(b) : j <= i
Plain(b)    == {i \in InScope(b) : b[i].topic \notin {Cancel, Complete}}
Accepted(b) == {Checked(b[i]) : i \in Plain(b)}

LastPlain(b) == CHOOSE i \in Plain(b) : \A j \in Plain(b) : j <= i
\* The places of the last signature's repetitions at the end of the batch.
Repeats(b) == {i \in Plain(b) : \A j \in Plain(b) : i <= j => Checked(b[j]) = Checked(b[LastPlain(b)])}

\* record_event over the batch; repeated task.complete events do not count.
SameAfter(b) ==
  IF Plain(b) = {} THEN same
  ELSE IF Checked(b[LastPlain(b)]).topic = "task.complete" THEN 0
  ELSE Cardinality(Repeats(b)) +
       (IF Repeats(b) = Plain(b) /\ Checked(b[LastPlain(b)]) = sig THEN same ELSE 0)

\* Mutant: blocks are counted past the third.
BlocksUncapped(b) ==
  [p \in Payloads |->
     blocks[p] + Cardinality({i \in Plain(b) : Checked(b[i]) = [topic |-> "build.blocked", payload |-> p]})]

\* task_block_counts; the third block abandons the task, further ones are alike.
BlocksAfter(b) ==
  [p \in Payloads |->
     LET n == blocks[p] + Cardinality({i \in Plain(b) : Checked(b[i]) = [topic |-> "build.blocked", payload |-> p]})
     IN  IF n < Strikes THEN n ELSE Strikes]

\* Everything process_parse_result publishes for the batch.
Published(b) ==
  {e.topic : e \in Accepted(b)}
    \cup (IF IsEvent(b) # 1..Len(b) THEN {"event.malformed"} ELSE {})
    \cup (IF InScope(b) # IsEvent(b) THEN {"hat.scope_violation"} ELSE {})
    \cup (IF \E p \in Payloads : blocks[p] < Strikes /\ BlocksAfter(b)[p] = Strikes
          THEN {"build.task.abandoned"} ELSE {})

RestartAsked(b) ==
  \E e \in Accepted(b) : e.topic \in {"human.response", "user.prompt"} /\ e.payload = "restart"

\* process_events_from_jsonl, but for the bus and the two request flags, which
\* its callers go on with.
Digest(b) ==
  /\ unread' = <<>>
  /\ malformed' = IF IsEvent(b) # {} THEN 0 ELSE malformed + Len(b)
  /\ same' = SameAfter(b)
  /\ sig' = IF Plain(b) = {} THEN sig ELSE Checked(b[LastPlain(b)])
  /\ seen' = seen \cup {e.topic : e \in Accepted(b)}
  /\ blocks' = BlocksAfter(b)
  /\ signals' = signals \cup (IF RestartAsked(b) THEN {"restart"} ELSE {})

-----------------------------------------------------------------------------
(* Ending *)

Terminate(r) == pc' = "done" /\ reason' = r

\* Mutant: completion is not checked against the open tasks.
EarnedWhateverIsOpen(s) == Required \subseteq s /\ ~Persistent

\* check_completion_event's conditions, s being the topics seen.
Earned(s) == Required \subseteq s /\ ~Persistent /\ ~(TasksGate /\ openTasks)

\* Mutant: completion comes before cancellation.
VerdictCompletionFirst(c, d, s) ==
  IF d /\ Earned(s) THEN "completed" ELSE IF c THEN "cancelled" ELSE None

\* check_cancellation_event, then check_completion_event, on the flags c and d:
\* the reason they return, if any, and what a rejected completion publishes.
Verdict(c, d, s) == IF c THEN "cancelled" ELSE IF d /\ Earned(s) THEN "completed" ELSE None
Rejection(c, d, s) == IF ~c /\ d /\ ~Earned(s) THEN {"task.resume"} ELSE {}

\* The flag that was looked at is cleared; a cancellation leaves doneReq alone.
ClearFlags(c, d) ==
  /\ cancelReq' = FALSE
  /\ doneReq' = (c /\ d)
\* For the properties: a cancellation read and a completion accepted.
Grant(b, v) ==
  granted' = granted \cup (IF Cancels(b) THEN {"cancelled"} ELSE {})
                     \cup (IF v = "completed" THEN {v} ELSE {})

\* check_termination, in its order; the stop file is removed by the check.
Limit(i, f, sgs) ==
  CASE i >= MaxIterations      -> "max_iterations"
    [] i < MaxIterations /\ "budget" \in sgs -> "max_runtime"
    [] OTHER -> IF f >= MaxFailures THEN "consecutive_failures"
                ELSE IF malformed >= Strikes THEN "validation_failure"
                ELSE IF same >= Strikes THEN "loop_stale"
                ELSE IF "stop" \in sgs THEN "stopped"
                ELSE IF "restart" \in sgs THEN "restart_requested"
                ELSE IF "gone" \in sgs THEN "workspace_gone"
                ELSE None
AfterLimit(i, f, sgs) == IF Limit(i, f, sgs) = "stopped" THEN sgs \ {"stop"} ELSE sgs

-----------------------------------------------------------------------------
(* The iteration, step by step *)

\* The head of the loop: interrupt, guidance, check_termination.
Interrupted ==
  /\ pc = "head" /\ "interrupt" \in signals
  /\ Terminate("interrupted")
  /\ UNCHANGED <<iteration, failures, bookkeeping, cancelReq, doneReq, prompting, fallbacks,
                 polls, out, wrote, pending, unread, signals, openTasks, granted>>

\* Guidance queued from the TUI or the RPC channel is appended to the file.
Drained == IF "guidance" \in signals
           THEN Append(unread, [topic |-> "human.guidance", payload |-> "text"])
           ELSE unread

LoopHead ==
  /\ pc = "head" /\ "interrupt" \notin signals
  /\ unread' = Drained
  /\ LET sgs == signals \ {"guidance"}
         r   == Limit(iteration, failures, sgs)
     IN  /\ signals' = AfterLimit(iteration, failures, sgs)
         /\ IF r = None THEN pc' = "select" /\ UNCHANGED reason ELSE Terminate(r)
  /\ UNCHANGED <<iteration, failures, bookkeeping, cancelReq, doneReq, prompting, fallbacks,
                 polls, out, wrote, pending, openTasks, granted>>

\* Mutant: the limit is off by one.
ExhaustedLate(h) == h \in DOMAIN MaxActivations /\ acts[h] > MaxActivations[h]

\* check_hat_exhaustion
Exhausted(h) == h \in DOMAIN MaxActivations /\ acts[h] >= MaxActivations[h]

\* next_hat found work: build_prompt takes every queue, drops those of
\* exhausted hats and counts the hats the rest activates.
BuildPrompt ==
  /\ pc = "select" /\ HasPending
  /\ LET dropped == {h \in Hats : pending[h] # {} /\ Exhausted(h)}
         system  == IF dropped \subseteq exhausted THEN {} ELSE {"hat.exhausted"}
         batch   == (UNION {pending[q] : q \in Queues \ dropped}) \cup system
         chosen  == ActiveHats(batch \ {"human.guidance"})
         preview == ActiveHats(UNION {pending[q] : q \in Queues \ {Human}})
     IN  /\ pending' = Deliver([q \in Queues |-> {}], system)
         /\ exhausted' = exhausted \cup dropped
         /\ active' = chosen
         /\ acts' = [h \in Hats |-> IF h \in chosen THEN acts[h] + 1 ELSE acts[h]]
         /\ IF chosen # {} \/ preview = {} THEN shown' = chosen
            ELSE \E h \in preview : shown' = {h}
  /\ pc' = "run" /\ fallbacks' = 0
  /\ UNCHANGED <<iteration, failures, bookkeeping, cancelReq, doneReq, polls, out, wrote,
                 reason, unread, signals, openTasks, granted>>

NothingPending ==
  /\ pc = "select" /\ ~HasPending
  /\ pc' = "late" /\ polls' = LatePolls
  /\ UNCHANGED <<iteration, failures, bookkeeping, cancelReq, doneReq, prompting, fallbacks,
                 out, wrote, reason, pending, unread, signals, openTasks, granted>>

\* Mutant: a run that does not speak of `ralph emit` is free.
CountsOnlyEmitting(o) == IF o.mentions THEN 1 ELSE 0

\* process_output counts every run of the agent.
CountsAsIteration(o) == 1

\* log_events_from_output: the printed event goes into the events file, after a
\* note if no hat is triggered by it.
Orphaned == [topic |-> "event.orphaned", payload |-> "text"]
Logged(o) ==
  IF o.printed = None THEN <<>>
  ELSE IF Subscribers(o.printed.topic) = {} THEN <<Orphaned, o.printed>> ELSE <<o.printed>>

\* The agent ends: log_events_from_output, then process_output.  The latter's
\* audit of file modifications is about Ralph, who may edit anything.
AgentEnds ==
  /\ pc = "run"
  /\ \E o \in Outputs :
       /\ out' = o
       /\ unread' = unread \o Logged(o)
       /\ iteration' = iteration + CountsAsIteration(o)
       /\ failures' = IF o.success THEN 0 ELSE failures + 1
       /\ signals' = AfterLimit(iteration', failures', signals)
       /\ LET r == Limit(iteration', failures', signals)
          IN  IF r = None THEN pc' = "ran" /\ UNCHANGED reason ELSE Terminate(r)
  /\ UNCHANGED <<bookkeeping, cancelReq, doneReq, prompting, fallbacks, polls, wrote, pending,
                 openTasks, granted>>

\* The run is raced against the interrupt signal.
RunInterrupted ==
  /\ pc = "run" /\ "interrupt" \in signals
  /\ Terminate("interrupted")
  /\ UNCHANGED <<iteration, failures, bookkeeping, cancelReq, doneReq, prompting, fallbacks,
                 polls, out, wrote, pending, unread, signals, openTasks, granted>>

\* process_events_from_jsonl_with_waves after the run, no waves being on.
ReadEvents ==
  /\ pc = "ran"
  /\ Digest(unread) /\ Grant(unread, None)
  /\ pending' = Deliver(pending, Published(unread))
  /\ cancelReq' = (cancelReq \/ Cancels(unread))
  /\ doneReq' = (doneReq \/ Completes(unread))
  /\ wrote' = (Plain(unread) # {})
  /\ IF ~wrote' /\ out.mentions
     THEN pc' = "emit" /\ polls' = EmitPolls
     ELSE pc' = "judge" /\ UNCHANGED polls
  /\ UNCHANGED <<iteration, failures, prompting, fallbacks, out, reason, openTasks>>

\* One round of poll_for_late_events: read, check both requests, look for work.
\* v is the reason found, work whether there is something pending; the callers
\* go on with both.
PollRound(v, work) ==
  LET c == cancelReq \/ Cancels(unread)
      d == doneReq \/ Completes(unread)
  IN  /\ Digest(unread)
      /\ v = Verdict(c, d, seen')
      /\ ClearFlags(c, d)
      /\ pending' = Deliver(pending, Published(unread) \cup Rejection(c, d, seen'))
      /\ work = (Queued(pending') # {})

\* Mutant: the reason is dropped, as after a run.
LateTerminatesDropped ==
  /\ pc = "late"
  /\ \E v \in {"cancelled", "completed"}, w \in BOOLEAN : PollRound(v, w) /\ Grant(unread, v)
  /\ pc' = "head"
  /\ UNCHANGED <<iteration, failures, prompting, fallbacks, polls, out, wrote, reason, openTasks>>

\* recover_late_events_before_fallback: a round that ends the recovery.
LateTerminates ==
  /\ pc = "late"
  /\ \E v \in {"cancelled", "completed"}, w \in BOOLEAN :
       PollRound(v, w) /\ Terminate(v) /\ Grant(unread, v)
  /\ UNCHANGED <<iteration, failures, prompting, fallbacks, polls, out, wrote, openTasks>>

\* Mutant: recovered work is run at once, without a look at the limits.
LateWorkUnlimited ==
  /\ pc = "late"
  /\ PollRound(None, TRUE) /\ Grant(unread, None)
  /\ pc' = "select" /\ fallbacks' = 0
  /\ UNCHANGED <<iteration, failures, prompting, polls, out, wrote, reason, openTasks>>

LateWork ==
  /\ pc = "late"
  /\ PollRound(None, TRUE) /\ Grant(unread, None)
  /\ pc' = "head" /\ fallbacks' = 0
  /\ UNCHANGED <<iteration, failures, prompting, polls, out, wrote, reason, openTasks>>

LateNothing ==
  /\ pc = "late"
  /\ PollRound(None, FALSE) /\ Grant(unread, None)
  /\ IF polls > 0 THEN polls' = polls - 1 /\ UNCHANGED pc
                  ELSE pc' = "fallback" /\ UNCHANGED polls
  /\ UNCHANGED <<iteration, failures, prompting, fallbacks, out, wrote, reason, openTasks>>

\* inject_fallback_event: task.resume, for Ralph, as last_hat is never another.
Fallback ==
  /\ pc = "fallback"
  /\ fallbacks' = fallbacks + 1
  /\ IF fallbacks' > MaxFallbacks
     THEN Terminate("stopped") /\ UNCHANGED pending
     ELSE /\ pc' = "head" /\ UNCHANGED reason
          /\ pending' = Deliver(pending, {"task.resume"})
  /\ UNCHANGED <<iteration, failures, bookkeeping, cancelReq, doneReq, prompting, polls, out,
                 wrote, unread, signals, openTasks, granted>>

\* recover_expected_emit_after_output: the round has cleared the request it
\* found, the caller drops the reason and takes it for an event of the agent.
\* Whatever was granted before or in this round is forgotten.
EmitFound ==
  /\ pc = "emit"
  /\ \E v \in {"cancelled", "completed", None}, w \in BOOLEAN :
       PollRound(v, w) /\ (v # None \/ w) /\ granted' = granted \ {v}
  /\ wrote' = TRUE /\ pc' = "judge"
  /\ UNCHANGED <<iteration, failures, prompting, fallbacks, polls, out, reason, openTasks>>

EmitNothing ==
  /\ pc = "emit"
  /\ PollRound(None, FALSE) /\ Grant(unread, None)
  /\ IF polls > 0 THEN polls' = polls - 1 /\ UNCHANGED pc
                  ELSE pc' = "judge" /\ UNCHANGED polls
  /\ UNCHANGED <<iteration, failures, prompting, fallbacks, out, wrote, reason, openTasks>>

\* check_default_publishes for the first of the shown hats, in an order left
\* open, that has a default; events already pending end the search.
DefaultOf(h) == [topic |-> Defaults[h], payload |-> h]
NoDefault == \/ wrote
             \/ shown \cap DOMAIN Defaults = {}
             \/ HasPending /\ shown \ DOMAIN Defaults # {}

PublishDefault ==
  /\ pc = "judge" /\ ~wrote
  /\ \E h \in shown \cap DOMAIN Defaults :
       LET e == DefaultOf(h)
       IN  /\ pending' = Deliver(pending, {e.topic})
           /\ seen' = seen \cup {e.topic}
           /\ doneReq' = (doneReq \/ e.topic = Complete)
           /\ sig' = e
           /\ same' = CASE e.topic = "task.complete"             -> 0
                       [] e.topic # "task.complete" /\ e = sig -> same + 1
                       [] OTHER                                -> 1
  /\ pc' = "verdict"
  /\ UNCHANGED <<iteration, failures, malformed, blocks, cancelReq, prompting, fallbacks, polls,
                 out, wrote, reason, unread, signals, openTasks, granted>>

SkipDefault ==
  /\ pc = "judge" /\ NoDefault
  /\ pc' = "verdict"
  /\ UNCHANGED <<iteration, failures, bookkeeping, cancelReq, doneReq, prompting, fallbacks,
                 polls, out, wrote, reason, pending, unread, signals, openTasks, granted>>

\* Cancellation, completion, the promise in the output's text, or on we go.
Judge ==
  /\ pc = "verdict"
  /\ LET v == Verdict(cancelReq, doneReq, seen)
     IN  /\ Grant(<<>>, v)
         /\ ClearFlags(cancelReq, doneReq)
         /\ pending' = Deliver(pending, Rejection(cancelReq, doneReq, seen))
         /\ CASE v # None -> Terminate(v)
              [] v = None /\ ~wrote /\ out.promise -> Terminate("completed")
              [] OTHER -> pc' = "head" /\ UNCHANGED reason
  /\ UNCHANGED <<iteration, failures, bookkeeping, prompting, fallbacks, polls, out, wrote,
                 unread, signals, openTasks>>

-----------------------------------------------------------------------------
(* The environment *)

\* The agent or a child it left behind appends a line with `ralph emit`.
Emit ==
  /\ pc # "done" /\ Len(unread) < MaxUnread
  /\ \E l \in Emits : unread' = Append(unread, l)
  /\ UNCHANGED <<pc, iteration, failures, bookkeeping, cancelReq, doneReq, prompting, fallbacks,
                 polls, out, wrote, reason, pending, signals, openTasks, granted>>

\* Tasks are opened and closed by the agent and by other processes.
TouchTasks ==
  /\ pc # "done" /\ TasksGate
  /\ openTasks' = ~openTasks
  /\ UNCHANGED <<pc, iteration, failures, bookkeeping, cancelReq, doneReq, prompting, fallbacks,
                 polls, out, wrote, reason, pending, unread, signals, granted>>

Raise ==
  /\ pc # "done"
  /\ \E s \in Signals \ signals : signals' = signals \cup {s}
  /\ UNCHANGED <<pc, iteration, failures, bookkeeping, cancelReq, doneReq, prompting, fallbacks,
                 polls, out, wrote, reason, pending, unread, openTasks, granted>>

Step == \/ Interrupted \/ LoopHead \/ BuildPrompt \/ NothingPending
        \/ AgentEnds \/ RunInterrupted \/ ReadEvents
        \/ LateTerminates \/ LateWork \/ LateNothing \/ Fallback
        \/ EmitFound \/ EmitNothing
        \/ PublishDefault \/ SkipDefault \/ Judge

Next == Step \/ Emit \/ TouchTasks \/ Raise

Spec == Init /\ [][Next]_vars

\* The loop's thread keeps running, and adapters end every agent in time.
FairSpec == Spec /\ WF_vars(Step)

-----------------------------------------------------------------------------
(* What the loop promises *)

\* No agent is started or running once a counter has reached its limit: the
\* iterations, the failures in a row, the malformed lines in a row and the
\* repetitions of one event.
RunsWithinLimits ==
  pc = "run" => /\ iteration < MaxIterations /\ failures < MaxFailures
                /\ malformed < Strikes /\ same < Strikes

\* A hat is never activated more often than its max_activations.
ActivationsBounded == \A h \in DOMAIN MaxActivations : acts[h] <= MaxActivations[h]

\* An event that counts as seen, for required_events, is on a queue: no
\* accepted event is lost for want of a subscriber.
SeenIsDelivered == [][seen' \ seen \subseteq Queued(pending')]_vars

\* A loop is completed only with all its required events seen and, if its tasks
\* count, with none of them open at that very moment, however often completion
\* was rejected before.  The promise in the text of an agent without events also
\* completes the loop, and Judge checks neither for it: that way is exempt.
CompletionIsEarned ==
  [][reason' = "completed" /\ reason # "completed" /\ ~(pc = "verdict" /\ ~wrote /\ out.promise)
       => Required \subseteq seen' /\ (TasksGate => ~openTasks)]_vars

\* A cancellation the loop has read, or a completion it has accepted, ends it,
\* and no agent runs any more: whatever else is read, counted or raised, and
\* with one exemption, which is what granted leaves out.  Those that the
\* recovery of an expected `ralph emit` finds are dropped by its caller; nothing
\* else drops one.
GrantedEndsLoop == pc = "run" => granted = {}

\* A loop that has read a cancellation, and not dropped it in the recovery of an
\* expected `ralph emit`, is reported as cancelled.
CancelledIsReported == pc = "done" /\ "cancelled" \in granted => reason = "cancelled"

\* The loop ends, whatever the agent does.
Terminates == <>(pc = "done")
=============================================================================

-------------------------------- MODULE Hooks --------------------------------
(***************************************************************************)
(* Lifecycle hooks of one loop: run_loop_impl of ralph-cli/src/            *)
(* loop_runner.rs runs the hooks configured for a phase at each boundary   *)
(* of the loop.  A failing hook warns, blocks (the loop ends in an error)  *)
(* or suspends the loop, which then waits for a file another process       *)
(* writes into the workspace: stop-requested, restart-requested or, from   *)
(* `ralph loops resume', resume-requested.                                 *)
(*                                                                         *)
(* A loop may be killed at any point and another started in the same       *)
(* workspace, which finds the files as they were left.  What the loop does *)
(* between its boundaries is EventLoop's; here it goes on or ends.         *)
(***************************************************************************)
EXTENDS Naturals, Sequences

CONSTANTS
  HooksOf,       \* HooksOf[p]: the hooks of phase p, in order
  Backoffs,      \* RETRY_BACKOFF_DELAYS_MS: how many retries there are
  MaxIterations, \* of one loop
  MaxLoops,      \* bound on the loops run one after another in the workspace
  MaxRequests,   \* bound on the stops and resumes requested
  None           \* no file, no reason

Phases == {"pre.loop.start", "post.loop.start", "pre.iteration.start", "post.iteration.start",
           "pre.plan.created", "post.plan.created", "pre.human.interact", "post.human.interact",
           "pre.loop.complete", "post.loop.complete", "pre.loop.error", "post.loop.error"}
OnError == {"warn", "block", "suspend"}
Modes   == {"wait_for_resume", "retry_backoff", "wait_then_retry"}
HookSpec == [onError : OnError, mode : Modes]

ASSUME HooksAssumption ==
  /\ HooksOf \in [Phases -> Seq(HookSpec)]
  /\ \A n \in {Backoffs, MaxIterations, MaxLoops, MaxRequests} : n \in Nat

Reasons == {"completed", "stopped", "restart_requested", "interrupted", "cancelled", "other"}
\* How a loop may be over: with a reason, in an error, killed.
Ends == Reasons \cup {"error", "killed"}

\* What suspend-state.json tells: a phase, and which of its hooks.
Records == [phase : Phases, hook : Nat]

ASSUME NoneAssumption == None \notin Ends /\ None \notin Records

PreEnd  == {"pre.loop.complete", "pre.loop.error"}
PostEnd == {"post.loop.complete", "post.loop.error"}
PreOf(r)  == IF r = "completed" THEN "pre.loop.complete" ELSE "pre.loop.error"
PostOf(r) == IF r = "completed" THEN "post.loop.complete" ELSE "post.loop.error"

\* The boundaries of an iteration and the places between them, in order.
Walk == [p \in {"pre.iteration.start", "post.iteration.start", "pre.plan.created",
                "pre.human.interact", "post.human.interact", "post.plan.created"} |->
           CASE p = "pre.iteration.start"  -> "select"
             [] p = "post.iteration.start" -> "agent"
             [] p = "pre.plan.created"     -> "pre.human.interact"
             [] p = "pre.human.interact"   -> "post.human.interact"
             [] p = "post.human.interact"  -> "post.plan.created"
             [] p = "post.plan.created"    -> "judge"]
\* Boundaries reached only if there is something pending, a plan, a question.
Optional == DOMAIN Walk \ {"post.iteration.start"}

Places == Phases \cup {"head", "select", "agent", "judge", "publish", "over"}

VARIABLES
  at,        \* where the loop is
  outcomes,  \* dispositions of the phase's hooks that have been dispatched
  wait,      \* what the dispatch waits for: none, backoff, await, gate
  poll,      \* the signal file to be looked at next
  tries,     \* retries left in a backoff
  iteration,
  reason,    \* why the loop ends
  published, \* the reason loop.terminate was published with
  interrupt, \* SIGINT, SIGTERM, SIGHUP or the TUI's Ctrl+C, since handled
  state,     \* suspend-state.json: None or the phase and hook waited for
  stop, restart, resume, \* the three signal files
  operator,  \* `ralph loops resume', between its checks and its write
  loops, requests,       \* counters for the bounds
  inherited, \* history: the state was left by an earlier loop
  asked      \* history: this wait has been looked at by the operator

dispatch == <<outcomes, wait, poll, tries>>
ending   == <<reason, published>>
files    == <<state, stop, restart, resume>>
others   == <<operator, loops, requests>>
history  == <<inherited, asked>>
vars == <<at, dispatch, iteration, ending, interrupt, files, others, history>>

TypeOK ==
  /\ at \in Places
  /\ outcomes \in Seq(OnError \cup {"pass"})
  /\ wait \in {"none", "backoff", "await", "gate"}
  /\ poll \in {"stop", "restart", "resume", "resumed", "retry"}
  /\ tries \in Nat /\ iteration \in 0..MaxIterations
  /\ reason \in Ends \cup {None} /\ published \in Reasons \cup {None}
  /\ state \in Records \cup {None}
  /\ {interrupt, stop, restart, resume, inherited, asked} \subseteq BOOLEAN
  /\ operator \in {"idle", "writes"}
  /\ loops \in Nat /\ requests \in Nat

Running == at # "over"
Waiting == wait = "gate" \/ (wait = "await" /\ poll # "retry")

Init ==
  /\ at = "pre.loop.start" /\ outcomes = <<>> /\ wait = "none" /\ poll = "stop" /\ tries = 0
  /\ iteration = 0 /\ reason = None /\ published = None /\ interrupt = FALSE
  /\ state = None /\ stop = FALSE /\ restart = FALSE /\ resume = FALSE
  /\ operator = "idle" /\ loops = 1 /\ requests = 0 /\ inherited = FALSE /\ asked = FALSE

-----------------------------------------------------------------------------
(* Running the hooks of a phase: dispatch_phase_event_hooks *)

Hooks == HooksOf[at]
This  == Len(outcomes) + 1  \* the hook being dispatched
Dispatching == at \in Phases /\ Len(outcomes) < Len(Hooks)
Record(n) == [phase |-> at, hook |-> n]

\* The dispatch of this hook ends with disposition d; the next one is run,
\* whatever d is.
Settle(d) == /\ outcomes' = Append(outcomes, d)
             /\ wait' = "none" /\ poll' = "stop" /\ tries' = 0

\* The first attempt.  ok: it exits with 0, in time, with sound mutations.
Attempt ==
  /\ Dispatching /\ wait = "none"
  /\ \E ok \in BOOLEAN :
       LET h == Hooks[This]
           d == IF ok THEN "pass" ELSE h.onError
       IN  CASE d = "suspend" /\ h.mode = "retry_backoff" ->
                  /\ wait' = "backoff" /\ tries' = Backoffs
                  /\ UNCHANGED <<outcomes, poll, state, history>>
             [] d = "suspend" /\ h.mode = "wait_then_retry" ->
                  /\ wait' = "await" /\ state' = Record(This) /\ inherited' = FALSE /\ asked' = FALSE
                  /\ UNCHANGED <<outcomes, poll, tries>>
             [] OTHER -> Settle(d) /\ UNCHANGED <<state, history>>
  /\ UNCHANGED <<at, iteration, ending, interrupt, stop, restart, resume, others>>

\* Mutant: it is retried for ever.
BackoffEndless ==
  /\ wait = "backoff"
  /\ IF stop \/ restart THEN Settle("suspend")
     ELSE \E ok \in BOOLEAN :
            IF ok THEN Settle("pass")
            ELSE tries' = tries - 1 /\ UNCHANGED <<outcomes, wait, poll>>
  /\ UNCHANGED <<at, iteration, ending, interrupt, files, others, history>>

\* run_retry_backoff_policy: a delay, cut short by a stop or a restart that is
\* left for the gate, and a retry; after the last one the hook suspends.
Backoff ==
  /\ wait = "backoff"
  /\ IF stop \/ restart \/ tries = 0 THEN Settle("suspend")
     ELSE \E ok \in BOOLEAN :
            IF ok THEN Settle("pass")
            ELSE tries' = tries - 1 /\ UNCHANGED <<outcomes, wait, poll>>
  /\ UNCHANGED <<at, iteration, ending, interrupt, files, others, history>>

\* Mutant: the stop is taken here.
AwaitStopTakes ==
  /\ wait = "await" /\ poll = "stop"
  /\ IF stop THEN Settle("suspend") ELSE poll' = "restart" /\ UNCHANGED <<outcomes, wait, tries>>
  /\ stop' = FALSE
  /\ UNCHANGED <<at, iteration, ending, interrupt, state, restart, resume, others, history>>

\* Mutant: only a resume ends this wait.
AwaitStopBlind ==
  /\ wait = "await" /\ poll = "stop"
  /\ poll' = "restart"
  /\ UNCHANGED <<at, outcomes, wait, tries, iteration, ending, interrupt, files, others, history>>

\* wait_for_suspend_signal_with_poll: a stop or a restart is not taken but left
\* for the gate, and so is the state.
AwaitStop ==
  /\ wait = "await" /\ poll = "stop"
  /\ IF stop THEN Settle("suspend") ELSE poll' = "restart" /\ UNCHANGED <<outcomes, wait, tries>>
  /\ UNCHANGED <<at, iteration, ending, interrupt, files, others, history>>

AwaitRestart ==
  /\ wait = "await" /\ poll = "restart"
  /\ IF restart THEN Settle("suspend") ELSE poll' = "resume" /\ UNCHANGED <<outcomes, wait, tries>>
  /\ UNCHANGED <<at, iteration, ending, interrupt, files, others, history>>

\* consume_resume_requested; the state goes in the next step.
ConsumeResume == /\ poll' = IF resume THEN "resumed" ELSE "stop"
                 /\ resume' = FALSE

AwaitResume ==
  /\ wait = "await" /\ poll = "resume"
  /\ ConsumeResume
  /\ UNCHANGED <<at, outcomes, wait, tries, iteration, ending, interrupt, state, stop, restart,
                 others, history>>

AwaitCleared ==
  /\ wait = "await" /\ poll = "resumed"
  /\ state' = None /\ inherited' = FALSE /\ poll' = "retry"
  /\ UNCHANGED <<at, outcomes, wait, tries, iteration, ending, interrupt, stop, restart, resume,
                 others, asked>>

\* The single retry of wait_then_retry.
Retry ==
  /\ wait = "await" /\ poll = "retry"
  /\ \E ok \in BOOLEAN : Settle(IF ok THEN "pass" ELSE "suspend")
  /\ UNCHANGED <<at, iteration, ending, interrupt, files, others, history>>

-----------------------------------------------------------------------------
(* Leaving a boundary *)

Dispatched == at \in Phases /\ Len(outcomes) = Len(Hooks) /\ wait = "none"
\* Mutant: only the last hook's outcome is looked at.
HasLast(d) == outcomes # <<>> /\ outcomes[Len(outcomes)] = d

\* The find of fail_if_blocking_*_outcomes and wait_for_resume_if_suspended.
Has(d) == \E n \in 1..Len(outcomes) : outcomes[n] = d

Go(p) == /\ at' = p
         /\ outcomes' = <<>> /\ wait' = "none" /\ poll' = "stop" /\ tries' = 0

\* The loop is over with reason r.  main clears the restart signal, and takes
\* nothing else, before the loop is started again.
Over(r) == /\ Go("over") /\ reason' = r
           /\ restart' = (restart /\ r # "restart_requested")

\* Mutant: a reason found in the hooks before loop.terminate is not published.
FinishUnpublished(r) ==
  IF at \in PostEnd THEN Over(r)
  ELSE /\ Go(IF at \in PreEnd THEN PostOf(r) ELSE PreOf(r))
       /\ reason' = r /\ UNCHANGED restart

\* The loop ends with reason r: by way of the hooks for it, unless these are
\* what is being left.
Finish(r) ==
  IF at \in PostEnd THEN Over(r)
  ELSE /\ Go(IF at \in PreEnd THEN "publish" ELSE PreOf(r))
       /\ reason' = r /\ UNCHANGED restart

\* On to what comes after the boundary.
Onward ==
  CASE at = "pre.loop.start"  -> Go("post.loop.start") /\ UNCHANGED <<reason, restart>>
    [] at = "post.loop.start" -> Go("head") /\ UNCHANGED <<reason, restart>>
    [] at \in DOMAIN Walk     -> Go(Walk[at]) /\ UNCHANGED <<reason, restart>>
    [] OTHER                  -> Finish(reason)

\* fail_if_blocking_*_outcomes: run_loop_impl returns the error, past the
\* termination hooks, loop.terminate and whatever signal is waiting.
Blocked ==
  /\ Dispatched /\ Has("block")
  /\ Over("error")
  /\ UNCHANGED <<iteration, published, interrupt, state, stop, resume, others, history>>

Pass ==
  /\ Dispatched /\ ~Has("block") /\ ~Has("suspend")
  /\ Onward
  /\ UNCHANGED <<iteration, published, interrupt, state, stop, resume, others, history>>

\* wait_for_resume_if_suspended: the first suspending hook is written down.
FirstSuspending(n) == outcomes[n] = "suspend" /\ \A m \in 1..(n - 1) : outcomes[m] # "suspend"

Suspend ==
  /\ Dispatched /\ ~Has("block")
  /\ \E n \in 1..Len(outcomes) : FirstSuspending(n) /\ state' = Record(n)
  /\ inherited' = FALSE /\ asked' = FALSE
  /\ wait' = "gate" /\ poll' = "stop"
  /\ UNCHANGED <<at, outcomes, tries, iteration, ending, interrupt, stop, restart, resume, others>>

\* clear_suspend_wait_artifacts
ClearArtifacts == state' = None /\ resume' = FALSE /\ inherited' = FALSE

\* The stop signal is taken, so a hook of the termination can suspend again.
GateStop ==
  /\ wait = "gate" /\ poll = "stop"
  /\ IF stop THEN stop' = FALSE /\ ClearArtifacts /\ Finish("stopped")
             ELSE /\ poll' = "restart"
                  /\ UNCHANGED <<at, outcomes, wait, tries, reason, stop, restart, resume, state, history>>
  /\ UNCHANGED <<iteration, published, interrupt, others, asked>>

\* Mutant: the restart signal is taken like a stop.
GateRestartTakes ==
  /\ wait = "gate" /\ poll = "restart"
  /\ IF restart
     THEN /\ ClearArtifacts /\ restart' = FALSE /\ reason' = "restart_requested"
          /\ Go(IF at \in PostEnd THEN "over" ELSE IF at \in PreEnd THEN "publish"
                ELSE PreOf("restart_requested"))
     ELSE /\ poll' = "resume"
          /\ UNCHANGED <<at, outcomes, wait, tries, reason, restart, resume, state, inherited>>
  /\ UNCHANGED <<iteration, published, interrupt, stop, others, asked>>

\* The restart signal stays, for the gates to come.
GateRestart ==
  /\ wait = "gate" /\ poll = "restart"
  /\ IF restart THEN ClearArtifacts /\ Finish("restart_requested")
                ELSE /\ poll' = "resume"
                     /\ UNCHANGED <<at, outcomes, wait, tries, reason, restart, resume, state, history>>
  /\ UNCHANGED <<iteration, published, interrupt, stop, others, asked>>

GateResume ==
  /\ wait = "gate" /\ poll = "resume"
  /\ ConsumeResume
  /\ UNCHANGED <<at, outcomes, wait, tries, iteration, ending, interrupt, state, stop, restart,
                 others, history>>

\* Mutant: the state file is left behind.
GateOpensDirty ==
  /\ wait = "gate" /\ poll = "resumed"
  /\ Onward
  /\ UNCHANGED <<iteration, published, interrupt, state, stop, resume, others, history>>

GateOpens ==
  /\ wait = "gate" /\ poll = "resumed"
  /\ state' = None /\ inherited' = FALSE
  /\ Onward
  /\ UNCHANGED <<iteration, published, interrupt, stop, resume, others, asked>>

-----------------------------------------------------------------------------
(* Between the boundaries *)

\* check_termination: the limits come first, and leave the signals alone.
Check(onward) ==
  \/ Finish("other") /\ UNCHANGED stop
  \/ /\ iteration' < MaxIterations
     /\ CASE stop                 -> stop' = FALSE /\ Finish("stopped")
          [] ~stop /\ restart     -> Finish("restart_requested") /\ UNCHANGED stop
          [] ~stop /\ ~restart    -> Go(onward) /\ UNCHANGED <<reason, stop, restart>>

Between == UNCHANGED <<published, interrupt, state, resume, others, history>>

HeadInterrupted ==
  /\ at = "head" /\ interrupt
  /\ Finish("interrupted")
  /\ UNCHANGED <<iteration, stop>> /\ Between

LoopHead ==
  /\ at = "head" /\ ~interrupt
  /\ UNCHANGED iteration /\ Check("pre.iteration.start")
  /\ Between

\* A boundary with nothing pending, no plan or no question is none.
Skip ==
  /\ at \in Optional /\ outcomes = <<>> /\ wait = "none"
  /\ Go(Walk[at])
  /\ UNCHANGED <<iteration, reason, stop, restart>> /\ Between

\* A hat, a fallback, late events that end the loop, or nothing to go on with.
Select ==
  /\ at = "select"
  /\ \/ \E p \in {"post.iteration.start", "head"} : Go(p) /\ UNCHANGED <<reason, restart>>
     \/ \E r \in {"completed", "cancelled", "stopped"} : Finish(r)
  /\ UNCHANGED <<iteration, stop>> /\ Between

\* The agent ends, or is ended by the interrupt it is raced against; then the
\* limits are checked.
Agent ==
  /\ at = "agent"
  /\ \/ interrupt /\ Finish("interrupted") /\ UNCHANGED <<iteration, stop>>
     \/ iteration' = iteration + 1 /\ Check("pre.plan.created")
  /\ Between

\* Completion, by an event or in the output's text, a cancellation, which runs
\* no hooks, or the next iteration.
Judge ==
  /\ at = "judge"
  /\ \/ Finish("completed") /\ UNCHANGED published
     \/ Over("cancelled") /\ published' = "cancelled"
     \/ Go("head") /\ UNCHANGED <<reason, published, restart>>
  /\ UNCHANGED <<iteration, stop, interrupt, state, resume, others, history>>

\* publish_terminate_event, between the hooks before and after.
Publish ==
  /\ at = "publish"
  /\ published' = reason /\ Go(PostOf(reason))
  /\ UNCHANGED <<iteration, reason, interrupt, files, others, history>>

-----------------------------------------------------------------------------
(* Operators, signals, crashes *)

Rest == <<at, dispatch, iteration, ending>>

\* `ralph loops stop', Telegram's /stop, the API's loop.stop: these look for a
\* loop, or not, and write.
RequestStop ==
  /\ requests < MaxRequests /\ ~stop
  /\ stop' = TRUE /\ requests' = requests + 1
  /\ UNCHANGED <<Rest, interrupt, state, restart, resume, operator, loops, history>>

RequestRestart ==
  /\ requests < MaxRequests /\ ~restart
  /\ restart' = TRUE /\ requests' = requests + 1
  /\ UNCHANGED <<Rest, interrupt, state, stop, resume, operator, loops, history>>

\* resume_loop: it writes if there is a state, of whatever loop, and no signal.
ResumeLooks ==
  /\ operator = "idle" /\ requests < MaxRequests
  /\ state # None /\ ~resume
  /\ operator' = "writes" /\ requests' = requests + 1 /\ asked' = Waiting
  /\ UNCHANGED <<Rest, interrupt, files, loops, inherited>>

ResumeWrites ==
  /\ operator = "writes"
  /\ resume' = TRUE /\ operator' = "idle"
  /\ UNCHANGED <<Rest, interrupt, state, stop, restart, loops, requests, history>>

\* The handlers are there once the loop has started, and only raise a flag.
Interrupt ==
  /\ Running /\ ~interrupt /\ at \notin {"pre.loop.start", "post.loop.start"}
  /\ interrupt' = TRUE
  /\ UNCHANGED <<Rest, files, others, history>>

\* SIGKILL, a forced stop, a crash, or a signal before there are handlers.
Kill ==
  /\ Running /\ loops < MaxLoops
  /\ Go("over") /\ reason' = "killed"
  /\ UNCHANGED <<iteration, published, interrupt, files, others, history>>

\* Another loop is run in the workspace, none of whose files it clears.
Start ==
  /\ ~Running /\ loops < MaxLoops
  /\ Go("pre.loop.start") /\ loops' = loops + 1
  /\ iteration' = 0 /\ reason' = None /\ published' = None /\ interrupt' = FALSE
  /\ inherited' = (state # None)
  /\ UNCHANGED <<files, operator, requests, asked>>

Step == \/ Attempt \/ Backoff \/ AwaitStop \/ AwaitRestart \/ AwaitResume \/ AwaitCleared
        \/ Retry \/ Blocked \/ Pass \/ Suspend
        \/ GateStop \/ GateRestart \/ GateResume \/ GateOpens
        \/ HeadInterrupted \/ LoopHead \/ Skip \/ Select \/ Agent \/ Judge \/ Publish

Outside == RequestStop \/ RequestRestart \/ ResumeLooks \/ ResumeWrites \/ Interrupt

Next == Step \/ Outside \/ Kill \/ Start

Spec == Init /\ [][Next]_vars

\* The loop's thread goes on; hooks and agents end, within their timeouts.
FairSpec == Spec /\ WF_vars(Step)

-----------------------------------------------------------------------------
(* What hooks and operators are promised *)

\* A boundary one of whose hooks blocks is only left in an error, and one with a
\* suspending hook only through the gate: by a resume, a stop that is taken, or
\* a restart.  No disposition is lost to the hooks that run after it.
Disposed(d) == \E n \in 1..Len(outcomes) : outcomes[n] = d
LetGo == /\ wait = "gate"
         /\ \/ poll = "resumed"
            \/ stop /\ ~stop' /\ reason' = "stopped"
            \/ restart /\ reason' = "restart_requested"
LeavesBoundary == at \in Phases /\ at' # at /\ reason' # "killed"
BoundariesHold ==
  [][LeavesBoundary => IF Disposed("block") THEN reason' = "error"
                       ELSE Disposed("suspend") => LetGo]_vars

\* suspend-state.json names the hook a waiting loop waits for; and, unless it
\* was left by an earlier loop, there is one only while the loop waits or has
\* left a wait for a stop or a restart that is still to be taken.
StateTellsTheWait ==
  /\ wait = "await" /\ poll # "retry" => state = Record(This)
  /\ wait = "gate" => /\ state # None /\ state.phase = at
                      /\ outcomes[state.hook] = "suspend"
  /\ Running /\ state # None /\ ~inherited
       => Waiting \/ (at \in Phases /\ (stop \/ restart))

\* Only a loop that is to end as stopped takes a stop request.  From there on it
\* runs the hooks of its termination and nothing else; and it is over as stopped,
\* unless one of those hooks suspends it and a restart lets it go, or one blocks
\* and it ends in an error, or it is killed.
Ending == PreEnd \cup PostEnd \cup {"publish", "over"}
StopIsHonoured ==
  [][/\ stop /\ ~stop' => reason' = "stopped"
     /\ reason = "stopped" /\ at # "over"
          => /\ at' \in Ending
             /\ \/ reason' \in {"stopped", "killed"}
                \/ reason' = "restart_requested" /\ wait = "gate" /\ restart
                \/ reason' = "error" /\ Disposed("block")]_vars

\* The reason a loop ends with was published in loop.terminate, but for a stop
\* or a restart that reached it in the hooks after that.
ReasonStands ==
  at = "over" /\ reason \in Reasons => reason \in {published, "stopped", "restart_requested"}

\* The operator's resume is for the wait it was given in: no later suspension
\* is let go by it.
ResumeAnswersThisWait == [][poll = "resume" /\ poll' = "resumed" => asked]_vars

\* A requested restart ends the loop wherever it is and however many hooks
\* suspend it.
RestartEnds == restart ~> ~Running

\* A requested stop ends the loop, unless a hook of the termination suspends it
\* again: that wait needs a request of its own.
StopEnds == stop ~> ~Running \/ (wait # "none" /\ reason # None)
=============================================================================

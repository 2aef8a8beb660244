------------------------------ MODULE MCHooks -------------------------------
\* Hooks of every mode at some of the boundaries.
EXTENDS Hooks

H(e, m) == [onError |-> e, mode |-> m]
Waits   == H("suspend", "wait_for_resume")
Retries == H("suspend", "retry_backoff")
Both    == H("suspend", "wait_then_retry")
Blocks  == H("block", "wait_for_resume")
Warns   == H("warn", "wait_for_resume")

\* Two suspending hooks and a blocking one before an iteration, a suspending
\* one before the loop's first, and at each end.
MCHooksOf == [p \in Phases |->
  CASE p = "pre.loop.start"      -> <<Retries>>
    [] p = "pre.iteration.start" -> <<Waits, Both, Blocks>>
    [] p = "post.plan.created"   -> <<Warns>>
    [] p = "pre.loop.error"      -> <<Waits>>
    [] p = "post.loop.complete"  -> <<Both>>
    [] OTHER                     -> <<>>]
=============================================================================

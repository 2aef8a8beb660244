----------------------------- MODULE HooksProofs -----------------------------
(***************************************************************************)
(* Theorems about Hooks, for any hooks at any boundaries, any number of    *)
(* loops in the workspace and any number of requests.                      *)
(*                                                                         *)
(*   TypeCorrect         Spec => []TypeOK                                  *)
(*   StateIsTrue         Spec => []StateTellsTheWait                       *)
(*   ReasonStays         Spec => ReasonStands                              *)
(*   BoundariesAreHeld   Spec => BoundariesHold                            *)
(*   StoppedStays        Spec => StopIsHonoured                            *)
(*   RestartAdvances, StopAdvances  while a restart or a stop is asked for,*)
(*                       every step of the loop lowers StepsLeft           *)
(***************************************************************************)
EXTENDS Hooks, TLAPS

USE HooksAssumption, NoneAssumption

\* Where the loop can be, and what it has then settled.
Placed ==
  /\ wait # "none" => at \in Phases
  /\ wait \in {"none", "backoff"} => poll = "stop"
  /\ wait = "gate" => poll # "retry" /\ ~Has("block") /\ Has("suspend")

\* An iteration is begun only below the limit.
Counted ==
  at \in {"pre.iteration.start", "select", "post.iteration.start", "agent"}
    => iteration < MaxIterations

\* From the hooks before loop.terminate on there is a reason, and after it that
\* reason is the one published.
Reported ==
  /\ at \in PreEnd \cup {"publish"} => reason \in Reasons
  /\ at \in PostEnd => reason \in Reasons /\ published = reason

\* A state outlives its wait only with a signal left to be taken, and with the
\* suspension on record that will take it.
StateIsExplained ==
  /\ wait = "await" /\ poll # "retry" => state = Record(This)
  /\ wait = "gate" => /\ state \in Records /\ state.phase = at
                      /\ outcomes[state.hook] = "suspend"
  /\ Running /\ state # None /\ ~inherited
       => Waiting \/ (at \in Phases /\ (stop \/ restart) /\ Has("suspend"))

IInv == TypeOK /\ Placed /\ Counted /\ Reported /\ ReasonStands /\ StateIsExplained

-----------------------------------------------------------------------------
(* Outcomes are only added to, and only left behind by going on *)

Dispositions == OnError \cup {"pass"}

LEMMA Appended ==
  ASSUME NEW s \in Seq(Dispositions), NEW d \in Dispositions
  PROVE  /\ Append(s, d) \in Seq(Dispositions)
         /\ Len(Append(s, d)) = Len(s) + 1 /\ Len(s) \in Nat
         /\ Append(s, d)[Len(s) + 1] = d
         /\ \A n \in 1..Len(s) : n \in 1..(Len(s) + 1) /\ Append(s, d)[n] = s[n]
OBVIOUS

\* A settled hook adds its disposition and takes none away.
LEMMA SettleKeeps ==
  ASSUME TypeOK, NEW d \in Dispositions, Settle(d)
  PROVE  /\ outcomes' \in Seq(Dispositions)
         /\ wait' = "none" /\ poll' = "stop" /\ tries' = 0
         /\ Has(d)' /\ (Has("suspend") => Has("suspend")')
<1>1. outcomes \in Seq(Dispositions) /\ outcomes' = Append(outcomes, d)
  BY DEF TypeOK, Settle, Dispositions
<1>2. Len(outcomes') = Len(outcomes) + 1 /\ Len(outcomes) + 1 \in 1..(Len(outcomes) + 1)
  BY <1>1, Appended
<1>3. Has(d)'
  BY <1>1, <1>2, Appended DEF Has
<1>4. Has("suspend") => Has("suspend")'
  BY <1>1, <1>2, Appended DEF Has
<1> QED BY <1>1, <1>3, <1>4, Appended DEF Settle

\* What follows the end of a boundary, a check or a run: a place with nothing
\* dispatched.
Clean == outcomes = <<>> /\ wait = "none" /\ poll = "stop" /\ tries = 0

LEMMA GoIsClean ==
  ASSUME NEW p \in Places, Go(p)
  PROVE  at' = p /\ Clean'
BY DEF Go, Clean

\* Ending with a reason leads to a place where that reason is known.
LEMMA FinishLeads ==
  ASSUME TypeOK, Reported, NEW r \in Reasons, Finish(r), UNCHANGED published
  PROVE  /\ Clean' /\ reason' = r /\ restart' \in BOOLEAN
         /\ at' \in PreEnd \cup {"publish", "over"}
         /\ at' = "over" => at \in PostEnd /\ published \in Reasons
<1>1. CASE at \in PostEnd
  BY <1>1 DEF Finish, Over, Go, Clean, Reported, TypeOK
<1>2. CASE at \notin PostEnd
  BY <1>2 DEF Finish, Over, Go, Clean, PreOf, PreEnd, TypeOK
<1> QED BY <1>1, <1>2

\* A step that goes to another place, with nothing left behind at the last one.
Lands ==
  /\ Clean' /\ at' \in Places \ PostEnd
  /\ reason' \in Ends \cup {None} /\ restart' \in BOOLEAN
  /\ at' \in PreEnd \cup {"publish"} => reason' \in Reasons
  /\ at' = "over" /\ reason' \in Reasons
       => reason' \in {published', "stopped", "restart_requested"}

LEMMA FinishLands ==
  ASSUME IInv, NEW r \in Reasons, Finish(r), UNCHANGED published,
         at \in PostEnd => r \in {published, "stopped", "restart_requested"}
  PROVE  Lands /\ at' \in PreEnd \cup {"publish", "over"}
<1>1. /\ Clean' /\ reason' = r /\ restart' \in BOOLEAN
      /\ at' \in PreEnd \cup {"publish", "over"}
      /\ at' = "over" => at \in PostEnd /\ published \in Reasons
  BY FinishLeads DEF IInv
<1>2. at' \in Places \ PostEnd
  BY <1>1 DEF Places, Phases, PreEnd, PostEnd
<1> QED BY <1>1, <1>2 DEF Lands, Ends

LEMMA OnwardLands ==
  ASSUME IInv, at \in Phases, Onward, UNCHANGED published
  PROVE  /\ Lands
         /\ at' = "select" => at = "pre.iteration.start"
         /\ at' = "agent" => at = "post.iteration.start"
         /\ at' \notin {"pre.iteration.start", "post.iteration.start"}
<1>1. CASE at \in {"pre.loop.start", "post.loop.start"} \cup DOMAIN Walk
  <2>1. /\ Clean' /\ at' \in Places \ (PostEnd \cup PreEnd \cup {"publish", "over"})
        /\ UNCHANGED <<reason, restart>>
        /\ at' = "select" => at = "pre.iteration.start"
        /\ at' = "agent" => at = "post.iteration.start"
        /\ at' \notin {"pre.iteration.start", "post.iteration.start"}
    BY <1>1 DEF Onward, Walk, Go, Clean, Places, Phases, PreEnd, PostEnd
  <2> QED BY <2>1 DEF Lands, IInv, TypeOK
<1>2. CASE at \in PreEnd \cup PostEnd
  <2>1. Finish(reason)
    BY <1>2 DEF Onward, Walk, PreEnd, PostEnd
  <2>2. reason \in Reasons /\ (at \in PostEnd => reason = published)
    BY <1>2 DEF IInv, Reported
  <2>3. Lands /\ at' \in PreEnd \cup {"publish", "over"}
    BY <2>1, <2>2, FinishLands
  <2> QED BY <2>3 DEF PreEnd
<1> QED BY <1>1, <1>2 DEF Phases, Walk, PreEnd, PostEnd

\* Such a step keeps the invariant when the limit and the state allow it.
LEMMA LandsSafely ==
  ASSUME IInv, Lands,
         TypeOK',
         Counted',
         at' = "over" \/ state' = None \/ inherited' = TRUE
  PROVE  IInv'
<1>1. Placed'
  BY DEF Lands, Clean, Placed
<1>2. Reported'
  BY DEF Lands, Reported, PreEnd, PostEnd
<1>3. ReasonStands'
  BY DEF Lands, ReasonStands
<1>4. StateIsExplained'
  BY DEF Lands, Clean, StateIsExplained, Running
<1> QED BY <1>1, <1>2, <1>3, <1>4 DEF IInv

\* A loop that neither waits nor has suspended at this boundary has no state of
\* its own.
LEMMA NoStateOfItsOwn ==
  ASSUME IInv, Running, wait = "none", at \in Phases => ~Has("suspend")
  PROVE  state = None \/ inherited = TRUE
BY DEF IInv, StateIsExplained, Waiting, TypeOK

-----------------------------------------------------------------------------
(* Every step of a dispatch keeps the invariant *)

\* A hook that is settled leaves a state only to a signal, with a suspension
\* that will take it.
LEMMA SettlesSafely ==
  ASSUME IInv, at \in Phases, NEW d \in Dispositions, Settle(d),
         UNCHANGED <<at, iteration, ending, interrupt, files, others, history>>,
         Running /\ state # None /\ inherited = FALSE
           => (stop \/ restart) /\ (Has("suspend") \/ d = "suspend")
  PROVE  IInv'
<1>1. /\ outcomes' \in Seq(Dispositions) /\ wait' = "none" /\ poll' = "stop" /\ tries' = 0
      /\ Has("suspend") \/ d = "suspend" => Has("suspend")'
  BY SettleKeeps DEF IInv
<1>2. TypeOK'
  BY <1>1 DEF IInv, TypeOK, ending, files, others, history, Dispositions
<1>3. Placed' /\ Counted' /\ Reported' /\ ReasonStands'
  BY <1>1 DEF IInv, Placed, Counted, Reported, ReasonStands, ending
<1>4. StateIsExplained'
  BY <1>1 DEF StateIsExplained, Running, Waiting, files, history, IInv, TypeOK
<1> QED BY <1>2, <1>3, <1>4 DEF IInv

\* A hook that waits before its retry has a state of its own.
LEMMA AttemptKeeps ==
  ASSUME IInv, Attempt
  PROVE  IInv'
<1> DEFINE h == Hooks[This]
<1>1. /\ at \in Phases /\ wait = "none" /\ poll = "stop" /\ Len(outcomes) \in Nat
      /\ This \in 1..Len(Hooks) /\ h \in HookSpec /\ This \in Nat
  BY DEF Attempt, Dispatching, Hooks, This, IInv, TypeOK, Placed
<1>2. PICK ok \in BOOLEAN :
        LET d == IF ok THEN "pass" ELSE h.onError
        IN  CASE d = "suspend" /\ h.mode = "retry_backoff" ->
                   /\ wait' = "backoff" /\ tries' = Backoffs
                   /\ UNCHANGED <<outcomes, poll, state, history>>
              [] d = "suspend" /\ h.mode = "wait_then_retry" ->
                   /\ wait' = "await" /\ state' = Record(This)
                   /\ inherited' = FALSE /\ asked' = FALSE
                   /\ UNCHANGED <<outcomes, poll, tries>>
              [] OTHER -> Settle(d) /\ UNCHANGED <<state, history>>
  BY DEF Attempt
<1> DEFINE d == IF ok THEN "pass" ELSE h.onError
<1>3. d \in Dispositions
  BY <1>1 DEF HookSpec, Dispositions, OnError
<1>4. UNCHANGED <<at, iteration, ending, interrupt, stop, restart, resume, others>>
  BY DEF Attempt
<1>5. CASE d = "suspend" /\ h.mode = "retry_backoff"
  <2>1. /\ wait' = "backoff" /\ tries' = Backoffs
        /\ UNCHANGED <<outcomes, poll, state, history>>
    BY <1>2, <1>5
  <2>2. TypeOK' /\ Placed' /\ Counted' /\ Reported' /\ ReasonStands'
    BY <1>1, <1>4, <2>1
       DEF IInv, TypeOK, Placed, Counted, Reported, ReasonStands, ending, others, history
  <2>3. StateIsExplained'
    BY <1>1, <1>4, <2>1 DEF IInv, StateIsExplained, Running, Waiting, history, Has
  <2> QED BY <2>2, <2>3 DEF IInv
<1>6. CASE d = "suspend" /\ h.mode = "wait_then_retry"
  <2>1. /\ wait' = "await" /\ state' = Record(This)
        /\ inherited' = FALSE /\ asked' = FALSE
        /\ UNCHANGED <<outcomes, poll, tries>>
    BY <1>2, <1>6
  <2>2. Record(This) \in Records /\ Record(This)' = Record(This) /\ This' = This
    BY <1>1, <1>4, <2>1 DEF Records, Record, This
  <2>3. TypeOK' /\ Placed' /\ Counted' /\ Reported' /\ ReasonStands'
    BY <1>1, <1>4, <2>1, <2>2
       DEF IInv, TypeOK, Placed, Counted, Reported, ReasonStands, ending, others
  <2>4. StateIsExplained'
    BY <1>1, <1>4, <2>1, <2>2 DEF StateIsExplained, Waiting, Record, This
  <2> QED BY <2>3, <2>4 DEF IInv
<1>7. CASE ~(d = "suspend" /\ h.mode \in {"retry_backoff", "wait_then_retry"})
  <2>1. Settle(d) /\ UNCHANGED <<state, history>>
    BY <1>2, <1>7
  <2>2. state # None /\ Running /\ inherited = FALSE => (stop \/ restart) /\ Has("suspend")
    BY <1>1 DEF IInv, StateIsExplained, Waiting
  <2> QED BY <1>1, <1>3, <1>4, <2>1, <2>2, SettlesSafely DEF files
<1> QED BY <1>5, <1>6, <1>7

LEMMA BackoffKeeps ==
  ASSUME IInv, Backoff
  PROVE  IInv'
<1>1. /\ at \in Phases /\ wait = "backoff" /\ poll = "stop"
      /\ UNCHANGED <<at, iteration, ending, interrupt, files, others, history>>
  BY DEF Backoff, IInv, Placed
<1>2. Running /\ state # None /\ inherited = FALSE => (stop \/ restart) /\ Has("suspend")
  BY <1>1 DEF IInv, StateIsExplained, Waiting
<1>3. CASE Settle("suspend") \/ Settle("pass")
  BY <1>1, <1>2, <1>3, SettlesSafely DEF Dispositions, OnError
<1>4. CASE tries > 0 /\ tries' = tries - 1 /\ UNCHANGED <<outcomes, wait, poll>>
  <2>1. TypeOK' /\ Placed' /\ Counted' /\ Reported' /\ ReasonStands'
    BY <1>1, <1>4
       DEF IInv, TypeOK, Placed, Counted, Reported, ReasonStands, ending, others, files, history
  <2>2. StateIsExplained'
    BY <1>1, <1>4 DEF IInv, StateIsExplained, Running, Waiting, files, history, Has
  <2> QED BY <2>1, <2>2 DEF IInv
<1> QED BY <1>3, <1>4 DEF Backoff, IInv, TypeOK

\* A signal left for the gate leaves the state there too.
LEMMA AwaitKeeps ==
  ASSUME IInv, AwaitStop \/ AwaitRestart
  PROVE  IInv'
<1>1. /\ at \in Phases /\ wait = "await" /\ poll \in {"stop", "restart"}
      /\ UNCHANGED <<at, iteration, ending, interrupt, files, others, history>>
  BY DEF AwaitStop, AwaitRestart, IInv, Placed
<1>2. CASE (stop \/ restart) /\ Settle("suspend")
  BY <1>1, <1>2, SettlesSafely DEF Dispositions, OnError
<1>3. CASE poll' \in {"restart", "resume"} /\ UNCHANGED <<outcomes, wait, tries>>
  <2>1. TypeOK' /\ Placed' /\ Counted' /\ Reported' /\ ReasonStands'
    BY <1>1, <1>3
       DEF IInv, TypeOK, Placed, Counted, Reported, ReasonStands, ending, others, files, history
  <2>2. StateIsExplained'
    BY <1>1, <1>3 DEF IInv, StateIsExplained, Running, Waiting, files, history, Has, Record, This
  <2> QED BY <2>1, <2>2 DEF IInv
<1> QED BY <1>2, <1>3 DEF AwaitStop, AwaitRestart

\* The file is taken while the state still tells the wait.
LEMMA ResumeTakenKeeps ==
  ASSUME IInv, AwaitResume \/ GateResume
  PROVE  IInv'
<1>1. /\ at \in Phases /\ wait \in {"await", "gate"} /\ poll' \in {"resumed", "stop"}
      /\ resume' = FALSE /\ poll = "resume"
      /\ UNCHANGED <<at, outcomes, wait, tries, iteration, ending, interrupt, state, stop,
                     restart, others, history>>
  BY DEF AwaitResume, GateResume, ConsumeResume, IInv, Placed
<1>2. TypeOK' /\ Placed' /\ Counted' /\ Reported' /\ ReasonStands'
  <2>1. TypeOK'
    BY <1>1 DEF IInv, TypeOK, ending, others, history
  <2>2. Placed' /\ Counted'
    BY <1>1 DEF IInv, Placed, Counted, Has
  <2>3. Reported' /\ ReasonStands'
    BY <1>1 DEF IInv, Reported, ReasonStands, ending
  <2> QED BY <2>1, <2>2, <2>3
<1>3. StateIsExplained'
  BY <1>1 DEF IInv, StateIsExplained, Running, Waiting, history, Has, Record, This
<1> QED BY <1>2, <1>3 DEF IInv

LEMMA AwaitClearedKeeps ==
  ASSUME IInv, AwaitCleared
  PROVE  IInv'
<1>1. /\ at \in Phases /\ wait = "await" /\ state' = None /\ inherited' = FALSE /\ poll' = "retry"
      /\ UNCHANGED <<at, outcomes, wait, tries, iteration, ending, interrupt, stop, restart,
                     resume, others, asked>>
  BY DEF AwaitCleared, IInv, Placed
<1>2. TypeOK' /\ Placed' /\ Counted' /\ Reported' /\ ReasonStands'
  BY <1>1 DEF IInv, TypeOK, Placed, Counted, Reported, ReasonStands, ending, others
<1>3. StateIsExplained'
  BY <1>1 DEF StateIsExplained
<1> QED BY <1>2, <1>3 DEF IInv

LEMMA RetryKeeps ==
  ASSUME IInv, Retry
  PROVE  IInv'
<1>1. /\ at \in Phases /\ wait = "await" /\ poll = "retry"
      /\ UNCHANGED <<at, iteration, ending, interrupt, files, others, history>>
  BY DEF Retry, IInv, Placed
<1>2. Running /\ state # None /\ inherited = FALSE => (stop \/ restart) /\ Has("suspend")
  BY <1>1 DEF IInv, StateIsExplained, Waiting
<1>3. PICK d \in Dispositions : Settle(d)
  BY DEF Retry, Dispositions, OnError
<1> QED BY <1>1, <1>2, <1>3, SettlesSafely

-----------------------------------------------------------------------------
(* Every way out of a boundary keeps the invariant *)

LEMMA FirstSuspendingIs ==
  ASSUME TypeOK, NEW n \in 1..Len(outcomes), FirstSuspending(n), at \in Phases
  PROVE  Has("suspend") /\ Record(n) \in Records /\ Record(n).phase = at
         /\ outcomes[Record(n).hook] = "suspend"
<1>1. Len(outcomes) \in Nat
  BY DEF TypeOK
<1> QED BY <1>1 DEF FirstSuspending, Has, Record, Records

LEMMA SuspendKeeps ==
  ASSUME IInv, Suspend
  PROVE  IInv'
<1>1. /\ at \in Phases /\ wait' = "gate" /\ poll' = "stop" /\ inherited' = FALSE /\ asked' = FALSE
      /\ UNCHANGED <<at, outcomes, tries, iteration, ending, interrupt, stop, restart, resume,
                     others>>
      /\ ~Has("block")
  BY DEF Suspend, Dispatched
<1>2. PICK n \in 1..Len(outcomes) : FirstSuspending(n) /\ state' = Record(n)
  BY DEF Suspend
<1>3. /\ Has("suspend") /\ state' \in Records /\ state'.phase = at
      /\ outcomes[state'.hook] = "suspend"
  BY <1>1, <1>2, FirstSuspendingIs DEF IInv
<1>4. TypeOK' /\ Placed' /\ Counted' /\ Reported' /\ ReasonStands'
  BY <1>1, <1>3 DEF IInv, TypeOK, Placed, Counted, Reported, ReasonStands, ending, others, Has
<1>5. StateIsExplained'
  BY <1>1, <1>3 DEF StateIsExplained, Waiting
<1> QED BY <1>4, <1>5 DEF IInv

LEMMA BlockedKeeps ==
  ASSUME IInv, Blocked
  PROVE  IInv'
<1>1. /\ Clean' /\ at' = "over" /\ reason' = "error" /\ restart' \in BOOLEAN
      /\ UNCHANGED <<iteration, published, interrupt, state, stop, resume, others, history>>
  BY DEF Blocked, Over, Go, Clean, IInv, TypeOK
<1>2. Lands /\ TypeOK' /\ Counted'
  BY <1>1 DEF Lands, Clean, Places, PostEnd, PreEnd, Ends, Reasons, Counted, IInv, TypeOK,
              others, history
<1> QED BY <1>1, <1>2, LandsSafely

\* The boundary is passed, without a suspension or by its resume.
LEMMA PassKeeps ==
  ASSUME IInv, Pass \/ GateOpens
  PROVE  IInv'
<1>1. /\ at \in Phases /\ Onward
      /\ UNCHANGED <<iteration, published, interrupt, stop, resume, others>>
      /\ state' = None \/ inherited' = TRUE
      /\ state' \in {state, None} /\ inherited' \in BOOLEAN /\ UNCHANGED asked
  <2>1. CASE Pass
    BY <2>1, NoStateOfItsOwn
       DEF Pass, Dispatched, IInv, TypeOK, Running, Places, Phases, history
  <2>2. CASE GateOpens
    BY <2>2 DEF GateOpens, IInv, Placed
  <2> QED BY <2>1, <2>2
<1>2. /\ Lands
      /\ at' = "select" => at = "pre.iteration.start"
      /\ at' = "agent" => at = "post.iteration.start"
      /\ at' \notin {"pre.iteration.start", "post.iteration.start"}
  BY <1>1, OnwardLands
<1>3. TypeOK' /\ Counted'
  BY <1>1, <1>2 DEF Lands, Clean, Counted, IInv, TypeOK, others
<1> QED BY <1>1, <1>2, <1>3, LandsSafely

\* A gate is left by a signal with the state cleared.
LEMMA GateKeeps ==
  ASSUME IInv, GateStop \/ GateRestart
  PROVE  IInv'
<1>1. /\ at \in Phases /\ wait = "gate" /\ poll \in {"stop", "restart"}
      /\ UNCHANGED <<iteration, published, interrupt, others, asked>>
  BY DEF GateStop, GateRestart, IInv, Placed
<1>2. CASE ClearArtifacts /\ stop' \in BOOLEAN /\ (Finish("stopped") \/ Finish("restart_requested"))
  <2>1. Lands /\ at' \in PreEnd \cup {"publish", "over"}
    BY <1>1, <1>2, FinishLands DEF Reasons
  <2>2. Counted'
    BY <2>1 DEF Counted, PreEnd
  <2>3. /\ state' = None /\ resume' = FALSE /\ inherited' = FALSE /\ stop' \in BOOLEAN
        /\ Clean' /\ at' \in Places /\ reason' \in Ends \cup {None} /\ restart' \in BOOLEAN
    BY <1>2, <2>1 DEF Lands, ClearArtifacts
  <2>4. {interrupt, stop, restart, resume, inherited, asked}' \subseteq BOOLEAN
    BY <1>1, <2>3 DEF IInv, TypeOK
  <2>5. outcomes' \in Seq(OnError \cup {"pass"}) /\ tries' \in Nat
    BY <2>3 DEF Clean
  <2>6. TypeOK'
    BY <1>1, <2>3, <2>4, <2>5 DEF Clean, IInv, TypeOK, others
  <2> QED BY <2>1, <2>2, <2>3, <2>6, LandsSafely
<1>3. CASE /\ poll' \in {"restart", "resume"}
           /\ UNCHANGED <<at, outcomes, wait, tries, reason, stop, restart, resume, state, history>>
  <2>1. TypeOK' /\ Placed' /\ Counted' /\ Reported' /\ ReasonStands'
    BY <1>1, <1>3
       DEF IInv, TypeOK, Placed, Counted, Reported, ReasonStands, others, history, Has
  <2>2. StateIsExplained'
    BY <1>1, <1>3 DEF IInv, StateIsExplained, Running, Waiting, history, Has
  <2> QED BY <2>1, <2>2 DEF IInv
<1>4. CASE GateStop
  BY <1>2, <1>3, <1>4 DEF GateStop
<1>5. CASE GateRestart
  BY <1>2, <1>3, <1>5 DEF GateRestart, IInv, TypeOK
<1> QED BY <1>4, <1>5

-----------------------------------------------------------------------------
(* Every step between the boundaries keeps the invariant *)

\* There is nothing to wait for, and no state of the loop's own.
LEMMA BetweenIsClean ==
  ASSUME IInv, at \in {"head", "select", "agent", "judge", "publish"}
  PROVE  /\ wait = "none" /\ at \notin Phases /\ Running
         /\ state = None \/ inherited = TRUE
<1>1. at \notin Phases /\ Running
  BY DEF Phases, Running
<1>2. wait = "none"
  BY <1>1 DEF IInv, Placed
<1> QED BY <1>1, <1>2, NoStateOfItsOwn

LEMMA FinishKeeps ==
  ASSUME IInv, at \in {"head", "select", "agent", "judge"}, NEW r \in Reasons, Finish(r),
         stop' \in BOOLEAN, iteration' \in 0..MaxIterations, Between
  PROVE  IInv'
<1>1. Lands /\ at' \in PreEnd \cup {"publish", "over"}
  BY FinishLands DEF Between, PostEnd
<1>2. TypeOK' /\ Counted'
  BY <1>1 DEF Lands, Clean, PreEnd, Counted, IInv, TypeOK, Between, others, history
<1>3. state' = None \/ inherited' = TRUE
  BY BetweenIsClean DEF Between, history
<1> QED BY <1>1, <1>2, <1>3, LandsSafely

LEMMA GoOnKeeps ==
  ASSUME IInv, Running, NEW p \in Places \ (PreEnd \cup PostEnd \cup {"publish", "over"}), Go(p),
         state = None \/ inherited = TRUE,
         iteration' \in 0..MaxIterations, UNCHANGED <<reason, stop, restart>>, Between,
         p \in {"pre.iteration.start", "select", "post.iteration.start", "agent"}
           => iteration' < MaxIterations
  PROVE  IInv'
<1>1. at' = p /\ Clean'
  BY GoIsClean
<1>2. Lands
  BY <1>1 DEF Lands, IInv, TypeOK
<1>3. TypeOK' /\ Counted'
  BY <1>1 DEF Clean, Counted, IInv, TypeOK, Between, others, history
<1>4. state' = None \/ inherited' = TRUE
  BY DEF Between, history
<1> QED BY <1>2, <1>3, <1>4, LandsSafely

LEMMA HeadKeeps ==
  ASSUME IInv, HeadInterrupted \/ LoopHead
  PROVE  IInv'
<1>1. /\ at = "head" /\ UNCHANGED iteration /\ iteration \in 0..MaxIterations /\ Between
  BY DEF HeadInterrupted, LoopHead, IInv, TypeOK
<1>2. CASE /\ stop' \in BOOLEAN
           /\ \E r \in {"interrupted", "other", "stopped", "restart_requested"} : Finish(r)
  BY <1>1, <1>2, FinishKeeps DEF Reasons
<1>3. CASE /\ iteration' < MaxIterations
           /\ Go("pre.iteration.start") /\ UNCHANGED <<reason, stop, restart>>
  BY <1>1, <1>3, GoOnKeeps, BetweenIsClean DEF Places, Phases, PreEnd, PostEnd
<1>4. stop \in BOOLEAN /\ restart \in BOOLEAN
  BY DEF IInv, TypeOK
<1>5. CASE HeadInterrupted
  BY <1>2, <1>4, <1>5 DEF HeadInterrupted
<1>6. CASE LoopHead
  BY <1>2, <1>3, <1>4, <1>6 DEF LoopHead, Check
<1> QED BY <1>5, <1>6

LEMMA SkipKeeps ==
  ASSUME IInv, Skip
  PROVE  IInv'
<1>1. /\ at \in Phases /\ at \in Optional /\ Running /\ outcomes = <<>> /\ wait = "none"
      /\ Go(Walk[at]) /\ UNCHANGED <<iteration, reason, stop, restart>> /\ Between
  BY DEF Skip, Optional, Walk, Phases, Running
<1>2. ~Has("suspend")
  BY <1>1 DEF Has
<1>3. state = None \/ inherited = TRUE
  BY <1>1, <1>2, NoStateOfItsOwn
<1>4. /\ Walk[at] \in Places \ (PreEnd \cup PostEnd \cup {"publish", "over"})
      /\ Walk[at] \in {"pre.iteration.start", "select", "post.iteration.start", "agent"}
           => at = "pre.iteration.start"
  BY <1>1 DEF Walk, Optional, Places, Phases, PreEnd, PostEnd
<1>5. Walk[at] \in {"pre.iteration.start", "select", "post.iteration.start", "agent"}
        => iteration < MaxIterations
  BY <1>4 DEF IInv, Counted
<1>6. iteration' = iteration /\ iteration' \in 0..MaxIterations
  BY <1>1 DEF IInv, TypeOK
<1> QED BY <1>1, <1>3, <1>4, <1>5, <1>6, GoOnKeeps

LEMMA SelectKeeps ==
  ASSUME IInv, Select
  PROVE  IInv'
<1>1. /\ at = "select" /\ UNCHANGED <<iteration, stop>> /\ Between
      /\ stop \in BOOLEAN /\ iteration \in 0..MaxIterations /\ iteration < MaxIterations
  BY DEF Select, IInv, TypeOK, Counted
<1>2. CASE \E r \in {"completed", "cancelled", "stopped"} : Finish(r)
  BY <1>1, <1>2, FinishKeeps DEF Reasons
<1>3. CASE \E p \in {"post.iteration.start", "head"} : Go(p) /\ UNCHANGED <<reason, restart>>
  BY <1>1, <1>3, GoOnKeeps, BetweenIsClean DEF Places, Phases, PreEnd, PostEnd
<1> QED BY <1>2, <1>3 DEF Select

LEMMA AgentKeeps ==
  ASSUME IInv, Agent
  PROVE  IInv'
<1>1. /\ at = "agent" /\ Between /\ iteration \in 0..MaxIterations /\ iteration < MaxIterations
      /\ stop \in BOOLEAN /\ restart \in BOOLEAN /\ MaxIterations \in Nat
  BY DEF Agent, IInv, TypeOK, Counted
<1>2. CASE /\ stop' \in BOOLEAN /\ iteration' \in {iteration, iteration + 1}
           /\ \E r \in {"interrupted", "other", "stopped", "restart_requested"} : Finish(r)
  <2>1. iteration' \in 0..MaxIterations
    BY <1>1, <1>2
  <2> QED BY <1>1, <1>2, <2>1, FinishKeeps DEF Reasons
<1>3. CASE /\ iteration' = iteration + 1 /\ iteration' < MaxIterations
           /\ Go("pre.plan.created") /\ UNCHANGED <<reason, stop, restart>>
  <2>1. iteration' \in 0..MaxIterations
    BY <1>1, <1>3
  <2> QED BY <1>1, <1>3, <2>1, GoOnKeeps, BetweenIsClean DEF Places, Phases, PreEnd, PostEnd
<1> QED BY <1>1, <1>2, <1>3 DEF Agent, Check

LEMMA JudgeKeeps ==
  ASSUME IInv, Judge
  PROVE  IInv'
<1>1. /\ at = "judge"
      /\ UNCHANGED <<iteration, stop, interrupt, state, resume, others, history>>
      /\ stop \in BOOLEAN /\ iteration \in 0..MaxIterations
  BY DEF Judge, IInv, TypeOK
<1>2. CASE Finish("completed") /\ UNCHANGED published
  BY <1>1, <1>2, FinishKeeps DEF Reasons, Between
<1>3. CASE Over("cancelled") /\ published' = "cancelled"
  <2>1. Clean' /\ at' = "over" /\ reason' = "cancelled" /\ restart' \in BOOLEAN
    BY <1>3 DEF Over, Go, Clean, IInv, TypeOK
  <2>2. Lands /\ TypeOK' /\ Counted'
    BY <1>1, <1>3, <2>1
       DEF Lands, Clean, Places, PostEnd, PreEnd, Ends, Reasons, Counted, IInv, TypeOK,
           others, history
  <2> QED BY <2>1, <2>2, LandsSafely
<1>4. CASE Go("head") /\ UNCHANGED <<reason, published, restart>>
  BY <1>1, <1>4, GoOnKeeps, BetweenIsClean DEF Places, Phases, PreEnd, PostEnd, Between
<1> QED BY <1>2, <1>3, <1>4 DEF Judge

LEMMA PublishKeeps ==
  ASSUME IInv, Publish
  PROVE  IInv'
<1>1. /\ at = "publish" /\ reason \in Reasons /\ published' = reason
      /\ Clean' /\ at' = PostOf(reason) /\ at' \in PostEnd
      /\ UNCHANGED <<iteration, reason, interrupt, files, others, history>>
  BY DEF Publish, Go, Clean, IInv, Reported, PostOf, PostEnd
<1>2. state = None \/ inherited = TRUE
  BY <1>1, BetweenIsClean
<1>3. at' \in Phases
  BY <1>1 DEF Phases, PostEnd
<1>4. TypeOK'
  BY <1>1, <1>3 DEF Clean, IInv, TypeOK, Places, files, others, history
<1>5. Placed' /\ Counted' /\ Reported' /\ ReasonStands'
  BY <1>1 DEF Clean, PostEnd, PreEnd, Placed, Counted, Reported, ReasonStands
<1>6. StateIsExplained'
  BY <1>1, <1>2 DEF Clean, StateIsExplained, files, history
<1> QED BY <1>4, <1>5, <1>6 DEF IInv

-----------------------------------------------------------------------------
(* Requests, interrupts, crashes and loops to come keep the invariant *)

\* None of them touches what the loop waits for or why it ends.
LEMMA OutsideKeeps ==
  ASSUME IInv, Outside
  PROVE  IInv'
<1> USE DEF Outside, RequestStop, RequestRestart, ResumeLooks, ResumeWrites, Interrupt
<1> USE DEF Rest, dispatch, ending, files, others, history
<1>1. UNCHANGED <<at, outcomes, wait, poll, tries, iteration, reason, published, state,
                  inherited, loops>>
  OBVIOUS
<1>2. operator' \in {"idle", "writes"} /\ requests' \in Nat
  BY DEF IInv, TypeOK
<1>3. asked' \in BOOLEAN
  BY DEF IInv, TypeOK, Waiting
<1>4. {interrupt, stop, restart, resume, inherited, asked}' \subseteq BOOLEAN
  BY <1>1, <1>3 DEF IInv, TypeOK
<1>5. stop \/ restart => stop' \/ restart'
  OBVIOUS
<1> HIDE DEF Outside, RequestStop, RequestRestart, ResumeLooks, ResumeWrites, Interrupt
<1> HIDE DEF Rest, dispatch, ending, files, others, history
<1>6. TypeOK' /\ Placed' /\ Counted' /\ Reported' /\ ReasonStands'
  BY <1>1, <1>2, <1>4 DEF IInv, TypeOK, Placed, Counted, Reported, ReasonStands, Has
<1>7. StateIsExplained'
  BY <1>1, <1>5 DEF IInv, StateIsExplained, Running, Waiting, Has, Record, This
<1> QED BY <1>6, <1>7 DEF IInv

LEMMA KillKeeps ==
  ASSUME IInv, Kill
  PROVE  IInv'
<1>1. /\ Clean' /\ at' = "over" /\ reason' = "killed"
      /\ UNCHANGED <<iteration, published, interrupt, files, others, history>>
  BY DEF Kill, Go, Clean
<1>2. Lands /\ TypeOK' /\ Counted'
  BY <1>1 DEF Lands, Clean, Places, PostEnd, PreEnd, Ends, Reasons, Counted, IInv, TypeOK,
              files, others, history
<1> QED BY <1>1, <1>2, LandsSafely

\* What the new loop finds is an earlier one's.
LEMMA StartKeeps ==
  ASSUME IInv, Start
  PROVE  IInv'
<1>1. /\ Clean' /\ at' = "pre.loop.start" /\ loops' = loops + 1
      /\ iteration' = 0 /\ reason' = None /\ published' = None /\ interrupt' = FALSE
      /\ inherited' = (state # None)
      /\ UNCHANGED <<files, operator, requests, asked>>
  BY DEF Start, Go, Clean
<1>2. {interrupt, stop, restart, resume, inherited, asked}' \subseteq BOOLEAN
  BY <1>1 DEF IInv, TypeOK, files
<1>3. Counted'
  BY <1>1 DEF Counted, IInv, TypeOK
<1>4. at' \in Places /\ 0 \in 0..MaxIterations
  BY <1>1 DEF Places, Phases, IInv, TypeOK
<1>5. TypeOK'
  BY <1>1, <1>2, <1>4 DEF Clean, IInv, TypeOK, files
<1>6. Placed' /\ Reported' /\ ReasonStands'
  BY <1>1 DEF Clean, Placed, Reported, ReasonStands, PreEnd, PostEnd
<1>7. StateIsExplained'
  BY <1>1 DEF Clean, StateIsExplained, files
<1> QED BY <1>3, <1>5, <1>6, <1>7 DEF IInv

-----------------------------------------------------------------------------
(* The invariant, and what follows from it *)

LEMMA InitEstablishes == Init => IInv
<1> SUFFICES ASSUME Init PROVE IInv
  OBVIOUS
<1>1. at \in Places /\ 0 \in 0..MaxIterations
  BY DEF Init, Places, Phases
<1>2. {interrupt, stop, restart, resume, inherited, asked} \subseteq BOOLEAN
  BY DEF Init
<1>3. TypeOK
  BY <1>1, <1>2 DEF Init, TypeOK
<1> QED
  BY <1>3 DEF Init, IInv, Placed, Counted, Reported, ReasonStands, StateIsExplained,
              PreEnd, PostEnd

LEMMA StepKeeps == IInv /\ [Next]_vars => IInv'
<1> SUFFICES ASSUME IInv, [Next]_vars PROVE IInv'
  OBVIOUS
<1>1. CASE Attempt
  BY <1>1, AttemptKeeps
<1>2. CASE Backoff
  BY <1>2, BackoffKeeps
<1>3. CASE AwaitStop \/ AwaitRestart
  BY <1>3, AwaitKeeps
<1>4. CASE AwaitResume \/ GateResume
  BY <1>4, ResumeTakenKeeps
<1>5. CASE AwaitCleared
  BY <1>5, AwaitClearedKeeps
<1>6. CASE Retry
  BY <1>6, RetryKeeps
<1>7. CASE Blocked
  BY <1>7, BlockedKeeps
<1>8. CASE Pass \/ GateOpens
  BY <1>8, PassKeeps
<1>9. CASE Suspend
  BY <1>9, SuspendKeeps
<1>10. CASE GateStop \/ GateRestart
  BY <1>10, GateKeeps
<1>11. CASE HeadInterrupted \/ LoopHead
  BY <1>11, HeadKeeps
<1>12. CASE Skip
  BY <1>12, SkipKeeps
<1>13. CASE Select
  BY <1>13, SelectKeeps
<1>14. CASE Agent
  BY <1>14, AgentKeeps
<1>15. CASE Judge
  BY <1>15, JudgeKeeps
<1>16. CASE Publish
  BY <1>16, PublishKeeps
<1>17. CASE Outside
  BY <1>17, OutsideKeeps
<1>18. CASE Kill
  BY <1>18, KillKeeps
<1>19. CASE Start
  BY <1>19, StartKeeps
<1>20. CASE UNCHANGED vars
  BY <1>20 DEF vars, dispatch, ending, files, others, history, IInv, TypeOK, Placed, Counted,
               Reported, ReasonStands, StateIsExplained, Running, Waiting, Has, Record, This
<1> QED
  BY <1>1, <1>2, <1>3, <1>4, <1>5, <1>6, <1>7, <1>8, <1>9, <1>10, <1>11, <1>12, <1>13, <1>14,
     <1>15, <1>16, <1>17, <1>18, <1>19, <1>20 DEF Next, Step

THEOREM Invariance == Spec => []IInv
BY InitEstablishes, StepKeeps, PTL DEF Spec

\* Every reachable state is well typed, whatever hooks are configured.
THEOREM TypeCorrect == Spec => []TypeOK
<1>1. IInv => TypeOK
  BY DEF IInv
<1> QED BY <1>1, Invariance, PTL

\* suspend-state.json names the wait, and is there for a wait or a signal.
THEOREM StateIsTrue == Spec => []StateTellsTheWait
<1>1. IInv => StateTellsTheWait
  BY DEF IInv, StateIsExplained, StateTellsTheWait
<1> QED BY <1>1, Invariance, PTL

\* A loop ends with the reason it published, or with a stop or a restart.
THEOREM ReasonStays == Spec => []ReasonStands
<1>1. IInv => ReasonStands
  BY DEF IInv
<1> QED BY <1>1, Invariance, PTL

-----------------------------------------------------------------------------
(* What a step may do *)

\* A step that leaves a boundary is the end of a wait at its gate, an error, a
\* crash, or has no blocking and no suspending outcome to look after.
LEMMA WaysOut ==
  ASSUME IInv, Next, at \in Phases, at' # at
  PROVE  \/ Has("block") /\ reason' = "error"
         \/ reason' = "killed"
         \/ ~Has("block") /\ ~Has("suspend")
         \/ ~Has("block") /\ LetGo
<1>1. CASE Attempt \/ Backoff \/ AwaitStop \/ AwaitRestart \/ AwaitResume \/ AwaitCleared
           \/ Retry \/ Suspend \/ GateResume
  BY <1>1 DEF Attempt, Backoff, AwaitStop, AwaitRestart, AwaitResume, AwaitCleared, Retry,
              Suspend, GateResume
<1>2. CASE Blocked \/ Kill
  BY <1>2 DEF Blocked, Over, Kill
<1>3. CASE Pass
  BY <1>3 DEF Pass
<1>4. CASE GateStop
  <2>1. wait = "gate" /\ ~Has("block") /\ stop /\ ~stop' /\ Finish("stopped")
    BY <1>4 DEF GateStop, IInv, Placed
  <2> QED BY <2>1 DEF Finish, Over, LetGo
<1>5. CASE GateRestart
  <2>1. wait = "gate" /\ ~Has("block") /\ restart /\ Finish("restart_requested")
    BY <1>5 DEF GateRestart, IInv, Placed
  <2> QED BY <2>1 DEF Finish, Over, LetGo
<1>6. CASE GateOpens
  BY <1>6 DEF GateOpens, LetGo, IInv, Placed
<1>7. CASE Skip
  BY <1>7 DEF Skip, Has
<1>8. CASE HeadInterrupted \/ LoopHead \/ Select \/ Agent \/ Judge \/ Publish \/ Start
  BY <1>8 DEF HeadInterrupted, LoopHead, Select, Agent, Judge, Publish, Start, Running, Phases
<1>9. CASE Outside
  BY <1>9 DEF Outside, RequestStop, RequestRestart, ResumeLooks, ResumeWrites, Interrupt, Rest
<1> QED BY <1>1, <1>2, <1>3, <1>4, <1>5, <1>6, <1>7, <1>8, <1>9 DEF Next, Step

\* A blocking hook ends the loop, and a suspending one holds it at the gate,
\* for hooks of any number and order at the boundary.
THEOREM BoundariesAreHeld == Spec => BoundariesHold
<1>1. IInv /\ [Next]_vars
        => [LeavesBoundary => IF Disposed("block") THEN reason' = "error"
                              ELSE Disposed("suspend") => LetGo]_vars
  <2> SUFFICES ASSUME IInv, Next, LeavesBoundary, ~UNCHANGED vars
               PROVE  IF Disposed("block") THEN reason' = "error"
                      ELSE Disposed("suspend") => LetGo
    OBVIOUS
  <2>1. at \in Phases /\ at' # at /\ reason' # "killed"
    BY DEF LeavesBoundary
  <2>2. CASE Has("block") /\ reason' = "error"
    BY <2>2 DEF Has, Disposed
  <2>3. CASE (~Has("block") /\ ~Has("suspend")) \/ (~Has("block") /\ LetGo)
    BY <2>3 DEF Has, Disposed
  <2> QED BY <2>1, <2>2, <2>3, WaysOut
<1> QED BY <1>1, Invariance, PTL DEF Spec, BoundariesHold

\* Whatever takes a stop request is to end as stopped.
LEMMA StopIsTaken ==
  ASSUME Next, stop, ~stop'
  PROVE  reason' = "stopped"
<1>1. CASE GateStop
  BY <1>1 DEF GateStop, Finish, Over
<1>2. CASE LoopHead \/ Agent
  BY <1>2 DEF LoopHead, Agent, Check, Finish, Over
<1>3. stop' = stop \/ GateStop \/ LoopHead \/ Agent
  BY DEF Next, Step, Outside, Attempt, Backoff, AwaitStop, AwaitRestart, AwaitResume,
         AwaitCleared, Retry, Blocked, Pass, Suspend, GateRestart, GateResume, GateOpens,
         HeadInterrupted, Skip, Select, Judge, Publish, RequestStop, RequestRestart,
         ResumeLooks, ResumeWrites, Interrupt, Kill, Start, Between, files
<1> QED BY <1>1, <1>2, <1>3

-----------------------------------------------------------------------------
(* How long a stop or a restart can wait *)

\* A hook that waits is one of those still to be settled.
HooksInv ==
  /\ at \in Phases => Len(outcomes) <= Len(Hooks)
  /\ wait \in {"backoff", "await"} => Len(outcomes) < Len(Hooks)

\* A reason is found only on the way out.
EndingInv == at \notin Ending => reason = None

\* The places in the order in which a loop with a signal up goes through them:
\* from the head, and from the end of a run, it goes to the end.
StageOf(p) ==
  CASE p = "pre.loop.start"       -> 15
    [] p = "post.loop.start"      -> 14
    [] p = "pre.iteration.start"  -> 13
    [] p = "select"               -> 12
    [] p = "post.iteration.start" -> 11
    [] p = "agent"                -> 10
    [] p = "pre.plan.created"     -> 9
    [] p = "pre.human.interact"   -> 8
    [] p = "post.human.interact"  -> 7
    [] p = "post.plan.created"    -> 6
    [] p = "judge"                -> 5
    [] p = "head"                 -> 4
    [] p \in PreEnd               -> 3
    [] p = "publish"              -> 2
    [] p \in PostEnd              -> 1
    [] p = "over"                 -> 0
Stage == StageOf(at)

\* The looks at the files until a wait has seen sig or is over, at most.
Looks(sig) ==
  CASE wait = "none"                                           -> 5
    [] wait # "none" /\ poll = "restart" /\ sig = "stop"       -> 4
    [] wait # "none" /\ poll = "resume"                        -> 3
    [] wait # "none" /\ poll \in {sig, "retry"}                -> 1
    [] wait # "none" /\ poll \in {"stop", "resumed"} \ {sig}   -> 2

InPhase(sig) == IF at \in Phases THEN 5 * (Len(Hooks) - Len(outcomes)) + Looks(sig) ELSE 0

\* The steps of a loop that sig has been sent to, at most, if no phase has more
\* than m hooks.
StepsLeft(sig, m) == Stage * (5 * m + 6) + InPhase(sig)

AtMost(m) == \A p \in Phases : Len(HooksOf[p]) <= m

\* There are twelve phases, so there is such an m.
LEMMA SomeBound == \E m \in Nat : AtMost(m)
<1> DEFINE Early == Len(HooksOf["pre.loop.start"]) + Len(HooksOf["post.loop.start"])
           Iteration == Len(HooksOf["pre.iteration.start"]) + Len(HooksOf["post.iteration.start"])
           Plan == Len(HooksOf["pre.plan.created"]) + Len(HooksOf["post.plan.created"])
           Interact == Len(HooksOf["pre.human.interact"]) + Len(HooksOf["post.human.interact"])
           Complete == Len(HooksOf["pre.loop.complete"]) + Len(HooksOf["post.loop.complete"])
           Error == Len(HooksOf["pre.loop.error"]) + Len(HooksOf["post.loop.error"])
           All == Early + Iteration + Plan + Interact + Complete + Error
<1>1. \A p \in Phases : Len(HooksOf[p]) \in Nat
  OBVIOUS
<1>2. All \in Nat
  BY <1>1 DEF Phases
<1>3. AtMost(All)
  BY <1>1, SMTT(30) DEF AtMost, Phases
<1> QED BY <1>2, <1>3

LEMMA HooksAreCounted ==
  ASSUME TypeOK
  PROVE  Len(outcomes) \in Nat /\ (at \in Phases => Len(Hooks) \in Nat)
BY DEF TypeOK, Hooks

\* A hook is settled only while it is being dispatched.
LEMMA SettledNext ==
  ASSUME TypeOK, NEW d \in Dispositions, Settle(d), UNCHANGED at,
         at \in Phases, Len(outcomes) < Len(Hooks)
  PROVE  /\ wait' = "none" /\ Hooks' = Hooks
         /\ Len(outcomes') = Len(outcomes) + 1 /\ Len(outcomes') <= Len(Hooks)
<1>1. outcomes \in Seq(Dispositions) /\ outcomes' = Append(outcomes, d)
  BY DEF TypeOK, Settle, Dispositions
<1>2. Len(outcomes') = Len(outcomes) + 1
  BY <1>1, Appended
<1> QED BY <1>2, HooksAreCounted DEF Settle, Hooks

\* Where a step leaves the dispatch.
Settles == /\ at \in Phases /\ at' = at /\ Len(outcomes) < Len(Hooks)
           /\ \E d \in Dispositions : Settle(d)
Waits == /\ at \in Phases /\ at' = at /\ outcomes' = outcomes
         /\ \/ wait = "none" /\ wait' = "gate" /\ poll' = "stop"
            \/ wait = "none" /\ wait' \in {"backoff", "await"} /\ poll' = "stop"
               /\ Len(outcomes) < Len(Hooks)
            \/ wait # "none" /\ wait' = wait
Moves == \E p \in Places : Go(p)

LEMMA AttemptLeads ==
  ASSUME TypeOK, Placed, Attempt
  PROVE  /\ at \in Phases /\ wait = "none" /\ poll = "stop"
         /\ Len(outcomes) < Len(Hooks) /\ UNCHANGED at
         /\ \/ wait' \in {"backoff", "await"} /\ UNCHANGED <<outcomes, poll>>
            \/ Settles
<1>1. /\ at \in Phases /\ wait = "none" /\ poll = "stop"
      /\ Len(outcomes) < Len(Hooks) /\ UNCHANGED at
  BY DEF Attempt, Dispatching, Placed
<1>2. Hooks[This] \in HookSpec
  BY <1>1, HooksAreCounted DEF Hooks, This
<1>3. PICK d \in Dispositions :
        \/ wait' \in {"backoff", "await"} /\ UNCHANGED <<outcomes, poll>>
        \/ Settle(d)
  BY <1>2 DEF Attempt, HookSpec, Dispositions, OnError
<1> QED BY <1>1, <1>3 DEF Settles

LEMMA StepOutcomes ==
  ASSUME TypeOK, Placed, HooksInv, Step
  PROVE  Settles \/ Waits \/ Moves
<1> USE DEF dispatch, ending, files, others, history
<1>1. CASE Attempt
  BY <1>1, AttemptLeads DEF Waits
<1>2. CASE Backoff \/ AwaitStop \/ AwaitRestart \/ AwaitResume \/ AwaitCleared \/ Retry
  <2>1. at \in Phases /\ wait # "none" /\ Len(outcomes) < Len(Hooks) /\ UNCHANGED at
    BY <1>2 DEF Backoff, AwaitStop, AwaitRestart, AwaitResume, AwaitCleared, Retry, Placed,
                HooksInv
  <2>2. \/ wait' = wait /\ outcomes' = outcomes
        \/ Settle("suspend") \/ Settle("pass")
    BY <1>2 DEF Backoff, AwaitStop, AwaitRestart, AwaitResume, AwaitCleared, Retry
  <2> QED BY <2>1, <2>2 DEF Settles, Waits, Dispositions, OnError
<1>3. CASE Suspend
  BY <1>3 DEF Suspend, Dispatched, Waits
<1>4. CASE GateResume
  BY <1>4 DEF GateResume, Placed, Waits
<1>5. \A r : at \in Places \ {"over"} /\ Finish(r) => Moves
  BY DEF Finish, Over, Moves, Places, Phases, PreOf, PostOf, PreEnd, PostEnd
<1>6. at \in Phases /\ Onward => Moves
  <2>1. \A p \in DOMAIN Walk : Walk[p] \in Places
    BY DEF Walk, Places, Phases
  <2> QED BY <1>5, <2>1 DEF Onward, Moves, Places, Phases
<1>7. CASE GateStop \/ GateRestart
  <2>1. at \in Phases /\ wait = "gate" /\ at \in Places \ {"over"}
    BY <1>7 DEF GateStop, GateRestart, Placed, Places, Phases
  <2>2. Finish("stopped") \/ Finish("restart_requested") \/ UNCHANGED <<at, outcomes, wait>>
    BY <1>7 DEF GateStop, GateRestart
  <2> QED BY <1>5, <2>1, <2>2 DEF Waits
<1>8. CASE Blocked \/ Pass \/ GateOpens
  BY <1>6, <1>8 DEF Blocked, Over, Moves, Places, Pass, Dispatched, GateOpens, Placed
<1>9. CASE HeadInterrupted \/ LoopHead \/ Select \/ Agent \/ Judge
  <2>1. at \in Places \ {"over"}
    BY <1>9 DEF HeadInterrupted, LoopHead, Select, Agent, Judge, Places, Phases
  <2>2. \/ \E r : Finish(r)
        \/ \E p \in {"pre.iteration.start", "pre.plan.created", "post.iteration.start", "head",
                     "over"} : Go(p)
    BY <1>9 DEF HeadInterrupted, LoopHead, Select, Agent, Judge, Check, Over
  <2> QED BY <1>5, <2>1, <2>2 DEF Moves, Places, Phases
<1>10. CASE Skip \/ Publish
  BY <1>10 DEF Skip, Optional, Walk, Publish, PostOf, Moves, Places, Phases
<1> QED BY <1>1, <1>2, <1>3, <1>4, <1>7, <1>8, <1>9, <1>10 DEF Step

LEMMA HooksKept ==
  ASSUME TypeOK, TypeOK', Placed, HooksInv, [Next]_vars
  PROVE  HooksInv'
<1> USE DEF dispatch, ending, files, others, history
<1>1. CASE Settles
  BY <1>1, SettledNext DEF Settles, HooksInv
<1>2. CASE Waits
  <2>1. Hooks' = Hooks
    BY <1>2 DEF Waits, Hooks
  <2> QED BY <1>2, <2>1 DEF Waits, HooksInv
<1>3. ASSUME NEW p \in Places, Go(p) PROVE HooksInv'
  <2>1. Len(outcomes') = 0 /\ wait' = "none"
    BY <1>3 DEF Go
  <2>2. at' \in Phases => Len(Hooks') \in Nat
    BY DEF Hooks
  <2> QED BY <2>1, <2>2 DEF HooksInv
<1>4. CASE Outside \/ UNCHANGED vars
  <2>1. UNCHANGED <<at, outcomes, wait>>
    BY <1>4 DEF Outside, RequestStop, RequestRestart, ResumeLooks, ResumeWrites, Interrupt, Rest,
                vars
  <2>2. Hooks' = Hooks
    BY <2>1 DEF Hooks
  <2> QED BY <2>1, <2>2 DEF HooksInv
<1>5. CASE Kill \/ Start
  BY <1>3, <1>5 DEF Kill, Start, Places, Phases
<1> QED BY <1>1, <1>2, <1>3, <1>4, <1>5, StepOutcomes DEF Next, Moves

LEMMA EndingKept ==
  ASSUME TypeOK, Placed, EndingInv, [Next]_vars
  PROVE  EndingInv'
<1> USE DEF dispatch, ending, files, others, history
<1>1. \A r : Finish(r) => EndingInv'
  BY DEF Finish, Over, Go, PreOf, PreEnd, PostEnd, EndingInv, Ending
<1>2. CASE Attempt \/ Backoff \/ AwaitStop \/ AwaitRestart \/ AwaitResume \/ AwaitCleared
           \/ Retry \/ Suspend \/ GateResume \/ Outside \/ UNCHANGED vars
  <2>1. UNCHANGED <<at, reason>>
    BY <1>2 DEF Attempt, Backoff, AwaitStop, AwaitRestart, AwaitResume, AwaitCleared, Retry,
                Suspend, GateResume, Outside, RequestStop, RequestRestart, ResumeLooks,
                ResumeWrites, Interrupt, Rest, vars
  <2> QED BY <2>1 DEF EndingInv
<1>3. CASE GateStop \/ GateRestart
  <2>1. Finish("stopped") \/ Finish("restart_requested") \/ UNCHANGED <<at, reason>>
    BY <1>3 DEF GateStop, GateRestart
  <2> QED BY <1>1, <2>1 DEF EndingInv
<1>4. at \in Phases /\ Onward => EndingInv'
  <2>1. CASE at \in {"pre.loop.start", "post.loop.start"} \cup DOMAIN Walk
    BY <2>1 DEF Onward, Walk, Go, EndingInv, Ending, PreEnd, PostEnd
  <2>2. CASE at \in PreEnd \cup PostEnd
    BY <1>1, <2>2 DEF Onward, Walk, PreEnd, PostEnd
  <2> QED BY <2>1, <2>2 DEF Phases, Walk, PreEnd, PostEnd
<1>5. CASE Pass \/ GateOpens \/ Blocked
  <2>1. CASE Blocked
    BY <2>1 DEF Blocked, Over, Go, EndingInv, Ending
  <2>2. CASE Pass
    BY <1>4, <2>2 DEF Pass, Dispatched
  <2>3. CASE GateOpens
    BY <1>4, <2>3 DEF GateOpens, Placed
  <2> QED BY <1>5, <2>1, <2>2, <2>3
<1>6. CASE HeadInterrupted \/ LoopHead \/ Select \/ Agent \/ Judge \/ Skip
  <2>1. reason = None
    BY <1>6 DEF HeadInterrupted, LoopHead, Select, Agent, Judge, Skip, Optional, Walk, EndingInv,
                Ending, PreEnd, PostEnd
  <2>2. (\E r : Finish(r)) \/ at' = "over" \/ reason' = reason
    BY <1>6 DEF HeadInterrupted, LoopHead, Select, Agent, Judge, Skip, Check, Over, Go
  <2> QED BY <1>1, <2>1, <2>2 DEF EndingInv, Ending
<1>7. CASE Publish \/ Kill \/ Start
  BY <1>7 DEF Publish, PostOf, Kill, Start, Go, EndingInv, Ending, PreEnd, PostEnd
<1> QED BY <1>2, <1>3, <1>5, <1>6, <1>7 DEF Next, Step

\* The places ahead of the head of the loop.
Ahead == {"pre.loop.start", "post.loop.start", "select", "agent", "judge"} \cup DOMAIN Walk

LEMMA Stages ==
  /\ \A p \in PreEnd : StageOf(p) = 3
  /\ \A p \in PostEnd : StageOf(p) = 1
  /\ \A p \in Ahead : StageOf(p) \in 5..15
  /\ StageOf("pre.loop.start") = 15 /\ StageOf("post.loop.start") = 14
  /\ \A p \in DOMAIN Walk : StageOf(Walk[p]) < StageOf(p)
  /\ StageOf("select") = 12 /\ StageOf("post.iteration.start") = 11 /\ StageOf("judge") = 5
  /\ StageOf("head") = 4 /\ StageOf("publish") = 2 /\ StageOf("over") = 0
<1>1. \A p \in PreEnd : StageOf(p) = 3
  BY DEF StageOf, PreEnd, PostEnd
<1>2. \A p \in PostEnd : StageOf(p) = 1
  BY DEF StageOf, PreEnd, PostEnd
<1>3. /\ StageOf("pre.loop.start") = 15 /\ StageOf("post.loop.start") = 14
      /\ StageOf("pre.iteration.start") = 13 /\ StageOf("select") = 12
      /\ StageOf("post.iteration.start") = 11 /\ StageOf("agent") = 10
  BY DEF StageOf, PreEnd, PostEnd
<1>4. /\ StageOf("pre.plan.created") = 9 /\ StageOf("pre.human.interact") = 8
      /\ StageOf("post.human.interact") = 7 /\ StageOf("post.plan.created") = 6
      /\ StageOf("judge") = 5
  BY DEF StageOf, PreEnd, PostEnd
<1>5. StageOf("head") = 4 /\ StageOf("publish") = 2 /\ StageOf("over") = 0
  BY DEF StageOf, PreEnd, PostEnd
<1>6. \A p \in DOMAIN Walk : StageOf(Walk[p]) < StageOf(p)
  BY <1>3, <1>4 DEF Walk
<1>7. \A p \in Ahead : StageOf(p) \in 5..15
  BY <1>3, <1>4 DEF Ahead, Walk
<1> QED BY <1>1, <1>2, <1>3, <1>4, <1>5, <1>6, <1>7

LEMMA StageBounds ==
  /\ \A p \in Places : StageOf(p) \in 0..15
  /\ \A p \in Phases : StageOf(p) \in 1..15
<1>1. \A p \in Ahead \cup PreEnd \cup PostEnd : StageOf(p) \in 1..15
  BY Stages
<1>2. \A p \in {"head", "publish", "over"} : StageOf(p) \in 0..15
  BY Stages
<1>3. \A p \in Phases : p \in Ahead \cup PreEnd \cup PostEnd
  BY DEF Phases, Ahead, Walk, PreEnd, PostEnd
<1>4. \A p \in Places : p \in Phases \/ p \in {"head", "publish", "over"} \/ p \in Ahead
  BY DEF Places, Ahead
<1>5. \A p \in Phases : StageOf(p) \in 1..15
  BY <1>1, <1>3
<1>6. \A p \in Phases \cup Ahead : StageOf(p) \in 0..15
  BY <1>1, <1>5
<1> QED BY <1>2, <1>4, <1>5, <1>6

LEMMA StageType == TypeOK => Stage \in 0..15
BY StageBounds DEF TypeOK, Stage

\* To end with a reason, and to go on after a boundary, is to come nearer.
LEMMA FinishIsNearer ==
  ASSUME at \in Places \ {"publish", "over"}, NEW r, Finish(r)
  PROVE  Stage' < Stage
<1>1. CASE at \in PostEnd
  <2>1. at' = "over"
    BY <1>1 DEF Finish, Over, Go
  <2> QED BY <1>1, <2>1, Stages DEF Stage
<1>2. CASE at \in PreEnd
  <2>1. at' = "publish"
    BY <1>2 DEF Finish, Go, PreEnd, PostEnd
  <2> QED BY <1>2, <2>1, Stages DEF Stage
<1>3. CASE at \notin PreEnd \cup PostEnd
  <2>1. at' \in PreEnd
    BY <1>3 DEF Finish, Go, PreOf, PreEnd
  <2>2. at = "head" \/ at \in Ahead
    BY <1>3 DEF Places, Phases, Ahead, Walk, PreEnd, PostEnd
  <2>3. Stage \in 4..15
    BY <2>2, Stages DEF Stage
  <2>4. Stage' = 3
    BY <2>1, Stages DEF Stage
  <2> QED BY <2>3, <2>4
<1> QED BY <1>1, <1>2, <1>3

LEMMA OnwardIsNearer ==
  ASSUME at \in Phases, Onward
  PROVE  Stage' < Stage
<1>1. CASE at \in {"pre.loop.start", "post.loop.start"} \cup DOMAIN Walk
  <2>1. \/ at = "pre.loop.start" /\ at' = "post.loop.start"
        \/ at = "post.loop.start" /\ at' = "head"
        \/ at \in DOMAIN Walk /\ at' = Walk[at]
    BY <1>1 DEF Onward, Walk, Go
  <2> QED BY <2>1, Stages DEF Stage
<1>2. CASE at \in PreEnd \cup PostEnd
  BY <1>2, FinishIsNearer DEF Onward, Walk, Places, PreEnd, PostEnd, Phases
<1> QED BY <1>1, <1>2 DEF Phases, Walk, PreEnd, PostEnd

\* A loop is on its way out if a signal is up, or if it has a reason to end and
\* does not wait.
Leaving(sig) ==
  \/ sig = "restart" /\ restart
  \/ sig = "stop" /\ stop
  \/ sig = "stop" /\ wait = "none" /\ reason # None

\* Each of its steps then leads to a later stage, settles a hook, or is a look
\* at the files after which there are fewer.
LEMMA StepIsNearer ==
  ASSUME TypeOK, Placed, HooksInv, EndingInv, Step, NEW sig, Leaving(sig)
  PROVE  \/ Stage' < Stage
         \/ Settles
         \/ /\ at \in Phases /\ UNCHANGED <<at, outcomes>>
            /\ Looks(sig)' < Looks(sig)
<1> USE DEF dispatch, ending, files, others, history
<1>1. CASE Attempt
  <2>1. CASE Settles
    BY <2>1
  <2>2. CASE wait' \in {"backoff", "await"} /\ UNCHANGED <<outcomes, poll>>
    BY <1>1, <2>2, AttemptLeads DEF Looks
  <2> QED BY <1>1, <2>1, <2>2, AttemptLeads
<1>2. CASE Backoff \/ Retry
  <2>1. at \in Phases /\ wait # "none" /\ Len(outcomes) < Len(Hooks) /\ UNCHANGED at
    BY <1>2 DEF Backoff, Retry, Placed, HooksInv
  <2>2. Settle("suspend") \/ Settle("pass")
    BY <1>2, <2>1 DEF Backoff, Retry, Leaving
  <2> QED BY <2>1, <2>2 DEF Settles, Dispositions, OnError
<1>3. CASE AwaitStop \/ AwaitRestart
  <2>1. at \in Phases /\ wait = "await" /\ Len(outcomes) < Len(Hooks) /\ UNCHANGED at
    BY <1>3 DEF AwaitStop, AwaitRestart, Placed, HooksInv
  <2>2. CASE Settle("suspend")
    BY <2>1, <2>2 DEF Settles, Dispositions, OnError
  <2>3. CASE /\ ~stop /\ poll = "stop" /\ poll' = "restart"
             /\ UNCHANGED <<outcomes, wait>>
    BY <2>1, <2>3 DEF Leaving, Looks
  <2>4. CASE /\ ~restart /\ poll = "restart" /\ poll' = "resume"
             /\ UNCHANGED <<outcomes, wait>>
    BY <2>1, <2>4 DEF Leaving, Looks
  <2> QED BY <1>3, <2>2, <2>3, <2>4 DEF AwaitStop, AwaitRestart
<1>4. CASE AwaitResume \/ AwaitCleared \/ GateResume
  <2>1. at \in Phases /\ wait # "none" /\ UNCHANGED <<at, outcomes, wait>>
    BY <1>4 DEF AwaitResume, AwaitCleared, GateResume, Placed
  <2>2. \/ poll = "resume" /\ poll' \in {"resumed", "stop"}
        \/ poll = "resumed" /\ poll' = "retry"
    BY <1>4 DEF AwaitResume, AwaitCleared, GateResume, ConsumeResume
  <2>3. sig \in {"stop", "restart"}
    BY DEF Leaving
  <2> QED BY <2>1, <2>2, <2>3 DEF Looks
<1>5. CASE Suspend
  BY <1>5 DEF Suspend, Dispatched, Looks, Leaving
<1>6. CASE GateStop \/ GateRestart
  <2>1. at \in Phases /\ at \in Places \ {"publish", "over"} /\ wait = "gate"
    BY <1>6 DEF GateStop, GateRestart, Placed, Places, Phases
  <2>2. CASE Finish("stopped") \/ Finish("restart_requested")
    BY <2>1, <2>2, FinishIsNearer
  <2>3. CASE /\ ~stop /\ poll = "stop" /\ poll' = "restart"
             /\ UNCHANGED <<at, outcomes, wait>>
    BY <2>1, <2>3 DEF Leaving, Looks
  <2>4. CASE /\ ~restart /\ poll = "restart" /\ poll' = "resume"
             /\ UNCHANGED <<at, outcomes, wait>>
    BY <2>1, <2>4 DEF Leaving, Looks
  <2> QED BY <1>6, <2>2, <2>3, <2>4 DEF GateStop, GateRestart
<1>7. CASE Pass \/ GateOpens
  <2>1. at \in Phases /\ Onward
    BY <1>7 DEF Pass, Dispatched, GateOpens, Placed
  <2> QED BY <2>1, OnwardIsNearer
<1>8. CASE Blocked
  <2>1. at' = "over" /\ at \in Phases
    BY <1>8 DEF Blocked, Dispatched, Over, Go
  <2>2. Stage \in 1..15
    BY <2>1, StageBounds DEF Stage
  <2>3. Stage' = 0
    BY <2>1, Stages DEF Stage
  <2> QED BY <2>2, <2>3
<1>9. CASE HeadInterrupted \/ LoopHead \/ Agent
  <2>1. at \in {"head", "agent"} /\ at \in Places \ {"publish", "over"}
    BY <1>9 DEF HeadInterrupted, LoopHead, Agent, Places
  <2>2. stop \/ restart
    BY <2>1 DEF Leaving, EndingInv, Ending, PreEnd, PostEnd
  <2>3. \E r : Finish(r)
    BY <1>9, <2>2 DEF HeadInterrupted, LoopHead, Agent, Check
  <2> QED BY <2>1, <2>3, FinishIsNearer
<1>10. CASE Skip
  <2>1. at \in DOMAIN Walk /\ at' = Walk[at]
    BY <1>10 DEF Skip, Optional, Go
  <2> QED BY <2>1, Stages DEF Stage
<1>11. CASE Select
  <2>1. at \in Places \ {"publish", "over"}
    BY <1>11 DEF Select, Places
  <2>2. CASE \E r : Finish(r)
    BY <2>1, <2>2, FinishIsNearer
  <2>3. CASE Go("post.iteration.start") \/ Go("head")
    <3>1. at = "select" /\ at' \in {"post.iteration.start", "head"}
      BY <1>11, <2>3 DEF Select, Go
    <3> QED BY <3>1, Stages DEF Stage
  <2> QED BY <1>11, <2>2, <2>3 DEF Select
<1>12. CASE Judge
  <2>1. at \in Places \ {"publish", "over"}
    BY <1>12 DEF Judge, Places
  <2>2. CASE Finish("completed")
    BY <2>1, <2>2, FinishIsNearer
  <2>3. CASE Go("over") \/ Go("head")
    <3>1. at = "judge" /\ at' \in {"over", "head"}
      BY <1>12, <2>3 DEF Judge, Go
    <3> QED BY <3>1, Stages DEF Stage
  <2> QED BY <1>12, <2>2, <2>3 DEF Judge, Over
<1>13. CASE Publish
  <2>1. at = "publish" /\ at' \in PostEnd
    BY <1>13 DEF Publish, Go, PostOf, PostEnd
  <2> QED BY <2>1, Stages DEF Stage
<1> QED
  BY <1>1, <1>2, <1>3, <1>4, <1>5, <1>6, <1>7, <1>8, <1>9, <1>10, <1>11, <1>12, <1>13 DEF Step

\* A later stage outweighs all the hooks of a phase.
LEMMA Outweighs ==
  ASSUME NEW s \in Nat, NEW t \in Nat, NEW v \in Nat, NEW a \in Nat, NEW b \in Nat,
         t < s, b < v
  PROVE  t * v + b < s * v + a
<1>1. (t + 1) * v = t * v + v
  OBVIOUS
<1>2. PICK d \in Nat : s = (t + 1) + d
  <2>1. s - (t + 1) \in Nat /\ s = (t + 1) + (s - (t + 1))
    OBVIOUS
  <2> QED BY <2>1
<1>3. s * v = (t + 1) * v + d * v
  BY <1>2
<1>4. d * v \in Nat /\ t * v \in Nat
  OBVIOUS
<1>5. PICK x \in Nat : x = t * v
  BY <1>4
<1>6. PICK y \in Nat : y = d * v
  BY <1>4
<1>7. s * v = (x + v) + y
  BY <1>1, <1>3, <1>5, <1>6
<1>8. x + b < ((x + v) + y) + a
  OBVIOUS
<1> QED BY <1>5, <1>7, <1>8

LEMMA LooksType ==
  ASSUME NEW sig \in {"stop", "restart"}
  PROVE  TypeOK => Looks(sig) \in 1..5
BY DEF TypeOK, Looks

LEMMA InPhaseType ==
  ASSUME NEW sig \in {"stop", "restart"}, NEW m \in Nat, AtMost(m)
  PROVE  TypeOK /\ HooksInv => InPhase(sig) \in Nat /\ InPhase(sig) < 5 * m + 6
<1> SUFFICES ASSUME TypeOK, HooksInv PROVE InPhase(sig) \in Nat /\ InPhase(sig) < 5 * m + 6
  OBVIOUS
<1>1. CASE at \in Phases
  <2>1. Len(outcomes) \in Nat /\ Len(Hooks) \in Nat /\ Len(outcomes) <= Len(Hooks)
    BY <1>1, HooksAreCounted DEF HooksInv
  <2>2. Len(Hooks) <= m
    BY <1>1 DEF AtMost, Hooks
  <2>3. PICK k \in 1..5 : k = Looks(sig)
    BY LooksType
  <2>4. InPhase(sig) = 5 * (Len(Hooks) - Len(outcomes)) + k
    BY <1>1, <2>3 DEF InPhase
  <2> QED BY <2>1, <2>2, <2>4
<1>2. CASE at \notin Phases
  BY <1>2 DEF InPhase
<1> QED BY <1>1, <1>2

LEMMA StepsLeftType ==
  ASSUME NEW sig \in {"stop", "restart"}, NEW m \in Nat, AtMost(m)
  PROVE  TypeOK /\ HooksInv => StepsLeft(sig, m) \in Nat
<1> SUFFICES ASSUME TypeOK, HooksInv PROVE StepsLeft(sig, m) \in Nat
  OBVIOUS
<1>1. TypeOK /\ HooksInv => InPhase(sig) \in Nat /\ InPhase(sig) < 5 * m + 6
  BY InPhaseType
<1>2. PICK s \in Nat : s = Stage
  BY StageType
<1>3. s * (5 * m + 6) \in Nat
  OBVIOUS
<1> QED BY <1>1, <1>2, <1>3 DEF StepsLeft

LEMMA StepCloser ==
  ASSUME NEW sig \in {"stop", "restart"}, NEW m \in Nat, AtMost(m)
  PROVE  TypeOK /\ TypeOK' /\ Placed /\ HooksInv /\ HooksInv' /\ EndingInv /\ Step /\ Leaving(sig)
           => StepsLeft(sig, m)' < StepsLeft(sig, m)
<1>1. TypeOK /\ HooksInv => InPhase(sig) \in Nat /\ InPhase(sig) < 5 * m + 6
  BY InPhaseType
<1>2. TypeOK' /\ HooksInv' => (InPhase(sig) \in Nat /\ InPhase(sig) < 5 * m + 6)'
  BY <1>1, PTL
<1>3. TypeOK' => (Stage \in 0..15)'
  BY StageType, PTL
<1>4. TypeOK' => (Looks(sig) \in 1..5)'
  <2>1. TypeOK => Looks(sig) \in 1..5
    BY LooksType
  <2> QED BY <2>1, PTL
<1> SUFFICES ASSUME TypeOK, TypeOK', Placed, HooksInv, HooksInv', EndingInv, Step, Leaving(sig)
             PROVE  StepsLeft(sig, m)' < StepsLeft(sig, m)
  OBVIOUS
<1>5. PICK s \in Nat : s = Stage
  BY StageType
<1>6. PICK t \in Nat : t = Stage'
  BY <1>3
<1>7. PICK v \in Nat : v = 5 * m + 6
  OBVIOUS
<1>8. PICK a \in Nat : a = InPhase(sig)
  BY <1>1
<1>9. PICK b \in Nat : b = InPhase(sig)' /\ b < v
  BY <1>2, <1>7
<1>10. StepsLeft(sig, m) = s * v + a /\ StepsLeft(sig, m)' = t * v + b
  BY <1>5, <1>6, <1>7, <1>8, <1>9 DEF StepsLeft
<1>11. CASE Stage' < Stage
  <2>1. t < s /\ b < v
    BY <1>5, <1>6, <1>11, <1>9
  <2>2. t * v + b < s * v + a
    BY <2>1, Outweighs
  <2> QED BY <1>10, <2>2
<1>12. CASE s = t /\ b < a
  <2>1. PICK x \in Nat : x = s * v
    OBVIOUS
  <2>2. x + b < x + a
    BY <1>12
  <2> QED BY <1>10, <1>12, <2>1, <2>2
<1>13. PICK k \in 1..5 : k = Looks(sig)
  BY LooksType
<1>14. PICK l \in 1..5 : l = Looks(sig)'
  BY <1>4
<1>15. at \in Phases /\ at' = at
         => /\ s = t
            /\ a = 5 * (Len(Hooks) - Len(outcomes)) + k
            /\ b = 5 * (Len(Hooks) - Len(outcomes')) + l
  BY <1>5, <1>6, <1>13, <1>14, <1>8, <1>9 DEF Stage, InPhase, Hooks
<1>16. CASE Settles
  <2>1. PICK d \in Dispositions : Settle(d)
    BY <1>16 DEF Settles
  <2>2. Len(outcomes') = Len(outcomes) + 1 /\ at \in Phases /\ at' = at
    BY <1>16, <2>1, SettledNext DEF Settles
  <2>3. 5 * (Len(Hooks) - Len(outcomes')) + l < 5 * (Len(Hooks) - Len(outcomes)) + k
    BY <2>2, HooksAreCounted
  <2> QED BY <1>12, <1>15, <2>2, <2>3
<1>17. CASE at \in Phases /\ UNCHANGED <<at, outcomes>> /\ Looks(sig)' < Looks(sig)
  <2>1. l < k /\ outcomes' = outcomes
    BY <1>13, <1>14, <1>17
  <2>2. PICK x \in Nat : x = 5 * (Len(Hooks) - Len(outcomes))
    BY <1>17, HooksAreCounted DEF HooksInv
  <2>3. x + l < x + k
    BY <2>1
  <2> QED BY <1>12, <1>15, <1>17, <2>1, <2>2, <2>3
<1> QED BY <1>11, <1>16, <1>17, StepIsNearer

\* Nothing but a loop that is over takes a restart, and a stop only a loop that
\* has a reason to end from then on.
LEMMA SignalsStay ==
  ASSUME Next
  PROVE  /\ restart /\ ~restart' => ~Running'
         /\ stop /\ ~stop' => reason' = "stopped"
<1>1. CASE GateStop \/ GateRestart \/ LoopHead \/ Agent
  <2>1. \A r : Finish(r) /\ restart /\ ~restart' => ~Running'
    BY DEF Finish, Over, Go, Running
  <2>2. \A r : Finish(r) => reason' = r
    BY DEF Finish, Over
  <2>3. CASE GateStop \/ GateRestart
    BY <2>1, <2>2, <2>3 DEF GateStop, GateRestart
  <2>4. CASE LoopHead \/ Agent
    <3>1. \/ Finish("stopped")
          \/ stop' = stop /\ (restart' = restart \/ \E r : Finish(r))
      BY <2>4 DEF LoopHead, Agent, Check
    <3> QED BY <2>1, <2>2, <3>1
  <2> QED BY <1>1, <2>3, <2>4
<1>2. CASE Blocked \/ Pass \/ GateOpens \/ HeadInterrupted \/ Select \/ Judge
  BY <1>2 DEF Blocked, Pass, GateOpens, HeadInterrupted, Select, Judge, Onward, Finish, Over, Go,
              Running, Between
<1>3. CASE Attempt \/ Backoff \/ AwaitStop \/ AwaitRestart \/ AwaitResume \/ AwaitCleared
           \/ Retry \/ Suspend \/ GateResume \/ Skip \/ Publish \/ Outside \/ Kill \/ Start
  BY <1>3 DEF Attempt, Backoff, AwaitStop, AwaitRestart, AwaitResume, AwaitCleared, Retry,
              Suspend, GateResume, Skip, Publish, Outside, RequestStop, RequestRestart,
              ResumeLooks, ResumeWrites, Interrupt, Kill, Start, Between, files
<1> QED BY <1>1, <1>2, <1>3 DEF Next, Step

LEMMA OutsideWaits ==
  ASSUME Outside, NEW sig, NEW m
  PROVE  UNCHANGED StepsLeft(sig, m)
<1>1. UNCHANGED <<at, outcomes, wait, poll>>
  BY DEF Outside, RequestStop, RequestRestart, ResumeLooks, ResumeWrites, Interrupt, Rest, dispatch
<1>2. Stage' = Stage /\ Looks(sig)' = Looks(sig) /\ Hooks' = Hooks
  BY <1>1 DEF Stage, Looks, Hooks
<1>3. InPhase(sig)' = InPhase(sig)
  BY <1>1, <1>2 DEF InPhase
<1> QED BY <1>2, <1>3 DEF StepsLeft

LEMMA Bookkept == Spec => [](HooksInv /\ EndingInv)
<1>1. Init => HooksInv /\ EndingInv
  <2> SUFFICES ASSUME Init PROVE HooksInv /\ EndingInv
    OBVIOUS
  <2>1. at = "pre.loop.start" /\ Len(outcomes) = 0 /\ wait = "none" /\ reason = None
    BY DEF Init
  <2>2. Len(Hooks) \in Nat
    BY <2>1 DEF Hooks, Phases
  <2> QED BY <2>1, <2>2 DEF HooksInv, EndingInv, Ending, PreEnd, PostEnd
<1>2. IInv /\ IInv' /\ HooksInv /\ EndingInv /\ [Next]_vars => HooksInv' /\ EndingInv'
  BY HooksKept, EndingKept DEF IInv
<1> QED BY <1>1, <1>2, Invariance, PTL DEF Spec

\* How a loop that has taken a stop goes on.
StaysStopped ==
  /\ at' \in Ending
  /\ \/ reason' \in {"stopped", "killed"}
     \/ reason' = "restart_requested" /\ wait = "gate" /\ restart
     \/ reason' = "error" /\ Disposed("block")

LEMMA StoppedStep ==
  ASSUME EndingInv, Placed, Next, reason = "stopped", at # "over"
  PROVE  StaysStopped
<1> USE DEF dispatch, ending, files, others, history
<1>1. at \in PreEnd \cup PostEnd \cup {"publish"}
  BY NoneAssumption DEF EndingInv, Ending, Ends, Reasons
<1>2. at \in Ending
  BY <1>1 DEF Ending
<1>3. \A r : Finish(r) => at' \in Ending /\ reason' = r
  BY DEF Finish, Over, Go, PreOf, PreEnd, PostEnd, Ending
<1>4. CASE Attempt \/ Backoff \/ AwaitStop \/ AwaitRestart \/ AwaitResume \/ AwaitCleared
           \/ Retry \/ Suspend \/ GateResume \/ Outside
  <2>1. UNCHANGED <<at, reason>>
    BY <1>4 DEF Attempt, Backoff, AwaitStop, AwaitRestart, AwaitResume, AwaitCleared, Retry,
                Suspend, GateResume, Outside, RequestStop, RequestRestart, ResumeLooks,
                ResumeWrites, Interrupt, Rest
  <2> QED BY <1>2, <2>1 DEF StaysStopped
<1>5. CASE GateStop \/ GateRestart
  <2>1. \/ Finish("stopped")
        \/ Finish("restart_requested") /\ wait = "gate" /\ restart
        \/ UNCHANGED <<at, reason>>
    BY <1>5 DEF GateStop, GateRestart
  <2> QED BY <1>2, <1>3, <2>1 DEF StaysStopped
<1>6. CASE Blocked
  <2>1. Has("block") /\ at' = "over" /\ reason' = "error"
    BY <1>6 DEF Blocked, Over, Go
  <2> QED BY <2>1 DEF StaysStopped, Ending, Has, Disposed
<1>7. CASE Pass \/ GateOpens
  <2>1. Onward
    BY <1>7 DEF Pass, GateOpens
  <2>2. at \in Phases
    BY <1>7 DEF Pass, Dispatched, GateOpens, Placed
  <2>3. Finish(reason)
    BY <1>1, <2>1, <2>2 DEF Onward, Walk, PreEnd, PostEnd, Phases
  <2> QED BY <1>3, <2>3 DEF StaysStopped
<1>8. CASE Publish \/ Kill
  BY <1>8 DEF Publish, PostOf, Kill, Go, StaysStopped, Ending, PostEnd
<1>9. CASE HeadInterrupted \/ LoopHead \/ Skip \/ Select \/ Agent \/ Judge \/ Start
  <2>1. at \notin PreEnd \cup PostEnd \cup {"publish"}
    BY <1>9 DEF HeadInterrupted, LoopHead, Skip, Select, Agent, Judge, Start, Running,
                Optional, Walk, PreEnd, PostEnd
  <2> QED BY <1>1, <2>1
<1> QED BY <1>4, <1>5, <1>6, <1>7, <1>8, <1>9 DEF Next, Step

\* Only a loop that is to end as stopped takes a stop, and it goes on with the
\* hooks of its termination until it is over: as stopped, but for a restart that
\* lets it go where one of those hooks suspends it, a hook that blocks, a kill.
THEOREM StoppedStays == Spec => StopIsHonoured
<1>1. IInv /\ HooksInv /\ EndingInv /\ [Next]_vars
        => [/\ stop /\ ~stop' => reason' = "stopped"
            /\ reason = "stopped" /\ at # "over"
                 => /\ at' \in Ending
                    /\ \/ reason' \in {"stopped", "killed"}
                       \/ reason' = "restart_requested" /\ wait = "gate" /\ restart
                       \/ reason' = "error" /\ Disposed("block")]_vars
  BY StopIsTaken, StoppedStep DEF IInv, StaysStopped
<1> QED BY <1>1, Invariance, Bookkept, PTL DEF Spec, StopIsHonoured

\* A restart signal stays up until the loop is over, and while it is up each
\* step of the loop, wherever it is and whatever its hooks do, leaves fewer
\* steps until then: no suspension holds it, and no boundary is gone round.
THEOREM RestartAdvances ==
  ASSUME NEW m \in Nat, AtMost(m)
  PROVE  Spec => /\ [](StepsLeft("restart", m) \in Nat)
                 /\ [][restart /\ Step => StepsLeft("restart", m)' < StepsLeft("restart", m)]_vars
                 /\ [][Outside => UNCHANGED StepsLeft("restart", m)]_vars
                 /\ [][restart /\ ~restart' => ~Running']_vars
<1>1. TypeOK /\ HooksInv => StepsLeft("restart", m) \in Nat
  BY StepsLeftType
<1>2. IInv /\ IInv' /\ HooksInv /\ HooksInv' /\ EndingInv /\ [Next]_vars
        => /\ [restart /\ Step => StepsLeft("restart", m)' < StepsLeft("restart", m)]_vars
           /\ [Outside => UNCHANGED StepsLeft("restart", m)]_vars
           /\ [restart /\ ~restart' => ~Running']_vars
  <2>1. TypeOK /\ TypeOK' /\ Placed /\ HooksInv /\ HooksInv' /\ EndingInv /\ Step
          /\ Leaving("restart") => StepsLeft("restart", m)' < StepsLeft("restart", m)
    BY StepCloser
  <2>2. restart => Leaving("restart")
    BY DEF Leaving
  <2>3. Outside => UNCHANGED StepsLeft("restart", m)
    BY OutsideWaits
  <2> QED BY <2>1, <2>2, <2>3, SignalsStay DEF IInv
<1>3. IInv => TypeOK
  BY DEF IInv
<1> QED BY <1>1, <1>2, <1>3, Bookkept, Invariance, PTL DEF Spec

\* A stop signal stays up until it is the reason the loop ends for; while it is
\* up, and from then on unless a hook of the termination waits, each step of
\* the loop leaves fewer steps until the loop is over.
THEOREM StopAdvances ==
  ASSUME NEW m \in Nat, AtMost(m)
  PROVE  Spec => /\ [](StepsLeft("stop", m) \in Nat)
                 /\ [][(stop \/ (wait = "none" /\ reason # None)) /\ Step
                         => StepsLeft("stop", m)' < StepsLeft("stop", m)]_vars
                 /\ [][Outside => UNCHANGED StepsLeft("stop", m)]_vars
                 /\ [][stop /\ ~stop' => reason' = "stopped"]_vars
<1>1. TypeOK /\ HooksInv => StepsLeft("stop", m) \in Nat
  BY StepsLeftType
<1>2. IInv /\ IInv' /\ HooksInv /\ HooksInv' /\ EndingInv /\ [Next]_vars
        => /\ [(stop \/ (wait = "none" /\ reason # None)) /\ Step
                 => StepsLeft("stop", m)' < StepsLeft("stop", m)]_vars
           /\ [Outside => UNCHANGED StepsLeft("stop", m)]_vars
           /\ [stop /\ ~stop' => reason' = "stopped"]_vars
  <2>1. TypeOK /\ TypeOK' /\ Placed /\ HooksInv /\ HooksInv' /\ EndingInv /\ Step
          /\ Leaving("stop") => StepsLeft("stop", m)' < StepsLeft("stop", m)
    BY StepCloser
  <2>2. stop \/ (wait = "none" /\ reason # None) => Leaving("stop")
    BY DEF Leaving
  <2>3. Outside => UNCHANGED StepsLeft("stop", m)
    BY OutsideWaits
  <2> QED BY <2>1, <2>2, <2>3, SignalsStay DEF IInv
<1>3. IInv => TypeOK
  BY DEF IInv
<1> QED BY <1>1, <1>2, <1>3, Bookkept, Invariance, PTL DEF Spec
=============================================================================

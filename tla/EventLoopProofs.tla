--------------------------- MODULE EventLoopProofs ---------------------------
(***************************************************************************)
(* Theorems about EventLoop, for any hats, topics, limits and outputs.     *)
(*                                                                         *)
(*   TypeCorrect         Spec => []TypeOK                                  *)
(*   LimitsHold          Spec => []RunsWithinLimits                        *)
(*   NoAcceptedEventLost Spec => SeenIsDelivered                           *)
(*   CompletionEarned    Spec => CompletionIsEarned                        *)
(*   GrantsHonoured      Spec => []GrantedEndsLoop                         *)
(*   CancellationReported    Spec => []CancelledIsReported                 *)
(*   LoopAdvances        every step of the loop lowers StepsLeft, a number *)
(*                       nothing else changes                              *)
(*   ActivationsWithinLimit  if every topic a hat is triggered by is its   *)
(*                       alone, Spec => []ActivationsBounded               *)
(***************************************************************************)
EXTENDS EventLoop, FiniteSetTheorems, SequenceTheorems, WellFoundedInduction, TLAPS

\* A set of numbers that is not empty has a least one ...
LEMMA Smallest ==
  ASSUME NEW S, S \subseteq Nat, S # {}
  PROVE  \E m \in S : \A k \in S : m <= k
<1> DEFINE Less == OpToRel(<, Nat)
<1>1. IsWellFoundedOn(Less, Nat)
  BY NatLessThanWellFounded, Zenon
<1>2. \A k, m \in Nat : k < m => <<k, m>> \in Less
  BY Zenon DEF OpToRel
<1> HIDE DEF Less
<1>3. PICK m \in S : \A k \in S : ~ (<<k, m>> \in Less)
  BY <1>1, WFMin, Zenon
<1>4. \A k \in S : ~ (k < m)
  BY <1>2, <1>3
<1> QED BY <1>4

\* ... and, if it is bounded, a greatest one.
LEMMA Greatest ==
  ASSUME NEW n \in Nat, NEW S, S \subseteq 0..n, S # {}
  PROVE  \E m \in S : \A k \in S : k <= m
<1> DEFINE D == {n - k : k \in S}
<1>1. D \subseteq Nat /\ D # {}
  <2>1. \A k \in S : n - k \in Nat
    OBVIOUS
  <2>2. D # {}
    OBVIOUS
  <2> QED BY <2>1, <2>2
<1>2. PICK d \in D : \A k \in D : d <= k
  BY <1>1, Smallest
<1>3. PICK m \in S : d = n - m
  OBVIOUS
<1>4. \A k \in S : n - m <= n - k
  BY <1>2, <1>3
<1> QED BY <1>4

LEMMA PartOfInterval ==
  ASSUME NEW n \in Nat, NEW S, S \subseteq 1..n
  PROVE  IsFiniteSet(S) /\ Cardinality(S) \in Nat
<1>1. IsFiniteSet(1..n)
  BY FS_Interval
<1>2. IsFiniteSet(S)
  BY <1>1, FS_Subset
<1> QED BY <1>2, FS_CardinalityType

-----------------------------------------------------------------------------
(* Routing *)

LEMMA RecipientsAreQueues ==
  ASSUME NEW t \in Topics
  PROVE  Recipients(t) \subseteq Queues /\ Recipients(t) # {}
BY BusAssumption DEF Recipients, Queues, Specific

\* Whatever is published is queued, and nothing is taken off a queue.
LEMMA DeliverQueues ==
  ASSUME NEW p \in [Queues -> SUBSET Topics], NEW T \in SUBSET Topics
  PROVE  /\ Deliver(p, T) \in [Queues -> SUBSET Topics]
         /\ T \subseteq Queued(Deliver(p, T))
         /\ Queued(p) \subseteq Queued(Deliver(p, T))
<1>1. Deliver(p, T) \in [Queues -> SUBSET Topics]
  BY DEF Deliver
<1>2. \A t \in T : \E q \in Queues : t \in Deliver(p, T)[q]
  BY RecipientsAreQueues DEF Deliver
<1>3. \A q \in Queues : p[q] \subseteq Deliver(p, T)[q]
  BY DEF Deliver
<1> QED BY <1>1, <1>2, <1>3 DEF Queued

LEMMA FirstHatType ==
  ASSUME NEW t, Subscribers(t) # {}
  PROVE  FirstHat(t) \in Subscribers(t) /\ FirstHat(t) \in Hats
<1> DEFINE S == {Rank[h] : h \in Subscribers(t)}
<1>1. Subscribers(t) \subseteq Hats
  BY BusAssumption DEF Subscribers, Specific
<1>2. S \subseteq Nat /\ S # {}
  BY <1>1, BusAssumption
<1>3. PICK m \in S : \A k \in S : m <= k
  BY <1>2, Smallest
<1>4. \E h \in Subscribers(t) : \A g \in Subscribers(t) : Rank[h] <= Rank[g]
  BY <1>3
<1> QED BY <1>1, <1>4 DEF FirstHat

LEMMA ActiveHatsType ==
  ASSUME NEW T
  PROVE  ActiveHats(T) \subseteq Hats
BY FirstHatType DEF ActiveHats

-----------------------------------------------------------------------------
(* A batch of lines *)

LEMMA CheckedType ==
  ASSUME NEW e \in Events
  PROVE  Checked(e) \in Events
<1>1. Demoted(e.topic) \in Topics
  BY LoopAssumption DEF Demoted, SystemTopics, Events
<1> QED BY <1>1 DEF Checked, Events

LEMMA BatchTypes ==
  ASSUME NEW b \in Seq(Lines)
  PROVE  /\ Plain(b) \subseteq 1..Len(b)
         /\ \A i \in IsEvent(b) : b[i] \in Events
         /\ \A i \in Plain(b) : Checked(b[i]) \in Events
         /\ Accepted(b) \subseteq Events
         /\ Plain(b) # {} => LastPlain(b) \in Plain(b)
<1>1. Plain(b) \subseteq IsEvent(b) /\ IsEvent(b) \subseteq 1..Len(b)
  BY DEF Plain, InScope, IsEvent
<1>2. \A i \in IsEvent(b) : b[i] \in Events
  BY DEF IsEvent, Lines
<1>3. \A i \in Plain(b) : Checked(b[i]) \in Events
  BY <1>1, <1>2, CheckedType
<1>4. Plain(b) # {} => LastPlain(b) \in Plain(b)
  <2>1. Len(b) \in Nat
    OBVIOUS
  <2>2. Plain(b) # {} => \E i \in Plain(b) : \A j \in Plain(b) : j <= i
    BY <1>1, <2>1, Greatest
  <2> QED BY <2>2 DEF LastPlain
<1> QED BY <1>1, <1>2, <1>3, <1>4 DEF Accepted

LEMMA SameAfterType ==
  ASSUME NEW b \in Seq(Lines), same \in Nat
  PROVE  SameAfter(b) \in Nat
<1>1. Repeats(b) \subseteq 1..Len(b)
  BY BatchTypes DEF Repeats
<1>2. Cardinality(Repeats(b)) \in Nat
  BY <1>1, PartOfInterval
<1> QED BY <1>2 DEF SameAfter

LEMMA BlocksAfterType ==
  ASSUME NEW b \in Seq(Lines), blocks \in [Payloads -> 0..Strikes]
  PROVE  BlocksAfter(b) \in [Payloads -> 0..Strikes]
<1> DEFINE B(p) == {i \in Plain(b) : Checked(b[i]) = [topic |-> "build.blocked", payload |-> p]}
<1>1. \A p \in Payloads : B(p) \subseteq 1..Len(b)
  BY BatchTypes
<1>2. \A p \in Payloads : Cardinality(B(p)) \in Nat
  BY <1>1, PartOfInterval
<1> HIDE DEF B
<1>3. \A p \in Payloads : LET n == blocks[p] + Cardinality(B(p))
                          IN  (IF n < Strikes THEN n ELSE Strikes) \in 0..Strikes
  BY <1>2 DEF Strikes
<1> QED BY <1>3 DEF BlocksAfter, B

LEMMA PublishedType ==
  ASSUME NEW b \in Seq(Lines)
  PROVE  Published(b) \subseteq Topics
<1>1. {e.topic : e \in Accepted(b)} \subseteq Topics
  BY BatchTypes DEF Events
<1> QED BY <1>1, LoopAssumption DEF Published, SystemTopics

-----------------------------------------------------------------------------
(* Types *)

LEMMA LimitType ==
  ASSUME NEW i, NEW f, NEW sgs \in SUBSET SignalKinds
  PROVE  Limit(i, f, sgs) \in Reasons \cup {None} /\ AfterLimit(i, f, sgs) \subseteq SignalKinds
BY DEF Limit, AfterLimit, Reasons

LEMMA DigestTypes ==
  ASSUME TypeOK, Digest(unread)
  PROVE  /\ unread' \in Seq(Lines)
         /\ malformed' \in Nat /\ same' \in Nat
         /\ sig' \in Signatures \cup {None}
         /\ seen' \subseteq Topics
         /\ blocks' \in [Payloads -> 0..Strikes]
         /\ signals' \subseteq SignalKinds
<1>1. unread \in Seq(Lines) /\ Len(unread) \in Nat
  BY DEF TypeOK
<1>2. same' \in Nat
  BY <1>1, SameAfterType DEF TypeOK, Digest
<1>3. blocks' \in [Payloads -> 0..Strikes]
  BY <1>1, BlocksAfterType DEF TypeOK, Digest
<1>4. sig' \in Signatures \cup {None}
  BY <1>1, BatchTypes DEF TypeOK, Digest, Signatures, Events
<1>5. seen' \subseteq Topics
  BY <1>1, BatchTypes DEF TypeOK, Digest, Events
<1>6. malformed' \in Nat /\ unread' \in Seq(Lines)
  BY <1>1 DEF TypeOK, Digest
<1>7. signals' \subseteq SignalKinds
  BY DEF TypeOK, Digest, SignalKinds
<1> QED BY <1>2, <1>3, <1>4, <1>5, <1>6, <1>7

LEMMA GrantTypes ==
  ASSUME granted \subseteq Reasons, NEW b, NEW v, Grant(b, v)
  PROVE  granted' \subseteq Reasons
BY DEF Grant, Reasons

LEMMA RejectionType ==
  ASSUME NEW c, NEW d, NEW s PROVE Rejection(c, d, s) \subseteq Topics
BY LoopAssumption DEF Rejection, SystemTopics

LEMMA PollRoundTypes ==
  ASSUME TypeOK, NEW v, NEW w, PollRound(v, w)
  PROVE  /\ {cancelReq', doneReq'} \subseteq BOOLEAN
         /\ pending' \in [Queues -> SUBSET Topics]
<1> DEFINE c == cancelReq \/ Cancels(unread)
           d == doneReq \/ Completes(unread)
<1>1. {cancelReq', doneReq'} \subseteq BOOLEAN
  BY DEF PollRound, ClearFlags
<1>3. Published(unread) \cup Rejection(c, d, seen') \in SUBSET Topics
  BY PublishedType, RejectionType DEF TypeOK
<1>4. pending' = Deliver(pending, Published(unread) \cup Rejection(c, d, seen'))
  BY DEF PollRound
<1>5. pending' \in [Queues -> SUBSET Topics]
  BY <1>3, <1>4, DeliverQueues DEF TypeOK
<1> QED BY <1>1, <1>5

LEMMA InitTypes == Init => TypeOK
<1> SUFFICES ASSUME Init PROVE TypeOK
  OBVIOUS
<1>1. pending \in [Queues -> SUBSET Topics]
  <2>1. [q \in Queues |-> {}] \in [Queues -> SUBSET Topics] /\ {StartTopic} \in SUBSET Topics
    BY LoopAssumption
  <2> QED BY <2>1, DeliverQueues DEF Init
<1>2. blocks \in [Payloads -> 0..Strikes] /\ acts \in [Hats -> Nat]
  BY DEF Init, Strikes
<1>3. unread \in Seq(Lines)
  BY DEF Init
<1>4. openTasks \in BOOLEAN
  BY LoopAssumption DEF Init
<1>5. {cancelReq, doneReq, wrote, openTasks} \subseteq BOOLEAN
  BY <1>4 DEF Init
<1>6. {iteration, failures, malformed, same, fallbacks, polls} \subseteq Nat
  BY DEF Init
<1> QED BY <1>1, <1>2, <1>3, <1>5, <1>6 DEF Init, TypeOK

LEMMA StepTypes ==
  ASSUME TypeOK, [Next]_vars
  PROVE  TypeOK'
<1> USE DEF bookkeeping, prompting
<1>1. CASE Interrupted
  BY <1>1 DEF Interrupted, Terminate, TypeOK, Reasons
<1>2. CASE LoopHead
  <2> DEFINE sgs == signals \ {"guidance"}
  <2>1. unread' \in Seq(Lines)
    <3>1. [topic |-> "human.guidance", payload |-> "text"] \in Lines
      BY LoopAssumption DEF Lines, Events, SystemTopics
    <3> QED BY <1>2, <3>1 DEF LoopHead, Drained, TypeOK
  <2>2. signals' \subseteq SignalKinds /\ Limit(iteration, failures, sgs) \in Reasons \cup {None}
    BY <1>2, LimitType DEF LoopHead, TypeOK
  <2>3. reason' \in Reasons \cup {None} /\ pc' \in {"select", "done"}
    BY <1>2, <2>2 DEF LoopHead, Terminate, TypeOK
  <2> QED BY <1>2, <2>1, <2>2, <2>3 DEF LoopHead, TypeOK
<1>3. CASE BuildPrompt
  <2> DEFINE dropped == {h \in Hats : pending[h] # {} /\ Exhausted(h)}
             system  == IF dropped \subseteq exhausted THEN {} ELSE {"hat.exhausted"}
             batch   == (UNION {pending[q] : q \in Queues \ dropped}) \cup system
             chosen  == ActiveHats(batch \ {"human.guidance"})
             preview == ActiveHats(UNION {pending[q] : q \in Queues \ {Human}})
  <2>1. chosen \subseteq Hats /\ preview \subseteq Hats
    BY ActiveHatsType
  <2>2. pending' \in [Queues -> SUBSET Topics]
    <3>1. [q \in Queues |-> {}] \in [Queues -> SUBSET Topics] /\ system \in SUBSET Topics
      BY LoopAssumption DEF SystemTopics
    <3> QED BY <1>3, <3>1, DeliverQueues DEF BuildPrompt
  <2> HIDE DEF chosen, preview
  <2>3. acts' \in [Hats -> Nat]
    BY <1>3, <2>1 DEF BuildPrompt, TypeOK, chosen
  <2>4. exhausted' \subseteq Hats
    BY <1>3 DEF BuildPrompt, TypeOK
  <2>5. active' \subseteq Hats /\ shown' \subseteq Hats
    BY <1>3, <2>1 DEF BuildPrompt, chosen, preview
  <2>6. /\ pc' = "run" /\ fallbacks' = 0
        /\ UNCHANGED <<iteration, failures, bookkeeping, cancelReq, doneReq, polls, out, wrote,
                       reason, unread, signals, openTasks, granted>>
    BY <1>3 DEF BuildPrompt
  <2> QED BY <2>2, <2>3, <2>4, <2>5, <2>6 DEF TypeOK
<1>4. CASE NothingPending
  BY <1>4, LoopAssumption DEF NothingPending, TypeOK
<1>5. CASE AgentEnds
  <2>1. PICK o \in Outputs :
          /\ out' = o
          /\ unread' = unread \o Logged(o)
          /\ iteration' = iteration + CountsAsIteration(o)
          /\ failures' = IF o.success THEN 0 ELSE failures + 1
          /\ signals' = AfterLimit(iteration', failures', signals)
          /\ LET r == Limit(iteration', failures', signals)
             IN  IF r = None THEN pc' = "ran" /\ UNCHANGED reason ELSE Terminate(r)
    BY <1>5 DEF AgentEnds
  <2>2. o \in OutputKinds /\ o.printed \in Events \cup {None}
    BY LoopAssumption DEF OutputKinds
  <2>3. unread' \in Seq(Lines)
    <3>1. Orphaned \in Lines
      BY LoopAssumption DEF Orphaned, Lines, Events, SystemTopics
    <3>2. o.printed # None => o.printed \in Lines
      BY <2>2 DEF Lines
    <3>3. Logged(o) \in Seq(Lines)
      BY <3>1, <3>2 DEF Logged
    <3> QED BY <2>1, <3>3 DEF TypeOK
  <2>4. signals' \subseteq SignalKinds
        /\ Limit(iteration', failures', signals) \in Reasons \cup {None}
    BY <2>1, LimitType DEF TypeOK
  <2>5. reason' \in Reasons \cup {None} /\ pc' \in {"ran", "done"}
    BY <2>1, <2>4 DEF Terminate, TypeOK
  <2>6. iteration' \in Nat /\ failures' \in Nat
    BY <2>1 DEF TypeOK, CountsAsIteration
  <2> QED BY <1>5, <2>1, <2>2, <2>3, <2>4, <2>5, <2>6 DEF AgentEnds, TypeOK
<1>6. CASE RunInterrupted
  BY <1>6 DEF RunInterrupted, Terminate, TypeOK, Reasons
<1>7. CASE ReadEvents
  <2>1. pending' \in [Queues -> SUBSET Topics]
    BY <1>7, PublishedType, DeliverQueues DEF ReadEvents, TypeOK
  <2>2. granted' \subseteq Reasons
    BY <1>7, GrantTypes DEF ReadEvents, TypeOK
  <2>3. {cancelReq', doneReq', wrote'} \subseteq BOOLEAN
    BY <1>7 DEF ReadEvents
  <2>4. pc' \in {"emit", "judge"} /\ polls' \in Nat
    BY <1>7, LoopAssumption DEF ReadEvents, TypeOK
  <2>5. Digest(unread)
    BY <1>7 DEF ReadEvents
  <2> QED BY <1>7, <2>1, <2>2, <2>3, <2>4, <2>5, DigestTypes DEF ReadEvents, TypeOK
<1>8. CASE LateTerminates
  <2>1. PICK v \in {"cancelled", "completed"}, w \in BOOLEAN :
          PollRound(v, w) /\ Terminate(v) /\ Grant(unread, v)
    BY <1>8 DEF LateTerminates
  <2>2. Digest(unread)
    BY <2>1 DEF PollRound
  <2>3. pc' = "done" /\ reason' \in Reasons /\ granted' \subseteq Reasons
    BY <2>1, GrantTypes DEF Terminate, Reasons, TypeOK
  <2> QED BY <1>8, <2>1, <2>2, <2>3, DigestTypes, PollRoundTypes DEF LateTerminates, TypeOK
<1>9. CASE LateWork
  <2>1. PollRound(None, TRUE) /\ Digest(unread)
    BY <1>9 DEF LateWork, PollRound
  <2>2. pc' = "head" /\ fallbacks' \in Nat /\ granted' \subseteq Reasons
    BY <1>9, GrantTypes DEF LateWork, TypeOK
  <2> QED BY <1>9, <2>1, <2>2, DigestTypes, PollRoundTypes DEF LateWork, TypeOK
<1>10. CASE LateNothing
  <2>1. PollRound(None, FALSE) /\ Digest(unread)
    BY <1>10 DEF LateNothing, PollRound
  <2>2. pc' \in {"late", "fallback"} /\ polls' \in Nat /\ granted' \subseteq Reasons
    BY <1>10, GrantTypes DEF LateNothing, TypeOK
  <2> QED BY <1>10, <2>1, <2>2, DigestTypes, PollRoundTypes DEF LateNothing, TypeOK
<1>11. CASE Fallback
  <2>1. {"task.resume"} \in SUBSET Topics
    BY LoopAssumption DEF SystemTopics
  <2>2. Deliver(pending, {"task.resume"}) \in [Queues -> SUBSET Topics]
    BY <2>1, DeliverQueues DEF TypeOK
  <2>3. /\ pending' \in [Queues -> SUBSET Topics]
        /\ pc' \in {"head", "done"} /\ reason' \in Reasons \cup {None} /\ fallbacks' \in Nat
    BY <1>11, <2>2 DEF Fallback, Terminate, Reasons, TypeOK
  <2> QED BY <1>11, <2>3 DEF Fallback, TypeOK
<1>12. CASE EmitFound
  <2>1. PICK v \in {"cancelled", "completed", None}, w \in BOOLEAN :
          PollRound(v, w) /\ granted' = granted \ {v}
    BY <1>12 DEF EmitFound
  <2>2. Digest(unread)
    BY <2>1 DEF PollRound
  <2>3. wrote' \in BOOLEAN /\ granted' \subseteq Reasons
    BY <1>12, <2>1 DEF EmitFound, TypeOK
  <2> QED BY <1>12, <2>1, <2>2, <2>3, DigestTypes, PollRoundTypes DEF EmitFound, TypeOK
<1>13. CASE EmitNothing
  <2>1. PollRound(None, FALSE) /\ Digest(unread)
    BY <1>13 DEF EmitNothing, PollRound
  <2>2. pc' \in {"emit", "judge"} /\ polls' \in Nat /\ granted' \subseteq Reasons
    BY <1>13, GrantTypes DEF EmitNothing, TypeOK
  <2> QED BY <1>13, <2>1, <2>2, DigestTypes, PollRoundTypes DEF EmitNothing, TypeOK
<1>14. CASE PublishDefault
  <2>1. PICK h \in shown \cap DOMAIN Defaults :
          LET e == DefaultOf(h)
          IN  /\ pending' = Deliver(pending, {e.topic})
              /\ seen' = seen \cup {e.topic}
              /\ doneReq' = (doneReq \/ e.topic = Complete)
              /\ sig' = e
              /\ same' = CASE e.topic = "task.complete"             -> 0
                          [] e.topic # "task.complete" /\ e = sig -> same + 1
                          [] OTHER                                -> 1
    BY <1>14 DEF PublishDefault
  <2>2. h \in Hats /\ Defaults[h] \in Topics
    BY <2>1, LoopAssumption
  <2>3. DefaultOf(h) \in Signatures /\ DefaultOf(h).topic \in Topics
    BY <2>2 DEF DefaultOf, Signatures
  <2>4. pending' \in [Queues -> SUBSET Topics]
    BY <2>1, <2>3, DeliverQueues DEF TypeOK
  <2>5. same' \in Nat
    BY <2>1 DEF TypeOK
  <2>6. doneReq' \in BOOLEAN
    BY <2>1
  <2>7. sig' \in Signatures /\ seen' \subseteq Topics
    BY <2>1, <2>3 DEF TypeOK
  <2> QED BY <1>14, <2>4, <2>5, <2>6, <2>7 DEF PublishDefault, TypeOK
<1>15. CASE SkipDefault
  BY <1>15 DEF SkipDefault, TypeOK
<1>16. CASE Judge
  <2> DEFINE v == Verdict(cancelReq, doneReq, seen)
  <2>1. /\ granted' \subseteq Reasons
        /\ {cancelReq', doneReq'} \subseteq BOOLEAN
    BY <1>16, GrantTypes DEF Judge, ClearFlags, TypeOK
  <2>2. pending' \in [Queues -> SUBSET Topics]
    BY <1>16, RejectionType, DeliverQueues DEF Judge, TypeOK
  <2>3. v \in Reasons \cup {None}
    BY DEF Verdict, Reasons
  <2>4. pc' \in {"head", "done"} /\ reason' \in Reasons \cup {None}
    BY <1>16, <2>3 DEF Judge, Terminate, TypeOK, Reasons
  <2> QED BY <1>16, <2>1, <2>2, <2>4 DEF Judge, TypeOK
<1>17. CASE Emit
  <2>1. unread' \in Seq(Lines)
    BY <1>17, LoopAssumption DEF Emit, TypeOK, Lines
  <2> QED BY <1>17, <2>1 DEF Emit, TypeOK
<1>18. CASE TouchTasks
  <2>1. openTasks' \in BOOLEAN
    BY <1>18 DEF TouchTasks
  <2> QED BY <1>18, <2>1 DEF TouchTasks, TypeOK
<1>19. CASE Raise
  <2>1. signals' \subseteq SignalKinds
    BY <1>19, LoopAssumption DEF Raise, TypeOK
  <2> QED BY <1>19, <2>1 DEF Raise, TypeOK
<1>20. CASE UNCHANGED vars
  BY <1>20 DEF vars, TypeOK
<1> QED
  BY <1>1, <1>2, <1>3, <1>4, <1>5, <1>6, <1>7, <1>8, <1>9, <1>10, <1>11, <1>12, <1>13,
     <1>14, <1>15, <1>16, <1>17, <1>18, <1>19, <1>20 DEF Next, Step

\* Every variable keeps its type.
THEOREM TypeCorrect == Spec => []TypeOK
<1>1. Init => TypeOK
  BY InitTypes
<1>2. TypeOK /\ [Next]_vars => TypeOK'
  BY StepTypes
<1> QED BY <1>1, <1>2, PTL DEF Spec

-----------------------------------------------------------------------------
(* Limits *)

WithinLimits == /\ iteration < MaxIterations /\ failures < MaxFailures
                /\ malformed < Strikes /\ same < Strikes

\* The limits are looked at on the way to every run: they hold from the check
\* at the head of the loop until the agent ends.
LimitsInv == pc \in {"select", "run"} => WithinLimits

LEMMA NoLimitReached ==
  ASSUME NEW i \in Nat, NEW f \in Nat, NEW sgs, TypeOK, Limit(i, f, sgs) = None
  PROVE  i < MaxIterations /\ f < MaxFailures /\ malformed < Strikes /\ same < Strikes
<1>1. None \notin Reasons /\ MaxIterations \in Nat /\ MaxFailures \in Nat
  BY LoopAssumption
<1>2. /\ ~ (i >= MaxIterations) /\ ~ (f >= MaxFailures)
      /\ ~ (malformed >= Strikes) /\ ~ (same >= Strikes)
  BY <1>1, Zenon DEF Limit, Reasons
<1> QED BY <1>1, <1>2 DEF TypeOK, Strikes

LEMMA StepLimits ==
  ASSUME TypeOK, LimitsInv, [Next]_vars
  PROVE  LimitsInv'
<1> USE DEF bookkeeping, prompting
<1>1. CASE LoopHead
  <2>1. CASE Limit(iteration, failures, signals \ {"guidance"}) = None
    BY <1>1, <2>1, NoLimitReached DEF LoopHead, LimitsInv, WithinLimits, TypeOK
  <2>2. CASE Limit(iteration, failures, signals \ {"guidance"}) # None
    BY <1>1, <2>2 DEF LoopHead, Terminate, LimitsInv
  <2> QED BY <2>1, <2>2
<1>2. CASE BuildPrompt
  BY <1>2 DEF BuildPrompt, LimitsInv, WithinLimits
<1>3. CASE Interrupted \/ RunInterrupted \/ LateTerminates \/ Fallback
  BY <1>3 DEF Interrupted, RunInterrupted, LateTerminates, Fallback, Terminate, LimitsInv
<1>4. CASE NothingPending \/ ReadEvents \/ LateWork \/ LateNothing
  BY <1>4 DEF NothingPending, ReadEvents, LateWork, LateNothing, LimitsInv
<1>5. CASE AgentEnds
  BY <1>5 DEF AgentEnds, Terminate, LimitsInv
<1>6. CASE EmitFound \/ EmitNothing \/ PublishDefault \/ SkipDefault
  BY <1>6 DEF EmitFound, EmitNothing, PublishDefault, SkipDefault, LimitsInv
<1>7. CASE Judge
  BY <1>7 DEF Judge, Terminate, LimitsInv
<1>8. CASE Emit \/ TouchTasks \/ Raise \/ UNCHANGED vars
  BY <1>8 DEF Emit, TouchTasks, Raise, vars, LimitsInv, WithinLimits
<1> QED BY <1>1, <1>2, <1>3, <1>4, <1>5, <1>6, <1>7, <1>8 DEF Next, Step

\* No agent runs once a limit on iterations, failures, malformed lines or
\* repetitions is reached: not after a recovery or a fallback either.
THEOREM LimitsHold == Spec => []RunsWithinLimits
<1>1. Init => LimitsInv
  BY DEF Init, LimitsInv
<1>2. TypeOK /\ LimitsInv /\ [Next]_vars => LimitsInv'
  BY StepLimits
<1>3. LimitsInv => RunsWithinLimits
  BY DEF LimitsInv, WithinLimits, RunsWithinLimits
<1> QED BY <1>1, <1>2, <1>3, TypeCorrect, PTL DEF Spec

-----------------------------------------------------------------------------
(* How long the loop can go on *)

\* The steps of an iteration, at most: the recovery loops poll their bounds out.
Visit == EmitPolls + LatePolls + 12

\* How far the loop is, at most, from the next run's end or from its own end.
\* With nothing pending, the recovery and the fallback are still to come.
Place ==
  CASE pc = "ran"      -> EmitPolls + LatePolls + 11
    [] pc = "emit"     -> polls + LatePolls + 10
    [] pc = "judge"    -> LatePolls + 9
    [] pc = "verdict"  -> LatePolls + 8
    [] pc = "head"     -> IF HasPending THEN 3 ELSE LatePolls + 7
    [] pc = "select"   -> IF HasPending THEN 2 ELSE LatePolls + 6
    [] pc = "late"     -> polls + 5
    [] pc = "fallback" -> 4
    [] pc = "run"      -> 1
    [] pc = "done"     -> 0

\* The steps left to the loop, at most.
StepsLeft == (MaxIterations - iteration) * Visit + Place

IterationInv == iteration <= MaxIterations

LEMMA PlaceType == TypeOK => Place \in Nat
<1> SUFFICES ASSUME TypeOK PROVE Place \in Nat
  OBVIOUS
<1>1. LatePolls \in Nat /\ EmitPolls \in Nat /\ polls \in Nat
  BY LoopAssumption DEF TypeOK
<1>2. \/ pc = "head" \/ pc = "select" \/ pc = "late" \/ pc = "run" \/ pc = "ran"
      \/ pc = "emit" \/ pc = "judge" \/ pc = "verdict" \/ pc = "fallback" \/ pc = "done"
  BY DEF TypeOK
<1> QED BY <1>1, <1>2 DEF Place

\* The only step that does not bring the loop nearer is the end of a run.
LEMMA StepPlace ==
  ASSUME TypeOK, Step, ~AgentEnds
  PROVE  Place' < Place /\ UNCHANGED iteration
<1> USE DEF bookkeeping, prompting
<1>1. LatePolls \in Nat /\ EmitPolls \in Nat /\ polls \in Nat
  BY LoopAssumption DEF TypeOK
<1>2. CASE Interrupted
  BY <1>1, <1>2 DEF Interrupted, Terminate, Place
<1>3. CASE LoopHead
  <2>1. pc = "head" /\ pc' \in {"select", "done"} /\ UNCHANGED <<pending, iteration>>
    BY <1>3 DEF LoopHead, Terminate
  <2>2. HasPending' = HasPending
    BY <2>1 DEF HasPending, Queued
  <2> QED BY <1>1, <2>1, <2>2 DEF Place
<1>4. CASE BuildPrompt
  BY <1>1, <1>4 DEF BuildPrompt, Place
<1>5. CASE NothingPending
  BY <1>1, <1>5 DEF NothingPending, Place
<1>6. CASE RunInterrupted
  BY <1>1, <1>6 DEF RunInterrupted, Terminate, Place
<1>7. CASE ReadEvents
  BY <1>1, <1>7 DEF ReadEvents, Place
<1>8. CASE LateTerminates
  BY <1>1, <1>8 DEF LateTerminates, Terminate, Place
<1>9. CASE LateWork
  <2>1. HasPending'
    BY <1>9 DEF LateWork, PollRound, HasPending
  <2> QED BY <1>1, <1>9, <2>1 DEF LateWork, Place
<1>10. CASE LateNothing
  BY <1>1, <1>10 DEF LateNothing, Place
<1>11. CASE Fallback
  <2>1. pc' = "head" => HasPending'
    <3>1. {"task.resume"} \in SUBSET Topics
      BY LoopAssumption DEF SystemTopics
    <3>2. "task.resume" \in Queued(Deliver(pending, {"task.resume"}))
      BY <3>1, DeliverQueues DEF TypeOK
    <3> QED BY <1>11, <3>2 DEF Fallback, Terminate, HasPending
  <2> QED BY <1>1, <1>11, <2>1 DEF Fallback, Terminate, Place
<1>12. CASE EmitFound
  BY <1>1, <1>12 DEF EmitFound, Place
<1>13. CASE EmitNothing
  BY <1>1, <1>13 DEF EmitNothing, Place
<1>14. CASE PublishDefault
  BY <1>1, <1>14 DEF PublishDefault, Place
<1>15. CASE SkipDefault
  BY <1>1, <1>15 DEF SkipDefault, Place
<1>16. CASE Judge
  <2>1. pc = "verdict" /\ pc' \in {"head", "done"} /\ UNCHANGED iteration
    BY <1>16 DEF Judge, Terminate
  <2> QED BY <1>1, <2>1 DEF Place
<1> QED BY <1>2, <1>3, <1>4, <1>5, <1>6, <1>7, <1>8, <1>9, <1>10, <1>11, <1>12, <1>13, <1>14,
           <1>15, <1>16 DEF Step

\* A run is one of those left: WithinLimits held when it was started.
LEMMA RunPlace ==
  ASSUME TypeOK, LimitsInv, AgentEnds
  PROVE  /\ iteration' = iteration + 1 /\ iteration < MaxIterations
         /\ Place = 1 /\ Place' < Visit
<1>1. LatePolls \in Nat /\ EmitPolls \in Nat
  BY LoopAssumption
<1>2. pc = "run" /\ pc' \in {"ran", "done"}
  BY DEF AgentEnds, Terminate
<1>3. iteration < MaxIterations
  BY <1>2 DEF LimitsInv, WithinLimits
<1>4. iteration' = iteration + 1
  BY DEF AgentEnds, CountsAsIteration
<1>5. Place = 1 /\ Place' < Visit
  BY <1>1, <1>2 DEF Place, Visit
<1> QED BY <1>3, <1>4, <1>5

LEMMA OneLess ==
  ASSUME NEW n \in Nat, NEW i \in Nat, NEW v \in Nat, i < n
  PROVE  (n - i) * v = (n - (i + 1)) * v + v
OBVIOUS

LEMMA EnvironmentWaits ==
  ASSUME Emit \/ TouchTasks \/ Raise \/ UNCHANGED vars
  PROVE  UNCHANGED StepsLeft
<1> USE DEF bookkeeping, prompting
<1>1. UNCHANGED <<pc, iteration, polls, pending>>
  BY DEF Emit, TouchTasks, Raise, vars
<1>2. HasPending' = HasPending
  BY <1>1 DEF HasPending, Queued
<1>3. Place' = Place
  BY <1>1, <1>2 DEF Place
<1> QED BY <1>1, <1>3 DEF StepsLeft

LEMMA StepCloser ==
  ASSUME TypeOK, TypeOK', LimitsInv, IterationInv, Step
  PROVE  StepsLeft' < StepsLeft /\ IterationInv'
<1>1. MaxIterations \in Nat /\ iteration \in Nat /\ iteration <= MaxIterations
  BY LoopAssumption DEF TypeOK, IterationInv
<1>2. Visit \in Nat
  BY LoopAssumption DEF Visit
<1>3. PICK p \in Nat : p = Place
  BY PlaceType
<1>4. PICK q \in Nat : q = Place'
  <2>1. TypeOK' => (Place \in Nat)'
    BY PlaceType, PTL
  <2> QED BY <2>1
<1>5. CASE AgentEnds
  <2>1. iteration' = iteration + 1 /\ iteration < MaxIterations /\ p = 1 /\ q < Visit
    BY <1>3, <1>4, <1>5, RunPlace
  <2>2. (MaxIterations - iteration) * Visit = (MaxIterations - (iteration + 1)) * Visit + Visit
    BY <1>1, <1>2, <2>1, OneLess
  <2>3. PICK r \in Int : r = (MaxIterations - (iteration + 1)) * Visit
    BY <1>1, <1>2
  <2>4. r + q < (r + Visit) + p
    BY <1>2, <2>1
  <2>5. StepsLeft = (r + Visit) + p
    BY <1>3, <2>2, <2>3 DEF StepsLeft
  <2>6. StepsLeft' = r + q
    BY <1>4, <2>1, <2>3 DEF StepsLeft, Visit
  <2>7. IterationInv'
    BY <1>1, <2>1 DEF IterationInv
  <2> QED BY <2>4, <2>5, <2>6, <2>7
<1>6. CASE ~AgentEnds
  <2>1. q < p /\ iteration' = iteration
    BY <1>3, <1>4, <1>6, StepPlace
  <2>2. PICK r \in Int : r = (MaxIterations - iteration) * Visit
    BY <1>1, <1>2
  <2>3. r + q < r + p
    BY <2>1
  <2>4. StepsLeft = r + p /\ StepsLeft' = r + q
    BY <1>3, <1>4, <2>1, <2>2 DEF StepsLeft, Visit
  <2>5. IterationInv'
    BY <2>1 DEF IterationInv
  <2> QED BY <2>3, <2>4, <2>5
<1> QED BY <1>5, <1>6

\* The loop makes no more than MaxIterations * Visit + 3 steps, whatever the
\* agents, their children and the signals do: each of its steps leaves fewer,
\* and nothing the environment does gives any back.
THEOREM LoopAdvances ==
  Spec => /\ StepsLeft = MaxIterations * Visit + 3
          /\ [](StepsLeft \in Nat)
          /\ [][Step => StepsLeft' < StepsLeft]_vars
          /\ [][~Step => StepsLeft' = StepsLeft]_vars
<1>1. Init => StepsLeft = MaxIterations * Visit + 3 /\ LimitsInv /\ IterationInv
  <2> SUFFICES ASSUME Init PROVE StepsLeft = MaxIterations * Visit + 3 /\ IterationInv
    BY DEF Init, LimitsInv
  <2>1. pc = "head" /\ iteration = 0 /\ MaxIterations \in Nat
    BY LoopAssumption DEF Init
  <2>2. HasPending
    <3>1. [q \in Queues |-> {}] \in [Queues -> SUBSET Topics] /\ {StartTopic} \in SUBSET Topics
      BY LoopAssumption
    <3>2. StartTopic \in Queued(pending)
      BY <3>1, DeliverQueues DEF Init
    <3> QED BY <3>2 DEF HasPending
  <2> QED BY <2>1, <2>2 DEF StepsLeft, Place, IterationInv
<1>2. TypeOK /\ TypeOK' /\ LimitsInv /\ IterationInv /\ [Next]_vars
        => /\ LimitsInv' /\ IterationInv'
           /\ [Step => StepsLeft' < StepsLeft]_vars
           /\ [~Step => StepsLeft' = StepsLeft]_vars
  <2> SUFFICES ASSUME TypeOK, TypeOK', LimitsInv, IterationInv, [Next]_vars
               PROVE  /\ IterationInv'
                      /\ Step => StepsLeft' < StepsLeft
                      /\ ~Step => StepsLeft' = StepsLeft
    BY StepLimits
  <2>1. CASE Step
    BY <2>1, StepCloser
  <2>2. CASE ~Step
    <3>1. Emit \/ TouchTasks \/ Raise \/ UNCHANGED vars
      BY <2>2 DEF Next
    <3>2. iteration' = iteration
      BY <3>1 DEF Emit, TouchTasks, Raise, vars
    <3> QED BY <2>2, <3>1, <3>2, EnvironmentWaits DEF IterationInv
  <2> QED BY <2>1, <2>2
<1>3. TypeOK /\ IterationInv => StepsLeft \in Nat
  <2> SUFFICES ASSUME TypeOK, IterationInv PROVE StepsLeft \in Nat
    OBVIOUS
  <2>1. MaxIterations - iteration \in Nat
    BY LoopAssumption DEF TypeOK, IterationInv
  <2>2. Visit \in Nat
    BY LoopAssumption DEF Visit
  <2>3. (MaxIterations - iteration) * Visit \in Nat
    BY <2>1, <2>2
  <2> QED BY <2>3, PlaceType DEF StepsLeft
<1> QED BY <1>1, <1>2, <1>3, TypeCorrect, PTL DEF Spec

-----------------------------------------------------------------------------
(* No accepted event is lost *)

LEMMA SeenStep ==
  ASSUME TypeOK, [Next]_vars
  PROVE  seen' \ seen \subseteq Queued(pending')
<1> USE DEF bookkeeping, prompting
<1>1. ASSUME Digest(unread), NEW T \in SUBSET Topics,
             pending' = Deliver(pending, Published(unread) \cup T)
      PROVE  seen' \ seen \subseteq Queued(pending')
  <2>1. Published(unread) \cup T \in SUBSET Topics
    BY PublishedType DEF TypeOK
  <2>2. seen' \ seen \subseteq Published(unread)
    BY <1>1 DEF Digest, Published
  <2> QED BY <1>1, <2>1, <2>2, DeliverQueues DEF TypeOK
<1>2. ASSUME NEW v, NEW w, PollRound(v, w)
      PROVE  seen' \ seen \subseteq Queued(pending')
  BY <1>1, <1>2, RejectionType DEF PollRound
<1>3. CASE ReadEvents
  <2>1. Published(unread) \cup {} = Published(unread)
    OBVIOUS
  <2>2. Digest(unread) /\ pending' = Deliver(pending, Published(unread) \cup {})
    BY <1>3, <2>1 DEF ReadEvents
  <2>3. {} \in SUBSET Topics
    OBVIOUS
  <2> QED BY <1>1, <2>2, <2>3
<1>4. CASE LateTerminates \/ LateWork \/ LateNothing \/ EmitFound \/ EmitNothing
  BY <1>2, <1>4 DEF LateTerminates, LateWork, LateNothing, EmitFound, EmitNothing
<1>5. CASE PublishDefault
  <2>1. PICK h \in shown \cap DOMAIN Defaults :
          /\ pending' = Deliver(pending, {Defaults[h]})
          /\ seen' = seen \cup {Defaults[h]}
    BY <1>5 DEF PublishDefault, DefaultOf
  <2>2. {Defaults[h]} \in SUBSET Topics
    BY <2>1, LoopAssumption
  <2> QED BY <2>1, <2>2, DeliverQueues DEF TypeOK
<1>6. CASE \/ Interrupted \/ LoopHead \/ BuildPrompt \/ NothingPending \/ AgentEnds
           \/ RunInterrupted \/ Fallback \/ SkipDefault \/ Judge
           \/ Emit \/ TouchTasks \/ Raise \/ UNCHANGED vars
  <2>1. UNCHANGED seen
    BY <1>6 DEF Interrupted, LoopHead, BuildPrompt, NothingPending, AgentEnds, RunInterrupted,
                Fallback, SkipDefault, Judge, Emit, TouchTasks, Raise, vars
  <2> QED BY <2>1
<1> QED BY <1>3, <1>4, <1>5, <1>6 DEF Next, Step

\* What counts as seen is on a queue, whoever subscribes to what.
THEOREM NoAcceptedEventLost == Spec => SeenIsDelivered
<1>1. TypeOK /\ [Next]_vars => [seen' \ seen \subseteq Queued(pending')]_vars
  BY SeenStep
<1> QED BY <1>1, TypeCorrect, PTL DEF Spec, SeenIsDelivered

-----------------------------------------------------------------------------
(* Completion *)

TextCompletes == pc = "verdict" /\ ~wrote /\ out.promise
NewlyCompleted == reason' = "completed" /\ reason # "completed" /\ ~TextCompletes

LEMMA LimitIsNoCompletion ==
  ASSUME NEW i, NEW f, NEW sgs
  PROVE  Limit(i, f, sgs) # "completed" \/ None = "completed"
BY Zenon DEF Limit

LEMMA StepCompletion ==
  ASSUME [Next]_vars, NewlyCompleted
  PROVE  Required \subseteq seen' /\ (TasksGate => ~openTasks)
<1> USE DEF bookkeeping, prompting
<1>1. None # "completed"
  BY LoopAssumption DEF Reasons
<1>2. \A c, d, s : Verdict(c, d, s) = "completed" => Earned(s)
  BY <1>1 DEF Verdict
<1>3. CASE LateTerminates
  <2>1. PICK v \in {"cancelled", "completed"}, w \in BOOLEAN : PollRound(v, w) /\ Terminate(v)
    BY <1>3 DEF LateTerminates
  <2>2. v = "completed"
    BY <2>1 DEF Terminate, NewlyCompleted
  <2>3. Earned(seen')
    BY <1>2, <2>1, <2>2 DEF PollRound
  <2> QED BY <2>3 DEF Earned
<1>4. CASE Judge
  <2>1. pc = "verdict" /\ ~(~wrote /\ out.promise) /\ UNCHANGED seen
    BY <1>4 DEF Judge, NewlyCompleted, TextCompletes
  <2>2. Verdict(cancelReq, doneReq, seen) = "completed"
    BY <1>4, <2>1 DEF Judge, Terminate, NewlyCompleted
  <2> QED BY <1>2, <2>1, <2>2 DEF Earned
<1>5. CASE LoopHead
  BY <1>1, <1>5, LimitIsNoCompletion DEF LoopHead, Terminate, NewlyCompleted
<1>6. CASE AgentEnds
  BY <1>1, <1>6, LimitIsNoCompletion DEF AgentEnds, Terminate, NewlyCompleted
<1>7. CASE Interrupted \/ RunInterrupted \/ Fallback
  BY <1>7 DEF Interrupted, RunInterrupted, Fallback, Terminate, NewlyCompleted
<1>8. CASE \/ BuildPrompt \/ NothingPending \/ ReadEvents \/ LateWork \/ LateNothing
           \/ EmitFound \/ EmitNothing \/ PublishDefault \/ SkipDefault
           \/ Emit \/ TouchTasks \/ Raise \/ UNCHANGED vars
  <2>1. UNCHANGED reason
    BY <1>8 DEF BuildPrompt, NothingPending, ReadEvents, LateWork, LateNothing, EmitFound,
                EmitNothing, PublishDefault, SkipDefault, Emit, TouchTasks, Raise, vars
  <2> QED BY <2>1 DEF NewlyCompleted
<1> QED BY <1>3, <1>4, <1>5, <1>6, <1>7, <1>8 DEF Next, Step

\* Unless the promise in the text of an agent without events completes it, a
\* completed loop has seen its required events and, if its tasks count, has none
\* open at that moment.
THEOREM CompletionEarned == Spec => CompletionIsEarned
<1>1. [Next]_vars
        => [reason' = "completed" /\ reason # "completed" /\ ~(pc = "verdict" /\ ~wrote /\ out.promise)
              => Required \subseteq seen' /\ (TasksGate => ~openTasks)]_vars
  BY StepCompletion DEF NewlyCompleted, TextCompletes
<1> QED BY <1>1, PTL DEF Spec, CompletionIsEarned

-----------------------------------------------------------------------------
(* What was granted *)

\* A cancellation that was read, and not dropped, is still requested until the
\* loop's verdict, or has ended the loop; an accepted completion has ended it.
GrantInv ==
  /\ cancelReq => pc \in {"emit", "judge", "verdict"}
  /\ "cancelled" \in granted
       => \/ pc \in {"emit", "judge", "verdict"} /\ cancelReq
          \/ pc = "done" /\ reason = "cancelled"
  /\ granted \ {"cancelled"} # {} => pc = "done"

LEMMA VerdictFacts ==
  ASSUME NEW c \in BOOLEAN, NEW d \in BOOLEAN, NEW s
  PROVE  /\ Verdict(c, d, s) = "cancelled" <=> c
         /\ Verdict(c, d, s) \in {"cancelled", "completed", None}
BY LoopAssumption DEF Verdict, Reasons

\* A round of either recovery: it returns the cancellation just when one is
\* requested, before it or by it, and it leaves none requested.
LEMMA RoundVerdict ==
  ASSUME TypeOK, GrantInv, pc \in {"late", "emit"}, NEW v, NEW w, PollRound(v, w)
  PROVE  /\ v \in {"cancelled", "completed", None}
         /\ v = "cancelled" <=> (cancelReq \/ Cancels(unread))
         /\ granted \subseteq {"cancelled"}
         /\ "cancelled" \in granted => cancelReq
         /\ ~cancelReq'
<1> DEFINE c == cancelReq \/ Cancels(unread)
           d == doneReq \/ Completes(unread)
<1>1. c \in BOOLEAN /\ d \in BOOLEAN
  OBVIOUS
<1>2. v = Verdict(c, d, seen') /\ ~cancelReq'
  BY DEF PollRound, ClearFlags
<1>3. (v = "cancelled" <=> c) /\ v \in {"cancelled", "completed", None}
  BY <1>1, <1>2, VerdictFacts
<1>4. granted \subseteq {"cancelled"} /\ ("cancelled" \in granted => cancelReq)
  BY DEF GrantInv
<1> QED BY <1>2, <1>3, <1>4

\* A round of the late recovery: what it grants is what it returns.
LEMMA RoundGrants ==
  ASSUME TypeOK, GrantInv, pc = "late", NEW v, NEW w, PollRound(v, w), Grant(unread, v)
  PROVE  granted' = IF v = None THEN {} ELSE {v}
<1>1. granted = {} /\ ~cancelReq
  BY DEF GrantInv
<1>2. v \in {"cancelled", "completed", None} /\ (v = "cancelled" <=> Cancels(unread))
  BY <1>1, RoundVerdict
<1>3. None \notin {"cancelled", "completed"}
  BY LoopAssumption DEF Reasons
<1>4. CASE v = None
  BY <1>1, <1>2, <1>3, <1>4 DEF Grant
<1>5. CASE v = "completed"
  BY <1>1, <1>2, <1>3, <1>5 DEF Grant
<1>6. CASE v = "cancelled"
  BY <1>1, <1>2, <1>3, <1>6 DEF Grant
<1> QED BY <1>2, <1>4, <1>5, <1>6

LEMMA StepGrants ==
  ASSUME TypeOK, GrantInv, [Next]_vars
  PROVE  GrantInv'
<1> USE DEF bookkeeping, prompting
<1>1. None \notin Reasons
  BY LoopAssumption
<1>2. CASE LateTerminates
  <2>1. PICK v \in {"cancelled", "completed"}, w \in BOOLEAN :
          PollRound(v, w) /\ Terminate(v) /\ Grant(unread, v)
    BY <1>2 DEF LateTerminates
  <2>2. granted' = {v}
    BY <1>1, <1>2, <2>1, RoundGrants DEF LateTerminates, Reasons
  <2>3. cancelReq' = FALSE /\ pc' = "done" /\ reason' = v
    BY <2>1 DEF PollRound, ClearFlags, Terminate
  <2> QED BY <2>2, <2>3 DEF GrantInv
<1>3. CASE LateWork \/ LateNothing
  <2>1. PICK w : /\ PollRound(None, w) /\ Grant(unread, None)
                 /\ pc = "late" /\ pc' \in {"head", "late", "fallback"}
    BY <1>3 DEF LateWork, LateNothing
  <2>2. granted' = {}
    BY <2>1, RoundGrants
  <2>3. cancelReq' = FALSE
    BY <2>1 DEF PollRound, ClearFlags
  <2> QED BY <2>1, <2>2, <2>3 DEF GrantInv
<1>4. CASE ReadEvents
  <2>1. pc' \in {"emit", "judge"}
    BY <1>4 DEF ReadEvents
  <2>2. granted = {} /\ granted' = IF Cancels(unread) THEN {"cancelled"} ELSE {}
    BY <1>1, <1>4 DEF ReadEvents, Grant, GrantInv, Reasons
  <2>3. Cancels(unread) => cancelReq'
    BY <1>4 DEF ReadEvents
  <2> QED BY <2>1, <2>2, <2>3 DEF GrantInv
<1>5. CASE PublishDefault \/ SkipDefault
  <2>1. pc = "judge" /\ pc' = "verdict" /\ UNCHANGED <<granted, cancelReq>>
    BY <1>5 DEF PublishDefault, SkipDefault
  <2> QED BY <2>1 DEF GrantInv
<1>6. CASE Judge
  <2> DEFINE v == Verdict(cancelReq, doneReq, seen)
  <2>1. pc = "verdict" /\ cancelReq' = FALSE /\ pc' \in {"head", "done"}
    BY <1>6 DEF Judge, ClearFlags, Terminate
  <2>2. (v = "cancelled" <=> cancelReq) /\ v \in {"cancelled", "completed", None}
    BY VerdictFacts DEF TypeOK
  <2>3. Cancels(<<>>) = FALSE
    BY DEF Cancels, InScope, IsEvent
  <2>4. granted' = granted \cup (IF v = "completed" THEN {v} ELSE {})
    BY <1>6, <2>3 DEF Judge, Grant
  <2>5. v # None => pc' = "done" /\ reason' = v
    BY <1>6 DEF Judge, Terminate
  <2>6. granted \subseteq {"cancelled"} /\ ("cancelled" \in granted => cancelReq)
    BY <2>1 DEF GrantInv
  <2> HIDE DEF v
  <2>7. CASE v = "cancelled"
    BY <1>1, <2>1, <2>2, <2>4, <2>5, <2>6, <2>7 DEF GrantInv, Reasons
  <2>8. CASE v = "completed"
    BY <1>1, <2>1, <2>2, <2>4, <2>5, <2>6, <2>8 DEF GrantInv, Reasons
  <2>9. CASE v = None
    BY <1>1, <2>1, <2>2, <2>4, <2>6, <2>9 DEF GrantInv, Reasons
  <2> QED BY <2>2, <2>7, <2>8, <2>9
<1>7. CASE EmitFound
  <2>1. PICK v, w : PollRound(v, w) /\ granted' = granted \ {v} /\ pc = "emit"
    BY <1>7 DEF EmitFound
  <2>2. /\ v = "cancelled" <=> (cancelReq \/ Cancels(unread))
        /\ granted \subseteq {"cancelled"} /\ ("cancelled" \in granted => cancelReq)
        /\ ~cancelReq'
    BY <2>1, RoundVerdict
  <2>3. granted' = {}
    BY <2>1, <2>2
  <2> QED BY <2>2, <2>3 DEF GrantInv
<1>10. CASE EmitNothing
  <2>1. PollRound(None, FALSE) /\ Grant(unread, None) /\ pc = "emit"
    BY <1>10 DEF EmitNothing
  <2>2. /\ ~cancelReq /\ ~Cancels(unread) /\ granted = {} /\ ~cancelReq'
    BY <1>1, <2>1, RoundVerdict DEF Reasons
  <2>3. granted' = {}
    BY <1>1, <2>1, <2>2 DEF Grant, Reasons
  <2> QED BY <2>2, <2>3 DEF GrantInv
<1>8. CASE \/ Interrupted \/ LoopHead \/ BuildPrompt \/ NothingPending \/ AgentEnds
           \/ RunInterrupted \/ Fallback
  <2>1. /\ pc \in {"head", "select", "run", "fallback"}
        /\ pc' \in {"head", "select", "run", "late", "ran", "done"}
        /\ UNCHANGED <<granted, cancelReq>>
    BY <1>8 DEF Interrupted, LoopHead, BuildPrompt, NothingPending, AgentEnds, RunInterrupted,
                Fallback, Terminate
  <2> QED BY <2>1 DEF GrantInv
<1>9. CASE Emit \/ TouchTasks \/ Raise \/ UNCHANGED vars
  BY <1>9 DEF Emit, TouchTasks, Raise, vars, GrantInv
<1> QED BY <1>2, <1>3, <1>4, <1>5, <1>6, <1>7, <1>8, <1>9, <1>10 DEF Next, Step

LEMMA GrantsKept == Spec => []GrantInv
<1>1. Init => GrantInv
  BY DEF Init, GrantInv
<1>2. TypeOK /\ GrantInv /\ [Next]_vars => GrantInv'
  BY StepGrants
<1> QED BY <1>1, <1>2, TypeCorrect, PTL DEF Spec

\* No agent runs after a cancellation was read or a completion accepted, unless
\* it was dropped in the recovery of an expected `ralph emit`, the one step that
\* forgets what was granted.
THEOREM GrantsHonoured == Spec => []GrantedEndsLoop
<1>1. GrantInv => GrantedEndsLoop
  BY DEF GrantInv, GrantedEndsLoop
<1> QED BY <1>1, GrantsKept, PTL

\* And the reason of a loop that has read a cancellation, and not dropped it
\* there, is "cancelled": not a completion that came with it, a limit or a signal.
THEOREM CancellationReported == Spec => []CancelledIsReported
<1>1. GrantInv => CancelledIsReported
  BY DEF GrantInv, CancelledIsReported
<1> QED BY <1>1, GrantsKept, PTL

-----------------------------------------------------------------------------
(* Activations *)

\* Every topic a hat is triggered by is its alone, and no hat listens to
\* people's topics or to the exhaustion of hats.
OwnTriggers ==
  /\ CatchAll = {}
  /\ \A g, h \in Hats : Triggers[g] \cap Triggers[h] # {} => g = h
  /\ \A h \in Hats : Triggers[h] \cap (HumanTopics \cup {"hat.exhausted"}) = {}

\* What is queued was routed there.
Routed(p) == \A q \in Queues : \A t \in p[q] : q \in Recipients(t)

ActivationInv == Routed(pending) /\ ActivationsBounded

LEMMA DeliverRouted ==
  ASSUME NEW p \in [Queues -> SUBSET Topics], NEW T, Routed(p)
  PROVE  Routed(Deliver(p, T))
BY DEF Routed, Deliver

LEMMA StepRouted ==
  ASSUME TypeOK, Routed(pending), [Next]_vars
  PROVE  Routed(pending')
<1> USE DEF bookkeeping, prompting
<1>1. \A T : Routed(Deliver(pending, T))
  BY DeliverRouted DEF TypeOK
<1>2. \A T : Routed(Deliver([q \in Queues |-> {}], T))
  BY DEF Routed, Deliver
<1>3. CASE LateTerminates \/ LateWork \/ LateNothing \/ EmitFound \/ EmitNothing
  BY <1>1, <1>3 DEF LateTerminates, LateWork, LateNothing, EmitFound, EmitNothing, PollRound
<1>4. CASE ReadEvents \/ PublishDefault \/ Judge
  BY <1>1, <1>4 DEF ReadEvents, PublishDefault, Judge
<1>5. CASE Fallback
  BY <1>1, <1>5 DEF Fallback
<1>6. CASE BuildPrompt
  BY <1>2, <1>6 DEF BuildPrompt
<1>7. CASE \/ Interrupted \/ LoopHead \/ NothingPending \/ AgentEnds \/ RunInterrupted
           \/ SkipDefault \/ Emit \/ TouchTasks \/ Raise \/ UNCHANGED vars
  <2>1. UNCHANGED pending
    BY <1>7 DEF Interrupted, LoopHead, NothingPending, AgentEnds, RunInterrupted, SkipDefault,
                Emit, TouchTasks, Raise, vars
  <2> QED BY <2>1
<1> QED BY <1>3, <1>4, <1>5, <1>6, <1>7 DEF Next, Step

\* A hat is chosen for an event that is on its own queue only, and that queue
\* was not dropped.
LEMMA StepActivations ==
  ASSUME OwnTriggers, TypeOK, ActivationInv, [Next]_vars
  PROVE  ActivationsBounded'
<1> USE DEF bookkeeping, prompting
<1>1. CASE BuildPrompt
  <2> DEFINE dropped == {h \in Hats : pending[h] # {} /\ Exhausted(h)}
             system  == IF dropped \subseteq exhausted THEN {} ELSE {"hat.exhausted"}
             batch   == (UNION {pending[q] : q \in Queues \ dropped}) \cup system
             chosen  == ActiveHats(batch \ {"human.guidance"})
  <2>1. ASSUME NEW h \in chosen PROVE h \in Hats /\ ~Exhausted(h)
    <3>1. PICK t \in batch : Subscribers(t) # {} /\ h = FirstHat(t)
      BY DEF ActiveHats
    <3>2. h \in Hats /\ t \in Triggers[h]
      BY <3>1, FirstHatType DEF OwnTriggers, Subscribers, Specific
    <3>3. t \notin HumanTopics /\ t # "hat.exhausted"
      BY <3>2 DEF OwnTriggers
    <3>4. PICK q \in Queues \ dropped : t \in pending[q]
      BY <3>1, <3>3
    <3>5. q \in Recipients(t)
      BY <3>4 DEF ActivationInv, Routed
    <3>6. q \in Hats /\ t \in Triggers[q]
      BY <3>2, <3>3, <3>5 DEF Recipients, Specific
    <3>7. q = h
      BY <3>2, <3>6 DEF OwnTriggers
    <3> QED BY <3>2, <3>4, <3>7
  <2> HIDE DEF chosen
  <2>2. acts' = [h \in Hats |-> IF h \in chosen THEN acts[h] + 1 ELSE acts[h]]
    BY <1>1 DEF BuildPrompt, chosen
  <2>3. ASSUME NEW h \in DOMAIN MaxActivations PROVE acts'[h] <= MaxActivations[h]
    <3>1. h \in Hats /\ MaxActivations[h] \in Nat /\ acts[h] \in Nat
      BY LoopAssumption DEF TypeOK
    <3>2. acts[h] <= MaxActivations[h]
      BY DEF ActivationInv, ActivationsBounded
    <3>3. CASE h \in chosen
      BY <2>1, <2>2, <3>1, <3>3 DEF Exhausted
    <3>4. CASE h \notin chosen
      BY <2>2, <3>1, <3>2, <3>4
    <3> QED BY <3>3, <3>4
  <2> QED BY <2>3 DEF ActivationsBounded
<1>2. CASE \/ Interrupted \/ LoopHead \/ NothingPending \/ AgentEnds \/ RunInterrupted
           \/ ReadEvents \/ LateTerminates \/ LateWork \/ LateNothing \/ Fallback
           \/ EmitFound \/ EmitNothing \/ PublishDefault \/ SkipDefault \/ Judge
           \/ Emit \/ TouchTasks \/ Raise \/ UNCHANGED vars
  <2>1. UNCHANGED acts
    BY <1>2 DEF Interrupted, LoopHead, NothingPending, AgentEnds, RunInterrupted, ReadEvents,
                LateTerminates, LateWork, LateNothing, Fallback, EmitFound, EmitNothing,
                PublishDefault, SkipDefault, Judge, Emit, TouchTasks, Raise, vars
  <2> QED BY <2>1 DEF ActivationInv, ActivationsBounded
<1> QED BY <1>1, <1>2 DEF Next, Step

\* As long as every topic a hat is triggered by is its alone, no hat is
\* activated more often than its max_activations.
THEOREM ActivationsWithinLimit ==
  ASSUME OwnTriggers
  PROVE  Spec => []ActivationsBounded
<1>1. Init => ActivationInv
  <2>1. ASSUME Init PROVE Routed(pending)
    BY <2>1 DEF Init, Routed, Deliver
  <2>2. ASSUME Init PROVE ActivationsBounded
    <3>1. acts = [h \in Hats |-> 0]
      BY <2>2 DEF Init
    <3>2. ASSUME NEW h \in DOMAIN MaxActivations PROVE acts[h] <= MaxActivations[h]
      <4>1. h \in Hats /\ MaxActivations[h] \in Nat
        BY LoopAssumption
      <4>2. acts[h] = 0
        BY <3>1, <4>1
      <4> QED BY <4>1, <4>2
    <3> QED BY <3>2 DEF ActivationsBounded
  <2> QED BY <2>1, <2>2 DEF ActivationInv
<1>2. TypeOK /\ ActivationInv /\ [Next]_vars => ActivationInv'
  BY StepRouted, StepActivations DEF ActivationInv
<1>3. ActivationInv => ActivationsBounded
  BY DEF ActivationInv
<1> QED BY <1>1, <1>2, <1>3, TypeCorrect, PTL DEF Spec

=============================================================================

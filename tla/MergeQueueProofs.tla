--------------------------- MODULE MergeQueueProofs ---------------------------
(***************************************************************************)
(* Theorems about MergeQueue, for any number of loops and clients.         *)
(*                                                                         *)
(*   TypeCorrect          Spec => []TypeOK                                 *)
(*   StoryAlwaysInOrder   Spec => []StoryInOrder                           *)
(*   SingleClientLifecycle  with one client, Spec => Lifecycle!Spec        *)
(***************************************************************************)
EXTENDS MergeQueue, SequenceTheorems, WellFoundedInduction, TLAPS

-----------------------------------------------------------------------------
(* derive_state *)

\* A loop that occurs in the log has a last event there.
LEMMA LastExists ==
  ASSUME NEW lg \in Seq(Lines), NEW l,
         \E i \in 1..Len(lg) : lg[i].loop = l
  PROVE  \E i \in 1..Len(lg) : IsLastOf(lg, l, i)
<1> DEFINE T == {n \in Nat : \E i \in 1..Len(lg) : lg[i].loop = l /\ n = Len(lg) - i}
<1>1. T \subseteq Nat /\ T # {}
  <2>1. PICK i \in 1..Len(lg) : lg[i].loop = l
    OBVIOUS
  <2>2. Len(lg) - i \in T
    BY <2>1, LenProperties
  <2> QED BY <2>2
<1>2. PICK n \in T : \A m \in T : <<m, n>> \notin OpToRel(<, Nat)
  <2> HIDE DEF T
  <2> QED BY <1>1, NatLessThanWellFounded, WFMin
<1>3. \A m \in T : n <= m
  <2>1. \A a, b \in Nat : a < b => <<a, b>> \in OpToRel(<, Nat)
    BY DEF OpToRel
  <2> HIDE DEF T
  <2>2. \A m \in T : ~(m < n)
    BY <1>1, <1>2, <2>1
  <2>3. \A a, b \in Nat : ~(a < b) => b <= a
    OBVIOUS
  <2>4. n \in Nat
    BY <1>1
  <2> QED BY <1>1, <2>2, <2>3, <2>4
<1>4. PICK i \in 1..Len(lg) : lg[i].loop = l /\ n = Len(lg) - i
  OBVIOUS
<1>5. ASSUME NEW j \in 1..Len(lg), lg[j].loop = l
      PROVE  j <= i
  <2>1. Len(lg) - j \in T
    BY <1>5, LenProperties
  <2>2. n <= Len(lg) - j
    BY <2>1, <1>3
  <2> QED BY <2>2, <1>4, LenProperties
<1> QED BY <1>4, <1>5 DEF IsLastOf

\* The state of a loop is Absent or the event of one of its lines.
LEMMA StateIsALine ==
  ASSUME NEW lg \in Seq(Lines), NEW l, StateIn(lg, l) # Absent
  PROVE  \E i \in 1..Len(lg) : lg[i].loop = l /\ lg[i].event = StateIn(lg, l)
<1>1. \E i \in 1..Len(lg) : lg[i].loop = l
  BY DEF StateIn
<1>2. \E i \in 1..Len(lg) : IsLastOf(lg, l, i)
  BY <1>1, LastExists
<1> DEFINE k == CHOOSE i \in 1..Len(lg) : IsLastOf(lg, l, i)
<1>3. k \in 1..Len(lg) /\ IsLastOf(lg, l, k)
  BY <1>2
<1>4. StateIn(lg, l) = lg[k].event
  BY <1>1 DEF StateIn
<1> QED BY <1>3, <1>4 DEF IsLastOf

\* Appending a line moves its loop to the event of the line and no other loop.
LEMMA StateAfterAppend ==
  ASSUME NEW lg \in Seq(Lines), NEW ln \in Lines, NEW l
  PROVE  StateIn(Append(lg, ln), l)
           = IF ln.loop = l THEN ln.event ELSE StateIn(lg, l)
<1> DEFINE lg2 == Append(lg, ln)
           n == Len(lg)
<1>1. /\ lg2 \in Seq(Lines) /\ Len(lg2) = n + 1 /\ n \in Nat
      /\ \A i \in 1..n : lg2[i] = lg[i]
      /\ lg2[n + 1] = ln
  BY AppendProperties, LenProperties
<1> HIDE DEF lg2
<1>2. CASE ln.loop = l
  <2>1. IsLastOf(lg2, l, n + 1)
    BY <1>1, <1>2 DEF IsLastOf
  <2>2. \A i \in 1..Len(lg2) : IsLastOf(lg2, l, i) => i = n + 1
    BY <1>1, <2>1 DEF IsLastOf
  <2>3. (CHOOSE i \in 1..Len(lg2) : IsLastOf(lg2, l, i)) = n + 1
    BY <1>1, <2>1, <2>2
  <2>4. \E i \in 1..Len(lg2) : lg2[i].loop = l
    BY <1>1, <1>2
  <2>5. StateIn(lg2, l) = lg2[n + 1].event
    BY <2>3, <2>4 DEF StateIn
  <2> QED BY <1>1, <1>2, <2>5 DEF lg2
<1>3. CASE ln.loop # l
  <2>1. \A i : IsLastOf(lg2, l, i) <=> IsLastOf(lg, l, i)
    BY <1>1, <1>3 DEF IsLastOf
  <2>2. (\E i \in 1..Len(lg2) : lg2[i].loop = l) <=> (\E i \in 1..Len(lg) : lg[i].loop = l)
    BY <1>1, <1>3
  <2>3. CASE \E i \in 1..Len(lg) : lg[i].loop = l
    <3> DEFINE k == CHOOSE i \in 1..Len(lg) : IsLastOf(lg, l, i)
               k2 == CHOOSE i \in 1..Len(lg2) : IsLastOf(lg2, l, i)
    <3>1. k \in 1..n /\ IsLastOf(lg, l, k)
      BY <2>3, LastExists
    <3>2. k2 \in 1..Len(lg2) /\ IsLastOf(lg2, l, k2)
      BY <3>1, <2>1, <1>1
    <3>3. k2 = k
      BY <3>1, <3>2, <2>1, <1>1 DEF IsLastOf
    <3>4. StateIn(lg2, l) = lg2[k2].event
      BY <2>2, <2>3 DEF StateIn
    <3>5. StateIn(lg, l) = lg[k].event
      BY <2>3 DEF StateIn
    <3> QED BY <3>1, <3>3, <3>4, <3>5, <1>1, <1>3 DEF lg2
  <2>4. CASE ~ \E i \in 1..Len(lg) : lg[i].loop = l
    BY <2>2, <2>4, <1>3 DEF StateIn, lg2
  <2> QED BY <2>3, <2>4
<1> QED BY <1>2, <1>3

-----------------------------------------------------------------------------
(* Type correctness *)

LEMMA LineType ==
  ASSUME TypeOK, NEW c \in Clients, op[c] # Idle, NEW b \in BOOLEAN
  PROVE  /\ op[c] \in Requests
         /\ Line(c, b) \in Lines
         /\ Append(log, Line(c, b)) \in Seq(Lines)
         /\ Len(Append(log, Line(c, b))) = Len(log) + 1
<1>1. op[c] \in Requests
  BY DEF TypeOK
<1>2. Line(c, b) \in Lines
  BY <1>1 DEF Line, Lines, Requests
<1> QED BY <1>1, <1>2, AppendProperties DEF TypeOK

\* One step of the queue keeps the types.
LEMMA TypeStep == TypeOK /\ [Next]_vars => TypeOK'
<1> SUFFICES ASSUME TypeOK, [Next]_vars PROVE TypeOK'
  OBVIOUS
<1> USE MaxLogAssumption
<1>1. ASSUME NEW c \in Clients, NEW e \in MergeStates, NEW l \in Loops, Check(c, e, l)
      PROVE  TypeOK'
  BY <1>1 DEF Check, TypeOK, Requests
<1>2. ASSUME NEW c \in Clients, NEW l \in Loops, Enqueue(c, l)
      PROVE  TypeOK'
  BY <1>2 DEF Enqueue, TypeOK, Requests, MergeStates
<1>3. ASSUME NEW c \in Clients, NEW b \in BOOLEAN,
             op[c] # Idle, Len(log) < MaxLog,
             log' = Append(log, Line(c, b)), op' = [op EXCEPT ![c] = Idle]
      PROVE  TypeOK'
  <2>1. log' \in Seq(Lines) /\ Len(log') = Len(log) + 1
    BY <1>3, LineType
  <2>2. Len(log) \in Nat
    BY LenProperties DEF TypeOK
  <2> QED BY <1>3, <2>1, <2>2 DEF TypeOK
<1>4. ASSUME NEW c \in Clients, CrashBeforeWrite(c)
      PROVE  TypeOK'
  BY <1>4 DEF CrashBeforeWrite, TypeOK
<1>5. CASE UNCHANGED vars
  BY <1>5 DEF vars, TypeOK
<1> QED BY <1>1, <1>2, <1>3, <1>4, <1>5
        DEF Next, Request, Write, CrashInsideWrite

\* The queue's file and the requests in flight keep their types.
THEOREM TypeCorrect == Spec => []TypeOK
<1>1. Init => TypeOK
  BY MaxLogAssumption, EmptySeq DEF Init, TypeOK
<1> QED BY <1>1, TypeStep, PTL DEF Spec

-----------------------------------------------------------------------------
(* Each loop's story *)

\* What the log must already hold for a request that is in flight: the check
\* that accepted it saw an older log, and the log only grows.
Grounded(c) ==
  LET l == op[c].loop
      Holds(e) == \E i \in 1..Len(log) : log[i].loop = l /\ log[i].event = e
  IN  /\ op[c].event # "queued" => Holds("queued")
      /\ op[c].event \in {"merged", "needs_review"} => Holds("merging")

IInv == TypeOK /\ StoryInOrder /\ \A c \in Clients : op[c] # Idle => Grounded(c)

\* Writing a grounded request keeps the story and every other request grounded.
LEMMA WriteKeepsStory ==
  ASSUME IInv, TypeOK', NEW c \in Clients, NEW b \in BOOLEAN, op[c] # Idle,
         log' = Append(log, Line(c, b)), op' = [op EXCEPT ![c] = Idle]
  PROVE  IInv'
<1> DEFINE n == Len(log)
           ln == Line(c, b)
<1>1. /\ ln \in Lines /\ ln.loop = op[c].loop /\ ln.event = op[c].event
      /\ log' \in Seq(Lines) /\ Len(log') = n + 1 /\ n \in Nat
      /\ \A i \in 1..n : log'[i] = log[i]
      /\ log'[n + 1] = ln
  <2>1. ln \in Lines /\ log \in Seq(Lines)
    BY LineType DEF IInv, TypeOK
  <2> QED BY <2>1, AppendProperties, LenProperties DEF Line
<1> HIDE DEF ln
<1>2. Grounded(c)
  BY DEF IInv
<1>3. FirstIsQueued(log')
  <2> SUFFICES ASSUME NEW i \in 1..(n + 1)
               PROVE  \E j \in 1..i : log'[j].loop = log'[i].loop /\ log'[j].event = "queued"
    BY <1>1 DEF FirstIsQueued
  <2>1. CASE i \in 1..n
    <3>1. PICK j \in 1..i : log[j].loop = log[i].loop /\ log[j].event = "queued"
      BY <2>1 DEF IInv, StoryInOrder, FirstIsQueued
    <3> QED BY <3>1, <2>1, <1>1
  <2>2. CASE i = n + 1 /\ op[c].event = "queued"
    BY <2>2, <1>1
  <2>3. CASE i = n + 1 /\ op[c].event # "queued"
    <3>1. PICK j \in 1..n : log[j].loop = op[c].loop /\ log[j].event = "queued"
      BY <2>3, <1>2 DEF Grounded
    <3> QED BY <3>1, <2>3, <1>1
  <2> QED BY <2>1, <2>2, <2>3, <1>1
<1>4. OutcomeAfterMerging(log')
  <2> SUFFICES ASSUME NEW i \in 1..(n + 1), log'[i].event \in {"merged", "needs_review"}
               PROVE  \E j \in 1..i : j < i /\ log'[j].loop = log'[i].loop
                                            /\ log'[j].event = "merging"
    BY <1>1 DEF OutcomeAfterMerging
  <2>1. CASE i \in 1..n
    <3>1. PICK j \in 1..i : j < i /\ log[j].loop = log[i].loop /\ log[j].event = "merging"
      BY <2>1, <1>1 DEF IInv, StoryInOrder, OutcomeAfterMerging
    <3> QED BY <3>1, <2>1, <1>1
  <2>2. CASE i = n + 1
    <3>1. PICK j \in 1..n : log[j].loop = op[c].loop /\ log[j].event = "merging"
      BY <2>2, <1>1, <1>2 DEF Grounded
    <3> QED BY <3>1, <2>2, <1>1
  <2> QED BY <2>1, <2>2, <1>1
<1>5. ASSUME NEW d \in Clients, op'[d] # Idle
      PROVE  Grounded(d)'
  <2>1. op'[d] = op[d] /\ op[d] # Idle /\ Grounded(d)
    BY <1>5 DEF IInv, TypeOK
  <2>2. \A e : (\E i \in 1..n : log[i].loop = op[d].loop /\ log[i].event = e)
             => \E i \in 1..(n + 1) : log'[i].loop = op[d].loop /\ log'[i].event = e
    BY <1>1
  <2> QED BY <2>1, <2>2, <1>1 DEF Grounded
<1> QED BY <1>3, <1>4, <1>5 DEF IInv, StoryInOrder

\* Accepting a request grounds it.
LEMMA RequestGrounded ==
  ASSUME IInv, TypeOK', NEW c \in Clients, NEW e \in MergeStates, NEW l \in Loops,
         e = "queued" \/ Accepts(e, l),
         op' = [op EXCEPT ![c] = [loop |-> l, event |-> e]], UNCHANGED log
  PROVE  IInv'
<1> DEFINE Holds(x) == \E i \in 1..Len(log) : log[i].loop = l /\ log[i].event = x
<1>1. log \in Seq(Lines) /\ op \in [Clients -> Requests \cup {Idle}]
  BY DEF IInv, TypeOK
<1>2. ASSUME e # "queued"
      PROVE  Holds(StateIn(log, l)) /\ Holds("queued")
  <2>1. StateIn(log, l) # Absent
    BY <1>2 DEF Accepts, AllowedFrom, MergeStates, Absent
  <2>2. Holds(StateIn(log, l))
    BY <1>1, <2>1, StateIsALine
  <2>3. PICK i \in 1..Len(log) : log[i].loop = l
    BY <2>2
  <2>4. PICK j \in 1..i : log[j].loop = l /\ log[j].event = "queued"
    BY <2>3 DEF IInv, StoryInOrder, FirstIsQueued
  <2>5. j \in 1..Len(log)
    BY <2>3, <2>4, <1>1, LenProperties
  <2> QED BY <2>2, <2>4, <2>5
<1>3. e \in {"merged", "needs_review"} => Holds("merging")
  BY <1>2 DEF Accepts, AllowedFrom
<1>4. ASSUME NEW d \in Clients, op'[d] # Idle
      PROVE  Grounded(d)'
  <2>1. CASE d = c
    BY <2>1, <1>1, <1>2, <1>3 DEF Grounded
  <2>2. CASE d # c
    BY <2>2, <1>1, <1>4 DEF IInv, Grounded
  <2> QED BY <2>1, <2>2
<1> QED BY <1>4 DEF IInv, StoryInOrder

\* Whatever the clients interleave and wherever they are killed, every loop's
\* log begins with its enqueue and every outcome follows a claim.
THEOREM StoryAlwaysInOrder == Spec => []StoryInOrder
<1>1. Init => IInv
  <2> SUFFICES ASSUME Init PROVE IInv
    OBVIOUS
  <2>1. TypeOK
    BY MaxLogAssumption, EmptySeq DEF Init, TypeOK
  <2> QED BY <2>1 DEF Init, IInv, StoryInOrder, FirstIsQueued, OutcomeAfterMerging
<1>2. IInv /\ TypeOK' /\ [Next]_vars => IInv'
  <2> SUFFICES ASSUME IInv, TypeOK', [Next]_vars PROVE IInv'
    OBVIOUS
  <2>1. ASSUME NEW c \in Clients, NEW e \in MergeStates, NEW l \in Loops, Check(c, e, l)
        PROVE  IInv'
    BY <2>1, RequestGrounded DEF Check
  <2>2. ASSUME NEW c \in Clients, NEW l \in Loops, Enqueue(c, l)
        PROVE  IInv'
    BY <2>2, RequestGrounded DEF Enqueue, MergeStates
  <2>3. ASSUME NEW c \in Clients, Write(c) \/ CrashInsideWrite(c)
        PROVE  IInv'
    BY <2>3, WriteKeepsStory DEF Write, CrashInsideWrite
  <2>4. ASSUME NEW c \in Clients, CrashBeforeWrite(c)
        PROVE  IInv'
    BY <2>4 DEF CrashBeforeWrite, IInv, TypeOK, StoryInOrder, Grounded
  <2>5. CASE UNCHANGED vars
    BY <2>5 DEF vars, IInv, StoryInOrder, Grounded
  <2> QED BY <2>1, <2>2, <2>3, <2>4, <2>5 DEF Next, Request
<1>3. IInv => StoryInOrder
  BY DEF IInv
<1> QED BY <1>1, <1>2, <1>3, TypeCorrect, PTL DEF Spec

-----------------------------------------------------------------------------
(* Refinement *)

\* With a single client nothing comes between its check and its append: the
\* append moves the loop from a state the method accepts.
Current(c) == StateIn(log, op[c].loop) \in AllowedFrom(op[c].event)

SingleInv == TypeOK /\ \A c \in Clients : op[c] # Idle => Current(c)

\* A state read from a log is Absent or one of MergeStates.
LEMMA StateType ==
  ASSUME NEW lg \in Seq(Lines), NEW l
  PROVE  StateIn(lg, l) \in MergeStates \cup {Absent}
<1>1. CASE StateIn(lg, l) = Absent
  BY <1>1
<1>2. CASE StateIn(lg, l) # Absent
  <2>1. PICK i \in 1..Len(lg) : lg[i].event = StateIn(lg, l)
    BY <1>2, StateIsALine
  <2>2. lg[i] \in Lines
    BY ElementOfSeq
  <2> QED BY <2>1, <2>2 DEF Lines
<1> QED BY <1>1, <1>2

\* A process that has the queue for itself implements the life cycle.
THEOREM SingleClientLifecycle ==
  ASSUME NEW me, Clients = {me}
  PROVE  Spec => FollowsLifecycle
<1> DEFINE state == [l \in Loops |-> StateIn(log, l)]
<1>1. Init => SingleInv /\ Lifecycle!Init
  <2> SUFFICES ASSUME Init PROVE SingleInv /\ Lifecycle!Init
    OBVIOUS
  <2>1. TypeOK
    BY MaxLogAssumption, EmptySeq DEF Init, TypeOK
  <2>2. \A l : StateIn(log, l) = Absent
    BY EmptySeq DEF Init, StateIn
  <2> QED BY <2>1, <2>2 DEF Init, SingleInv, Lifecycle!Init, Lifecycle!Absent, Absent
<1>2. SingleInv /\ TypeOK' /\ [Next]_vars => SingleInv' /\ [Lifecycle!Next]_state
  <2> SUFFICES ASSUME SingleInv, TypeOK', [Next]_vars
               PROVE  SingleInv' /\ [Lifecycle!Next]_state
    OBVIOUS
  <2>0. log \in Seq(Lines) /\ op \in [Clients -> Requests \cup {Idle}]
    BY DEF SingleInv, TypeOK
  <2>1. ASSUME NEW c \in Clients, NEW e \in MergeStates, NEW l \in Loops,
               e = "queued" \/ Accepts(e, l),
               op' = [op EXCEPT ![c] = [loop |-> l, event |-> e]], UNCHANGED log
        PROVE  SingleInv' /\ UNCHANGED state
    <3>1. StateIn(log, l) \in AllowedFrom(e)
      BY <2>0, <2>1, StateType DEF Accepts, AllowedFrom
    <3>2. \A d \in Clients : op'[d] = [loop |-> l, event |-> e]
      BY <2>0, <2>1
    <3> QED BY <2>1, <3>1, <3>2 DEF SingleInv, Current
  <2>2. ASSUME NEW c \in Clients, NEW b \in BOOLEAN, op[c] # Idle,
               log' = Append(log, Line(c, b)), op' = [op EXCEPT ![c] = Idle]
        PROVE  SingleInv' /\ Lifecycle!Next
    <3>1. op[c] \in Requests /\ Line(c, b) \in Lines
          /\ Line(c, b).loop = op[c].loop /\ Line(c, b).event = op[c].event
      BY <2>2, LineType DEF SingleInv, Line
    <3>2. \A l : StateIn(log', l) = IF op[c].loop = l THEN op[c].event ELSE StateIn(log, l)
      BY <2>0, <2>2, <3>1, StateAfterAppend
    <3>3. \A d \in Clients : op'[d] = Idle
      BY <2>0, <2>2
    <3>4. op[c].loop \in Loops /\ op[c].event \in MergeStates /\ Current(c)
      BY <2>2, <3>1 DEF Requests, SingleInv
    <3>5. state' = [state EXCEPT ![op[c].loop] = op[c].event]
      BY <3>2, <3>4
    <3>6. state[op[c].loop] \in Lifecycle!AllowedFrom(op[c].event)
      BY <3>4 DEF Current, AllowedFrom, Lifecycle!AllowedFrom, MergeStates,
                  Lifecycle!MergeStates, Absent, Lifecycle!Absent
    <3>7. Lifecycle!Move(op[c].loop, op[c].event)
      BY <3>5, <3>6 DEF Lifecycle!Move
    <3> QED BY <3>3, <3>4, <3>7 DEF SingleInv, Lifecycle!Next, MergeStates, Lifecycle!MergeStates
  <2>3. ASSUME NEW c \in Clients, CrashBeforeWrite(c)
        PROVE  SingleInv' /\ UNCHANGED state
    BY <2>0, <2>3 DEF CrashBeforeWrite, SingleInv, Current
  <2>4. CASE UNCHANGED vars
    BY <2>4 DEF vars, SingleInv, Current
  <2>5. ASSUME NEW c \in Clients, NEW l \in Loops, NEW e \in MergeStates, Check(c, e, l)
        PROVE  SingleInv' /\ UNCHANGED state
    BY <2>1, <2>5 DEF Check
  <2>6. ASSUME NEW c \in Clients, NEW l \in Loops, Enqueue(c, l)
        PROVE  SingleInv' /\ UNCHANGED state
    BY <2>1, <2>6 DEF Enqueue, MergeStates
  <2>7. ASSUME NEW c \in Clients, Write(c) \/ CrashInsideWrite(c)
        PROVE  SingleInv' /\ Lifecycle!Next
    BY <2>2, <2>7 DEF Write, CrashInsideWrite
  <2> QED BY <2>3, <2>4, <2>5, <2>6, <2>7 DEF Next, Request
<1> QED BY <1>1, <1>2, TypeCorrect, PTL DEF Spec, FollowsLifecycle, Lifecycle!Spec
=============================================================================

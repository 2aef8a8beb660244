---------------------------- MODULE MergeFlowProofs ----------------------------
(***************************************************************************)
(* Theorems about MergeFlow, for any number of loops, operators,           *)
(* merge-ralphs and crashes.                                               *)
(*                                                                         *)
(*   TypeCorrect      Spec => []TypeOK                                     *)
(*   UsesTheQueue     Spec => Q!Spec: the processes use the merge queue    *)
(*                    only through its operations                          *)
(*   StoryTold        Spec => []StoryInOrder, from MergeQueueProofs         *)
(*   LockExclusive    Spec => []OneInPlaceLoop                             *)
(*   EveryStepAdvances  no process goes back, and the lock's holder is one *)
(*                    that is still to end                                 *)
(*   QueueIsHonest    Spec => []MergedIsMerged                             *)
(*   MergingHasAnOwner  an entry in merging has a process that is still to *)
(*                    record its outcome, or was deserted by one           *)
(***************************************************************************)
EXTENDS MergeFlow, SequenceTheorems, TLAPS

QP == INSTANCE MergeQueueProofs WITH Clients <- Processes

Assumptions == /\ MaxSpawn \in Nat /\ MaxKills \in Nat /\ MaxLog \in Nat
               /\ Idle \notin Q!Requests

LEMMA AssumptionsHold == Assumptions
BY MaxSpawnAssumption, MaxKillsAssumption, MaxLogAssumption, ProcessesAssumption
   DEF Assumptions, Q!Requests, Q!MergeStates

\* Q and QP name the same definitions.
LEMMA SameTypeOK == Q!TypeOK <=> QP!TypeOK
BY DEF Q!TypeOK, Q!Requests, Q!MergeStates, Q!Lines, QP!TypeOK, QP!Requests,
       QP!MergeStates, QP!Lines

LEMMA SameStep == [Q!Next]_(Q!vars) <=> [QP!Next]_(QP!vars)
BY DEF Q!Next, Q!Request, Q!Check, Q!Enqueue, Q!Write, Q!CrashBeforeWrite,
       Q!CrashInsideWrite, Q!Line, Q!Accepts, Q!AllowedFrom, Q!Readable,
       Q!StateIn, Q!IsLastOf, Q!Absent, Q!MergeStates, Q!vars, QP!Next,
       QP!Request, QP!Check, QP!Enqueue, QP!Write, QP!CrashBeforeWrite,
       QP!CrashInsideWrite, QP!Line, QP!Accepts, QP!AllowedFrom, QP!Readable,
       QP!StateIn, QP!IsLastOf, QP!Absent, QP!MergeStates, QP!vars

-----------------------------------------------------------------------------
(* Types *)

\* A command that is under way knows its loop.
Busy == {"discarding", "removing", "adopting", "api_claiming", "api_claimed", "api_merging"}
TargetKnown == \A u \in Users : pc[u] \in Busy => target[u] \in Loops

\* The steps of MergeFlow, by what they do to the queue.
QStep(p) ==
  \/ \E l \in Loops : \E e \in Q!MergeStates : Q!Check(p, e, l)
  \/ \E l \in Loops : Q!Enqueue(p, l)
  \/ Q!Write(p) \/ Q!CrashBeforeWrite(p) \/ Q!CrashInsideWrite(p)

LEMMA QStepIsQueueStep ==
  ASSUME NEW p \in Processes, QStep(p) PROVE Q!Next
BY DEF QStep, Q!Next, Q!Request

LEMMA RalphType == \A r \in Ralphs : r[1] \in Loops /\ r \in InPlace /\ r \in Processes
BY DEF Ralphs, InPlace, Processes

LEMMA PcTypes ==
  ASSUME NEW p \in Processes, NEW x \in PCs, pc \in [Processes -> PCs],
         \/ Goto(p, x)
         \/ \E born : GotoSpawning(p, x, born)
  PROVE  pc' \in [Processes -> PCs]
BY DEF Goto, GotoSpawning, PCs

\* Every step uses the queue through its operations.
LEMMA QueueStep ==
  ASSUME TypeOK, TargetKnown, [Next]_vars
  PROVE  [Q!Next]_(Q!vars)
<1> USE DEF Q!vars
<1>1. ASSUME NEW l \in Loops, WorktreeStep(l)
      PROVE  [Q!Next]_(Q!vars)
  <2>1. l \in Processes
    BY DEF Processes
  <2> QED BY <1>1, <2>1, QStepIsQueueStep
          DEF WorktreeStep, WorktreeCompletes, WorktreeEnqueued, WorktreeStops, QStep
<1>2. ASSUME NEW r \in Ralphs, RalphStep(r)
      PROVE  [Q!Next]_(Q!vars)
  <2>1. CASE ClaimRefused(r) \/ LandRefused(r)
    BY <2>1 DEF ClaimRefused, LandRefused
  <2>2. CASE Claim(r) \/ Claimed(r) \/ Landed(r)
    BY <2>2, QStepIsQueueStep, RalphType
       DEF Claim, Claimed, Landed, QStep, Q!MergeStates
  <2>3. CASE Land(r)
    BY <2>3, QStepIsQueueStep, RalphType DEF Land, Outcomes, QStep, Q!MergeStates
  <2> QED BY <1>2, <2>1, <2>2, <2>3 DEF RalphStep
<1>3. ASSUME NEW p \in InPlace, InPlaceStep(p)
      PROVE  [Q!Next]_(Q!vars)
  BY <1>2, <1>3 DEF InPlaceStep, Finish, GiveUp, ProcessQueue, Exit
<1>4. ASSUME NEW r \in Ralphs, AcquireLock(r) \/ StartFails(r) \/ AgentMerges(r) \/ Fails(r)
      PROVE  [Q!Next]_(Q!vars)
  BY <1>4 DEF AcquireLock, StartFails, AgentMerges, Fails
<1>5. ASSUME NEW u \in Users, CommandStep(u)
      PROVE  [Q!Next]_(Q!vars)
  <2>1. u \in Processes
    BY DEF Processes
  <2>2. CASE DiscardWrite(u) \/ MergeAdopted(u) \/ ApiClaimed(u) \/ ApiMerged(u)
    BY <2>1, <2>2, QStepIsQueueStep
       DEF DiscardWrite, MergeAdopted, ApiClaimed, ApiMerged, QStep
  <2>3. CASE DiscardRemove(u)
    BY <2>3 DEF DiscardRemove
  <2>4. CASE ApiMerge(u)
    BY <2>1, <2>4, QStepIsQueueStep
       DEF ApiMerge, QStep, Q!MergeStates, TargetKnown, Busy
  <2> QED BY <1>5, <2>2, <2>3, <2>4 DEF CommandStep
<1>6. ASSUME NEW u \in Users, NEW l \in Loops, Command(u, l)
      PROVE  [Q!Next]_(Q!vars)
  <2>1. u \in Processes
    BY DEF Processes
  <2>2. CASE DiscardCheck(u, l) \/ MergeOrphan(u, l) \/ ApiClaim(u, l) \/ ApiForce(u, l)
    BY <2>1, <2>2, QStepIsQueueStep
       DEF DiscardCheck, MergeOrphan, ApiClaim, ApiForce, QStep, Q!MergeStates
  <2>3. CASE DiscardAbsent(u, l) \/ Retry(u, l) \/ Merge(u, l)
    BY <2>3 DEF DiscardAbsent, Retry, Merge
  <2> QED BY <1>6, <2>2, <2>3 DEF Command
<1>7. ASSUME NEW p \in Processes, Kill(p)
      PROVE  [Q!Next]_(Q!vars)
  BY <1>7, QStepIsQueueStep DEF Kill, QStep
<1>8. CASE UNCHANGED vars
  BY <1>8 DEF vars
<1> QED BY <1>1, <1>3, <1>4, <1>5, <1>6, <1>7, <1>8 DEF Next

\* The part of the state that belongs to MergeFlow alone.
FlowTypeOK ==
  /\ holder \in InPlace \cup {Free}
  /\ pc \in [Processes -> PCs]
  /\ target \in [Users -> Loops \cup {Idle}]
  /\ branch \in [Loops -> {"live", "merged", "deleted"}]
  /\ kills \in 0..MaxKills

LEMMA FlowTypeStep ==
  ASSUME FlowTypeOK, TargetKnown, [Next]_vars
  PROVE  FlowTypeOK' /\ TargetKnown'
<1> USE DEF FlowTypeOK, TargetKnown, Busy, Processes, Goto
<1>0. /\ Users \cap InPlace = {} /\ Users \cap Loops = {} /\ Loops \cap InPlace = {}
      /\ \A r \in Ralphs : r \in InPlace
  BY ProcessesAssumption DEF InPlace
<1>1. ASSUME NEW l \in Loops, WorktreeStep(l)
      PROVE  FlowTypeOK' /\ TargetKnown'
  BY <1>0, <1>1 DEF WorktreeStep, WorktreeCompletes, WorktreeEnqueued, WorktreeStops, PCs
<1>2. ASSUME NEW r \in Ralphs, RalphStep(r)
      PROVE  FlowTypeOK' /\ TargetKnown'
  BY <1>0, <1>2 DEF RalphStep, Claim, Claimed, ClaimRefused, Land, Landed,
                    LandRefused, PCs
<1>3. ASSUME NEW p \in InPlace, Finish(p) \/ GiveUp(p) \/ Exit(p)
      PROVE  FlowTypeOK' /\ TargetKnown'
  BY <1>0, <1>3 DEF Finish, GiveUp, Exit, PCs
<1>4. ASSUME NEW p \in Processes, NEW x \in PCs \ Busy, NEW S \in SUBSET Loops,
             GotoSpawning(p, x, Spawned(S)), UNCHANGED <<holder, target, branch, kills>>
      PROVE  FlowTypeOK' /\ TargetKnown'
  BY <1>0, <1>4 DEF GotoSpawning, Spawned, PCs
<1>5. ASSUME NEW p \in InPlace, ProcessQueue(p)
      PROVE  FlowTypeOK' /\ TargetKnown'
  BY <1>4, <1>5 DEF ProcessQueue, PCs
<1>6. ASSUME NEW r \in Ralphs, AcquireLock(r) \/ StartFails(r) \/ AgentMerges(r) \/ Fails(r)
      PROVE  FlowTypeOK' /\ TargetKnown'
  BY <1>0, <1>6, RalphType DEF AcquireLock, StartFails, AgentMerges, Fails, PCs
<1>7. ASSUME NEW u \in Users, CommandStep(u)
      PROVE  FlowTypeOK' /\ TargetKnown'
  <2>1. CASE DiscardWrite(u) \/ DiscardRemove(u) \/ ApiClaimed(u) \/ ApiMerge(u) \/ ApiMerged(u)
    BY <1>0, <2>1 DEF DiscardWrite, DiscardRemove, ApiClaimed, ApiMerge, ApiMerged, PCs
  <2>2. CASE MergeAdopted(u)
    BY <1>4, <2>2 DEF MergeAdopted, PCs
  <2> QED BY <1>7, <2>1, <2>2 DEF CommandStep
<1>8. ASSUME NEW u \in Users, NEW l \in Loops, Command(u, l)
      PROVE  FlowTypeOK' /\ TargetKnown'
  <2>1. ASSUME NEW x \in PCs, Begin(u, l, x), UNCHANGED <<holder, branch, kills>>
        PROVE  FlowTypeOK' /\ TargetKnown'
    BY <1>0, <2>1 DEF Begin
  <2>2. CASE DiscardCheck(u, l) \/ DiscardAbsent(u, l) \/ MergeOrphan(u, l)
             \/ ApiClaim(u, l) \/ ApiForce(u, l)
    BY <2>1, <2>2 DEF DiscardCheck, DiscardAbsent, MergeOrphan, ApiClaim, ApiForce, PCs
  <2>3. CASE Retry(u, l) \/ Merge(u, l)
    BY <1>4, <2>3 DEF Retry, Merge, PCs
  <2> QED BY <1>8, <2>2, <2>3 DEF Command
<1>9. ASSUME NEW p \in Processes, Kill(p)
      PROVE  FlowTypeOK' /\ TargetKnown'
  BY <1>0, <1>9, MaxKillsAssumption DEF Kill, PCs
<1>10. CASE UNCHANGED vars
  BY <1>10 DEF vars
<1> QED BY <1>1, <1>2, <1>3, <1>5, <1>6, <1>7, <1>8, <1>9, <1>10 DEF Next, InPlaceStep

LEMMA InitTypes == Init => TypeOK /\ TargetKnown
<1> SUFFICES ASSUME Init PROVE TypeOK /\ TargetKnown
  OBVIOUS
<1>1. Q!TypeOK
  BY MaxLogAssumption, EmptySeq DEF Init, Q!Init, Q!TypeOK
<1>2. FlowTypeOK /\ TargetKnown
  BY MaxKillsAssumption, ProcessesAssumption
     DEF Init, FlowTypeOK, TargetKnown, Busy, InPlace, Processes, PCs
<1> QED BY <1>1, <1>2 DEF TypeOK, FlowTypeOK

LEMMA TypeInductive == TypeOK /\ TargetKnown /\ [Next]_vars => TypeOK' /\ TargetKnown'
<1> SUFFICES ASSUME TypeOK, TargetKnown, [Next]_vars
             PROVE  TypeOK' /\ TargetKnown'
  OBVIOUS
<1>1. [Q!Next]_(Q!vars)
  BY QueueStep
<1>2. Q!TypeOK'
  <2>1. Q!TypeOK
    BY DEF TypeOK
  <2>2. MaxLog \in Nat /\ Idle \notin Q!Requests
    BY AssumptionsHold DEF Assumptions
  <2>3. QP!TypeOK /\ [QP!Next]_(QP!vars)
    BY <1>1, <2>1, SameTypeOK, SameStep
  <2>4. QP!TypeOK'
    BY <2>2, <2>3, QP!TypeStep DEF Q!Requests, QP!Requests, Q!MergeStates, QP!MergeStates
  <2>5. Q!TypeOK' <=> QP!TypeOK'
    BY DEF Q!TypeOK, Q!Requests, Q!MergeStates, Q!Lines, QP!TypeOK, QP!Requests,
           QP!MergeStates, QP!Lines
  <2> QED BY <2>4, <2>5
<1>3. FlowTypeOK' /\ TargetKnown'
  BY FlowTypeStep DEF TypeOK, FlowTypeOK
<1> QED BY <1>2, <1>3 DEF TypeOK, FlowTypeOK

\* Locks, queue, branches and processes keep their types.
THEOREM TypeCorrect == Spec => []TypeOK
BY InitTypes, TypeInductive, PTL DEF Spec

\* The loops, merge-ralphs and operators touch the queue's file only through
\* its operations: MergeFlow implements MergeQueue, and what holds of the queue
\* for arbitrary clients holds here.
THEOREM UsesTheQueue == Spec => Q!Spec
<1>1. Init => Q!Init
  BY DEF Init
<1> QED BY <1>1, InitTypes, TypeInductive, QueueStep, PTL DEF Spec, Q!Spec

\* So the theorem about arbitrary clients of the queue is one about loops,
\* merge-ralphs and operators: the file tells each loop's story in order.
THEOREM StoryTold == Spec => []StoryInOrder
<1>1. Q!Init <=> QP!Init
  BY DEF Q!Init, QP!Init
<1>2. Q!Spec => QP!Spec
  BY <1>1, SameStep, PTL DEF Q!Spec, QP!Spec
<1>3. QP!Spec => []QP!StoryInOrder
  <2>1. MaxLog \in Nat /\ Idle \notin Q!Requests
    BY AssumptionsHold DEF Assumptions
  <2> QED BY <2>1, QP!StoryAlwaysInOrder DEF Q!Requests, QP!Requests, Q!MergeStates, QP!MergeStates
<1>4. QP!StoryInOrder => StoryInOrder
  BY DEF StoryInOrder, Q!StoryInOrder, QP!StoryInOrder, Q!FirstIsQueued, QP!FirstIsQueued,
         Q!OutcomeAfterMerging, QP!OutcomeAfterMerging
<1> QED BY <1>2, <1>3, <1>4, UsesTheQueue, PTL

-----------------------------------------------------------------------------
(* The loop lock *)

\* The lock is held by a process that is past it, and only by that process.
LockInv ==
  /\ FlowTypeOK /\ TargetKnown
  /\ OneInPlaceLoop
  /\ holder # Free => pc[holder] \in InsideLock

LEMMA LockStep == LockInv /\ [Next]_vars => LockInv'
<1> SUFFICES ASSUME LockInv, [Next]_vars PROVE LockInv'
  OBVIOUS
<1> USE DEF LockInv, FlowTypeOK, OneInPlaceLoop, InsideLock, Processes, Goto
<1>0. /\ Users \cap InPlace = {} /\ Loops \cap InPlace = {} /\ Free \notin InPlace
      /\ \A r \in Ralphs : r \in InPlace
      /\ FlowTypeOK' /\ TargetKnown'
  BY ProcessesAssumption, FlowTypeStep DEF InPlace
<1>1. ASSUME NEW l \in Loops, WorktreeStep(l)
      PROVE  LockInv'
  BY <1>0, <1>1 DEF WorktreeStep, WorktreeCompletes, WorktreeEnqueued, WorktreeStops
<1>2. ASSUME NEW r \in Ralphs, RalphStep(r)
      PROVE  LockInv'
  BY <1>0, <1>2 DEF RalphStep, Claim, Claimed, ClaimRefused, Land, Landed,
                    LandRefused
<1>3. ASSUME NEW p \in InPlace, Finish(p) \/ GiveUp(p) \/ Exit(p)
      PROVE  LockInv'
  BY <1>0, <1>3 DEF Finish, GiveUp, Exit
<1>4. ASSUME NEW p \in Processes, NEW x, NEW S \in SUBSET Loops,
             p \in InPlace => pc[p] \in InsideLock /\ x = "exiting",
             GotoSpawning(p, x, Spawned(S)), UNCHANGED <<holder, target, branch, kills>>
      PROVE  LockInv'
  BY <1>0, <1>4 DEF GotoSpawning, Spawned
<1>5. ASSUME NEW p \in InPlace, ProcessQueue(p)
      PROVE  LockInv'
  BY <1>4, <1>5 DEF ProcessQueue
<1>6. ASSUME NEW r \in Ralphs, AcquireLock(r) \/ StartFails(r) \/ AgentMerges(r) \/ Fails(r)
      PROVE  LockInv'
  BY <1>0, <1>6 DEF AcquireLock, StartFails, AgentMerges, Fails
<1>7. ASSUME NEW u \in Users, CommandStep(u)
      PROVE  LockInv'
  <2>1. CASE DiscardWrite(u) \/ DiscardRemove(u) \/ ApiClaimed(u) \/ ApiMerge(u) \/ ApiMerged(u)
    BY <1>0, <2>1 DEF DiscardWrite, DiscardRemove, ApiClaimed, ApiMerge, ApiMerged
  <2>2. CASE MergeAdopted(u)
    BY <1>0, <1>4, <2>2 DEF MergeAdopted, TargetKnown, Busy
  <2> QED BY <1>7, <2>1, <2>2 DEF CommandStep
<1>8. ASSUME NEW u \in Users, NEW l \in Loops, Command(u, l)
      PROVE  LockInv'
  <2>1. ASSUME NEW x, Begin(u, l, x), UNCHANGED <<holder, branch, kills>>
        PROVE  LockInv'
    BY <1>0, <2>1 DEF Begin
  <2>2. CASE DiscardCheck(u, l) \/ DiscardAbsent(u, l) \/ MergeOrphan(u, l)
             \/ ApiClaim(u, l) \/ ApiForce(u, l)
    BY <2>1, <2>2 DEF DiscardCheck, DiscardAbsent, MergeOrphan, ApiClaim, ApiForce
  <2>3. CASE Retry(u, l) \/ Merge(u, l)
    BY <1>0, <1>4, <2>3 DEF Retry, Merge
  <2> QED BY <1>8, <2>2, <2>3 DEF Command
<1>9. ASSUME NEW p \in Processes, Kill(p)
      PROVE  LockInv'
  BY <1>0, <1>9 DEF Kill
<1>10. CASE UNCHANGED vars
  BY <1>10 DEF vars, TargetKnown
<1> QED BY <1>1, <1>2, <1>3, <1>5, <1>6, <1>7, <1>8, <1>9, <1>10 DEF Next, InPlaceStep

\* However many merge-ralphs wait and whoever is killed, only the holder of
\* .ralph/loop.lock runs in the main checkout.
THEOREM LockExclusive == Spec => []OneInPlaceLoop
<1>1. Init => LockInv
  <2> SUFFICES ASSUME Init PROVE LockInv
    OBVIOUS
  <2>1. FlowTypeOK /\ TargetKnown
    BY InitTypes DEF TypeOK, FlowTypeOK
  <2> QED BY <2>1, ProcessesAssumption
          DEF Init, LockInv, OneInPlaceLoop, InsideLock, InPlace, Processes
<1>2. LockInv => OneInPlaceLoop
  BY DEF LockInv
<1> QED BY <1>1, <1>2, LockStep, PTL DEF Spec

-----------------------------------------------------------------------------
(* Processes only go forward: what SpawnedRalphsEnd and MergingIsResolved    *)
(* rest on, fairness apart                                                   *)

\* How far a process at x is from its end.
Place(x) ==
  CASE x \in {"unborn", "idle"} -> 9
    [] x = "waiting" -> 8
    [] x = "starting" -> 7
    [] x = "claiming" -> 6
    [] x = "working" -> 5
    [] x \in {"landing_ok", "landing_bad"} -> 4
    [] x \in {"recording_ok", "recording_bad", "enqueuing", "api_claiming"} -> 3
    [] x \in {"processing", "discarding", "api_claimed"} -> 2
    [] x \in {"exiting", "removing", "adopting", "api_merging"} -> 1
    [] x \in Ended -> 0

LEMMA Places ==
  /\ \A x \in PCs : Place(x) \in 0..9
  /\ Place("unborn") = 9 /\ Place("idle") = 9 /\ Place("waiting") = 8
  /\ Place("starting") = 7 /\ Place("claiming") = 6 /\ Place("working") = 5
  /\ Place("landing_ok") = 4 /\ Place("landing_bad") = 4
  /\ Place("recording_ok") = 3 /\ Place("recording_bad") = 3
  /\ Place("enqueuing") = 3 /\ Place("api_claiming") = 3
  /\ Place("processing") = 2 /\ Place("discarding") = 2 /\ Place("api_claimed") = 2
  /\ Place("exiting") = 1 /\ Place("removing") = 1 /\ Place("adopting") = 1
  /\ Place("api_merging") = 1 /\ Place("exited") = 0 /\ Place("dead") = 0
  /\ Place("api_merged") = 0
<1>1. \A x \in PCs : Place(x) \in 0..9
  BY DEF Place, PCs, Ended
<1> QED BY <1>1 DEF Place, Ended

\* No process goes back, and one comes nearer to its end ...
SomeoneAdvances ==
  /\ \A p \in Processes : Place(pc'[p]) <= Place(pc[p])
  /\ \E p \in Processes : Place(pc'[p]) < Place(pc[p])
\* ... or all of them stay where they are while a branch is merged.
AnAgentMerges ==
  /\ UNCHANGED pc
  /\ \E l \in Loops : branch[l] = "live" /\ branch'[l] = "merged"

Onward ==
  /\ SomeoneAdvances \/ AnAgentMerges
  /\ \A l \in Loops : branch[l] # "live" => branch'[l] = branch[l]

LEMMA GotoAdvances ==
  ASSUME FlowTypeOK, NEW p \in Processes, NEW x \in PCs, Goto(p, x),
         Place(x) < Place(pc[p])
  PROVE  SomeoneAdvances
BY Places DEF FlowTypeOK, Goto, SomeoneAdvances

LEMMA SpawningAdvances ==
  ASSUME FlowTypeOK, NEW p \in Processes, NEW x \in PCs, NEW S,
         GotoSpawning(p, x, Spawned(S)), Place(x) < Place(pc[p])
  PROVE  SomeoneAdvances
<1>1. \A q \in Processes : Place(pc[q]) \in 0..9
  BY Places DEF FlowTypeOK
<1>2. \A q \in Spawned(S) : pc[q] = "unborn"
  BY DEF Spawned
<1>3. ASSUME NEW q \in Processes
      PROVE  Place(pc'[q]) <= Place(pc[q])
  <2>1. CASE q = p
    BY <2>1, <1>1, Places DEF GotoSpawning
  <2>2. CASE q # p /\ q \in Spawned(S)
    BY <2>2, <1>2, Places DEF GotoSpawning
  <2>3. CASE q # p /\ q \notin Spawned(S)
    BY <2>3, <1>1 DEF GotoSpawning
  <2> QED BY <2>1, <2>2, <2>3
<1>4. Place(pc'[p]) < Place(pc[p])
  BY DEF GotoSpawning
<1> QED BY <1>3, <1>4 DEF SomeoneAdvances

LEMMA OnwardStep ==
  ASSUME FlowTypeOK, TargetKnown, Next
  PROVE  Onward
<1> USE DEF Onward
<1>0. /\ \A l \in Loops : l \in Processes
      /\ \A p \in InPlace : p \in Processes
      /\ \A u \in Users : u \in Processes
      /\ \A r \in Ralphs : r \in Processes /\ r[1] \in Loops
  BY RalphType DEF Processes
<1>1. ASSUME NEW l \in Loops, WorktreeStep(l)
      PROVE  Onward
  BY <1>0, <1>1, GotoAdvances, Places
     DEF WorktreeStep, WorktreeCompletes, WorktreeEnqueued, WorktreeStops, PCs
<1>2. ASSUME NEW r \in Ralphs, RalphStep(r)
      PROVE  Onward
  BY <1>0, <1>2, GotoAdvances, Places
     DEF RalphStep, Claim, Claimed, ClaimRefused, Land, Landed, LandRefused, PCs
<1>3. ASSUME NEW p \in InPlace, Finish(p) \/ GiveUp(p) \/ Exit(p)
      PROVE  Onward
  BY <1>0, <1>3, GotoAdvances, Places DEF Finish, GiveUp, Exit, PCs
<1>4. ASSUME NEW p \in InPlace, ProcessQueue(p)
      PROVE  Onward
  BY <1>0, <1>4, SpawningAdvances, Places DEF ProcessQueue, PCs
<1>5. ASSUME NEW r \in Ralphs, AcquireLock(r) \/ StartFails(r) \/ Fails(r)
      PROVE  Onward
  BY <1>0, <1>5, GotoAdvances, Places DEF AcquireLock, StartFails, Fails, PCs
<1>6. ASSUME NEW r \in Ralphs, AgentMerges(r)
      PROVE  Onward
  BY <1>0, <1>6 DEF AgentMerges, AnAgentMerges, FlowTypeOK
<1>7. ASSUME NEW u \in Users, CommandStep(u)
      PROVE  Onward
  <2>1. CASE DiscardWrite(u) \/ ApiClaimed(u) \/ ApiMerge(u) \/ ApiMerged(u)
    BY <1>0, <2>1, GotoAdvances, Places
       DEF DiscardWrite, ApiClaimed, ApiMerge, ApiMerged, PCs
  <2>2. CASE DiscardRemove(u)
    <3>1. SomeoneAdvances
      BY <1>0, <2>2, GotoAdvances, Places DEF DiscardRemove, PCs
    <3>2. \A l \in Loops : branch[l] # "live" => branch'[l] = branch[l]
      BY <2>2 DEF DiscardRemove, FlowTypeOK
    <3> QED BY <3>1, <3>2
  <2>3. CASE MergeAdopted(u)
    BY <1>0, <2>3, SpawningAdvances, Places DEF MergeAdopted, PCs
  <2> QED BY <1>7, <2>1, <2>2, <2>3 DEF CommandStep
<1>8. ASSUME NEW u \in Users, NEW l \in Loops, Command(u, l)
      PROVE  Onward
  <2>1. CASE Retry(u, l) \/ Merge(u, l)
    BY <1>0, <2>1, SpawningAdvances, Places DEF Retry, Merge, PCs
  <2>2. CASE DiscardCheck(u, l) \/ DiscardAbsent(u, l) \/ MergeOrphan(u, l)
             \/ ApiClaim(u, l) \/ ApiForce(u, l)
    BY <1>0, <2>2, GotoAdvances, Places
       DEF DiscardCheck, DiscardAbsent, MergeOrphan, ApiClaim, ApiForce, Begin, PCs
  <2> QED BY <1>8, <2>1, <2>2 DEF Command
<1>9. ASSUME NEW p \in Processes, Kill(p)
      PROVE  Onward
  <2>1. pc[p] \in PCs /\ pc[p] # "unborn" /\ pc[p] \notin Ended
    BY <1>9 DEF Kill, Alive, FlowTypeOK
  <2>2. Place(pc[p]) > 0
    BY <2>1, Places DEF PCs, Ended
  <2> QED BY <1>9, <2>2, GotoAdvances, Places DEF Kill, PCs
<1> QED BY <1>1, <1>2, <1>3, <1>4, <1>5, <1>6, <1>7, <1>8, <1>9 DEF Next, InPlaceStep

\* A released lock, a merge-ralph that ends, a command that returns: every step
\* of the loops, the operators and the crashes brings some process nearer to its
\* end, and none further from it, or it settles a branch for good.  So with
\* finitely many processes no run goes on for ever, whatever is spawned, retried
\* or killed, and as whoever holds the loop lock is a process that is still to
\* end, a merge-ralph that waits for it waits for finitely many steps of others.
THEOREM EveryStepAdvances ==
  Spec => [](holder # Free => pc[holder] \in InsideLock) /\ [][Onward]_vars
<1>1. Init => LockInv
  <2> SUFFICES ASSUME Init PROVE LockInv
    OBVIOUS
  <2>1. FlowTypeOK /\ TargetKnown
    BY InitTypes DEF TypeOK, FlowTypeOK
  <2> QED BY <2>1, ProcessesAssumption
          DEF Init, LockInv, OneInPlaceLoop, InsideLock, InPlace, Processes
<1>2. LockInv /\ [Next]_vars => [Onward]_vars
  BY OnwardStep DEF LockInv
<1>3. LockInv => (holder # Free => pc[holder] \in InsideLock)
  BY DEF LockInv
<1> QED BY <1>1, <1>2, <1>3, LockStep, PTL DEF Spec

-----------------------------------------------------------------------------
(* What the queue says about the branches *)

\* The branch of l is in main, or a call of the API's loop.merge said so.
Vouched(l) ==
  \/ branch[l] = "merged"
  \/ \E u \in Users : pc[u] = "api_merged" /\ target[u] = l

\* Whoever is about to record that a loop is merged knows that its branch is in
\* main, or is the API.
RequestHonest(p) ==
  op[p] # Idle /\ op[p].event = "merged" =>
    \/ branch[op[p].loop] = "merged"
    \/ p \in Users /\ pc[p] = "api_merging" /\ target[p] = op[p].loop

LinesVouched == \A i \in 1..Len(log) : log[i].event = "merged" => Vouched(log[i].loop)

Honest ==
  /\ LinesVouched
  /\ \A p \in Processes : RequestHonest(p)
  /\ \A r \in Ralphs : pc[r] = "landing_ok" => branch[r[1]] = "merged"

HonestInv == TypeOK /\ TargetKnown /\ Honest

\* No step unmerges a branch.
LEMMA MergedStays ==
  ASSUME TypeOK, TargetKnown, [Next]_vars, NEW l \in Loops, branch[l] = "merged"
  PROVE  branch'[l] = "merged"
<1> USE DEF TypeOK
<1>1. CASE UNCHANGED branch
  BY <1>1
<1>2. ASSUME NEW r \in Ralphs, AgentMerges(r)
      PROVE  branch'[l] = "merged"
  BY <1>2, RalphType DEF AgentMerges
<1>3. ASSUME NEW u \in Users, DiscardRemove(u)
      PROVE  branch'[l] = "merged"
  BY <1>3 DEF DiscardRemove, TargetKnown, Busy
<1> QED BY <1>1, <1>2, <1>3
        DEF Next, vars, WorktreeStep, WorktreeCompletes, WorktreeEnqueued, WorktreeStops,
            InPlaceStep, RalphStep, Claim, Claimed, ClaimRefused, Land, Landed,
            LandRefused, Finish, GiveUp, ProcessQueue, Exit, AcquireLock, StartFails, Fails, CommandStep,
            DiscardWrite, MergeAdopted, ApiClaimed, ApiMerge, ApiMerged, Command,
            DiscardCheck, DiscardAbsent, Retry, Merge, MergeOrphan, ApiClaim, ApiForce, Kill

\* A call of the API goes on to say that its loop is merged, and then ends.
LEMMA ApiStays ==
  ASSUME TypeOK, [Next]_vars, NEW u \in Users, pc[u] \in {"api_merging", "api_merged"}
  PROVE  \/ pc'[u] = pc[u] /\ target'[u] = target[u]
         \/ ApiMerged(u)
<1> DEFINE Goal == \/ pc'[u] = pc[u] /\ target'[u] = target[u]
                   \/ ApiMerged(u)
<1> USE DEF TypeOK, Goto, Processes, GotoSpawning, Spawned, Begin
<1>0. Users \cap InPlace = {} /\ Users \cap Loops = {} /\ \A r \in Ralphs : r \in InPlace
  BY ProcessesAssumption DEF InPlace
<1>1. ASSUME NEW l \in Loops, WorktreeStep(l)
      PROVE  Goal
  BY <1>0, <1>1 DEF WorktreeStep, WorktreeCompletes, WorktreeEnqueued, WorktreeStops
<1>2. ASSUME NEW p \in InPlace, InPlaceStep(p)
      PROVE  Goal
  BY <1>0, <1>2 DEF InPlaceStep, RalphStep, Claim, Claimed, ClaimRefused, Land,
                    Landed, LandRefused, Finish, GiveUp, ProcessQueue, Exit
<1>3. ASSUME NEW r \in Ralphs, AcquireLock(r) \/ StartFails(r) \/ AgentMerges(r) \/ Fails(r)
      PROVE  Goal
  BY <1>0, <1>3 DEF AcquireLock, StartFails, AgentMerges, Fails
<1>4. ASSUME NEW v \in Users, CommandStep(v)
      PROVE  Goal
  BY <1>0, <1>4 DEF CommandStep, DiscardWrite, DiscardRemove, MergeAdopted, ApiClaimed,
                    ApiMerge, ApiMerged
<1>5. ASSUME NEW v \in Users, NEW l \in Loops, Command(v, l)
      PROVE  Goal
  BY <1>0, <1>5 DEF Command, DiscardCheck, DiscardAbsent, Retry, Merge, MergeOrphan,
                    ApiClaim, ApiForce
<1>6. ASSUME NEW p \in Processes, Kill(p)
      PROVE  Goal
  BY <1>0, <1>6 DEF Kill
<1> QED BY <1>1, <1>2, <1>3, <1>4, <1>5, <1>6 DEF Next, vars

LEMMA VouchedStays ==
  ASSUME TypeOK, TargetKnown, [Next]_vars, NEW l \in Loops, Vouched(l)
  PROVE  Vouched(l)'
<1>1. CASE branch[l] = "merged"
  BY <1>1, MergedStays DEF Vouched
<1>2. ASSUME NEW u \in Users, pc[u] = "api_merged", target[u] = l
      PROVE  Vouched(l)'
  BY <1>2, ApiStays DEF ApiMerged, Vouched
<1> QED BY <1>1, <1>2 DEF Vouched

\* A request that the step leaves alone stays honest.
LEMMA RequestStaysHonest ==
  ASSUME HonestInv, [Next]_vars, NEW q \in Processes, op'[q] = op[q]
  PROVE  RequestHonest(q)'
<1> SUFFICES ASSUME op[q] # Idle, op[q].event = "merged"
             PROVE  \/ branch'[op[q].loop] = "merged"
                    \/ q \in Users /\ pc'[q] = "api_merging" /\ target'[q] = op[q].loop
  BY DEF RequestHonest
<1>1. op[q].loop \in Loops
  BY DEF HonestInv, TypeOK, Q!TypeOK, Q!Requests
<1>2. CASE branch[op[q].loop] = "merged"
  BY <1>1, <1>2, MergedStays DEF HonestInv
<1>3. CASE q \in Users /\ pc[q] = "api_merging" /\ target[q] = op[q].loop
  <2>1. ~ApiMerged(q)
    BY DEF ApiMerged, Q!Write, HonestInv, TypeOK, Q!TypeOK
  <2> QED BY <1>3, <2>1, ApiStays DEF HonestInv
<1> QED BY <1>2, <1>3 DEF HonestInv, Honest, RequestHonest

\* The queue's part of a step is honest when a request to record a merge is.
LEMMA QueueHonest ==
  ASSUME HonestInv, [Next]_vars, NEW p \in Processes,
         \/ \E l \in Loops : \E e \in Q!MergeStates :
              /\ Q!Check(p, e, l)
              /\ e = "merged" => \/ branch[l] = "merged"
                                 \/ p \in Users /\ pc'[p] = "api_merging" /\ target'[p] = l
         \/ \E l \in Loops : Q!Enqueue(p, l)
         \/ /\ Q!Write(p) \/ Q!CrashBeforeWrite(p) \/ Q!CrashInsideWrite(p)
            /\ p \in Users /\ pc[p] = "api_merging" => ApiMerged(p)
         \/ UNCHANGED <<log, op>>
  PROVE  LinesVouched' /\ \A q \in Processes : RequestHonest(q)'
<1> USE DEF HonestInv
<1>1. /\ log \in Seq(Q!Lines)
      /\ op \in [Processes -> Q!Requests \cup {Idle}]
      /\ \A i \in 1..Len(log) : log[i] \in Q!Lines
  BY ElementOfSeq DEF TypeOK, Q!TypeOK
<1>2. /\ \A i \in 1..Len(log) : log[i].loop \in Loops
      /\ \A q \in Processes : op[q] # Idle => op[q].loop \in Loops
  BY <1>1 DEF Q!Lines, Q!Requests
<1>3. \A i \in 1..Len(log) : log[i].event = "merged" =>
             \E l \in Loops : l = log[i].loop /\ Vouched(l)'
  <2>1. \A l \in Loops : Vouched(l) => Vouched(l)'
    BY VouchedStays
  <2> QED BY <1>2, <2>1 DEF Honest, LinesVouched
<1>4. \A q \in Processes : op'[q] = op[q] => RequestHonest(q)'
  BY RequestStaysHonest
<1>5. CASE log' = log /\ op' = op
  <2>1. LinesVouched'
    BY <1>3, <1>5 DEF LinesVouched
  <2> QED BY <1>4, <1>5, <2>1
<1>6. CASE Q!CrashBeforeWrite(p)
  <2>1. \A q \in Processes \ {p} : op'[q] = op[q]
    BY <1>1, <1>6 DEF Q!CrashBeforeWrite
  <2>2. op'[p] = Idle /\ log' = log
    BY <1>1, <1>6 DEF Q!CrashBeforeWrite
  <2>3. RequestHonest(p)'
    BY <2>2 DEF RequestHonest
  <2> QED BY <1>3, <1>4, <2>1, <2>2, <2>3 DEF LinesVouched
<1>7. CASE \E l \in Loops : Q!Enqueue(p, l)
  <2>1. \A q \in Processes \ {p} : op'[q] = op[q]
    BY <1>1, <1>7 DEF Q!Enqueue
  <2>2. op'[p].event = "queued" /\ log' = log
    BY <1>1, <1>7 DEF Q!Enqueue
  <2>3. RequestHonest(p)'
    BY <2>2 DEF RequestHonest
  <2> QED BY <1>3, <1>4, <2>1, <2>2, <2>3 DEF LinesVouched
<1>8. ASSUME NEW l \in Loops, NEW e \in Q!MergeStates, Q!Check(p, e, l),
             e = "merged" => \/ branch[l] = "merged"
                             \/ p \in Users /\ pc'[p] = "api_merging" /\ target'[p] = l
      PROVE  LinesVouched' /\ \A q \in Processes : RequestHonest(q)'
  <2>1. \A q \in Processes \ {p} : op'[q] = op[q]
    BY <1>1, <1>8 DEF Q!Check
  <2>2. op'[p] = [loop |-> l, event |-> e] /\ log' = log
    BY <1>1, <1>8 DEF Q!Check
  <2>3. branch[l] = "merged" => branch'[l] = "merged"
    BY MergedStays
  <2>4. RequestHonest(p)'
    BY <1>8, <2>2, <2>3 DEF RequestHonest
  <2> QED BY <1>3, <1>4, <2>1, <2>2, <2>4 DEF LinesVouched
<1>9. CASE /\ Q!Write(p) \/ Q!CrashInsideWrite(p)
           /\ p \in Users /\ pc[p] = "api_merging" => ApiMerged(p)
  <2>1. PICK b \in BOOLEAN : /\ op[p] # Idle
                             /\ log' = Append(log, Q!Line(p, b))
                             /\ op' = [op EXCEPT ![p] = Idle]
    BY <1>9 DEF Q!Write, Q!CrashInsideWrite
  <2> DEFINE ln == Q!Line(p, b)
  <2>2. ln.loop = op[p].loop /\ ln.event = op[p].event /\ ln \in Q!Lines
    BY <1>1, <2>1 DEF Q!Line, Q!Lines, Q!Requests
  <2> HIDE DEF ln
  <2>3. /\ Len(log') = Len(log) + 1 /\ Len(log) \in Nat
        /\ \A i \in 1..Len(log) : log'[i] = log[i]
        /\ log'[Len(log) + 1] = ln
    BY <1>1, <2>1, <2>2, AppendProperties, LenProperties DEF ln
  <2>4. op[p].event = "merged" => \E l \in Loops : l = op[p].loop /\ Vouched(l)'
    <3> SUFFICES ASSUME NEW l \in Loops, l = op[p].loop, op[p].event = "merged"
                 PROVE  Vouched(l)'
      BY <1>2, <2>1
    <3>1. CASE branch[l] = "merged"
      BY <3>1, MergedStays DEF Vouched
    <3>2. CASE p \in Users /\ pc[p] = "api_merging" /\ target[p] = l
      BY <1>9, <3>2 DEF ApiMerged, Goto, TypeOK, Vouched, Processes
    <3> QED BY <2>1, <3>1, <3>2 DEF Honest, RequestHonest
  <2>5. LinesVouched'
    <3> SUFFICES ASSUME NEW i \in 1..Len(log'), log'[i].event = "merged"
                 PROVE  \E l \in Loops : l = log'[i].loop /\ Vouched(l)'
      BY DEF LinesVouched
    <3>1. CASE i = Len(log) + 1
      BY <2>2, <2>3, <2>4, <3>1
    <3>2. CASE i \in 1..Len(log)
      BY <1>3, <2>3, <3>2
    <3> QED BY <2>3, <3>1, <3>2
  <2>6. \A q \in Processes \ {p} : op'[q] = op[q]
    BY <1>1, <2>1
  <2>7. RequestHonest(p)'
    BY <1>1, <2>1 DEF RequestHonest
  <2> QED BY <1>4, <2>5, <2>6, <2>7
<1> QED BY <1>5, <1>6, <1>7, <1>8, <1>9

\* A merge-ralph is about to report success only if the branch is merged.
LEMMA LandingHonest ==
  ASSUME HonestInv, [Next]_vars
  PROVE  \A r \in Ralphs : pc'[r] = "landing_ok" => branch'[r[1]] = "merged"
<1> SUFFICES ASSUME NEW r \in Ralphs, pc'[r] = "landing_ok"
             PROVE  branch'[r[1]] = "merged"
  OBVIOUS
<1>1. branch[r[1]] = "merged" => branch'[r[1]] = "merged"
  BY MergedStays, RalphType DEF HonestInv
<1>2. CASE pc[r] = "landing_ok"
  BY <1>1, <1>2 DEF HonestInv, Honest
<1>3. CASE pc[r] # "landing_ok"
  <2>1. Finish(r)
    <3> USE DEF TypeOK, HonestInv, Goto, GotoSpawning, Begin, Processes, PCs
    <3>0. r \in Processes
      BY RalphType
    <3>1. ASSUME NEW l \in Loops, WorktreeStep(l) PROVE FALSE
      BY <1>3, <3>0, <3>1 DEF WorktreeStep, WorktreeCompletes, WorktreeEnqueued, WorktreeStops
    <3>2. ASSUME NEW p \in InPlace, InPlaceStep(p) PROVE Finish(r)
      BY <1>3, <3>0, <3>2 DEF InPlaceStep, RalphStep, Claim, Claimed,
         ClaimRefused, Land, Landed, LandRefused, Finish, GiveUp, ProcessQueue, Exit, InPlace
    <3>3. ASSUME NEW q \in Ralphs, AcquireLock(q) \/ StartFails(q) \/ AgentMerges(q) \/ Fails(q) PROVE FALSE
      BY <1>3, <3>0, <3>3 DEF AcquireLock, StartFails, AgentMerges, Fails
    <3>4. ASSUME NEW u \in Users, CommandStep(u) PROVE FALSE
      BY <1>3, <3>0, <3>4 DEF CommandStep, DiscardWrite, DiscardRemove, MergeAdopted,
                              ApiClaimed, ApiMerge, ApiMerged
    <3>5. ASSUME NEW u \in Users, NEW l \in Loops, Command(u, l) PROVE FALSE
      BY <1>3, <3>0, <3>5 DEF Command, DiscardCheck, DiscardAbsent, Retry, Merge,
                              MergeOrphan, ApiClaim, ApiForce
    <3>6. ASSUME NEW p \in Processes, Kill(p) PROVE FALSE
      BY <1>3, <3>0, <3>6 DEF Kill
    <3> QED BY <1>3, <3>1, <3>2, <3>3, <3>4, <3>5, <3>6 DEF Next, vars
  <2> QED BY <1>1, <2>1 DEF Finish
<1> QED BY <1>2, <1>3

LEMMA HonestStep ==
  ASSUME HonestInv, [Next]_vars
  PROVE  HonestInv'
<1> DEFINE Good == LinesVouched' /\ \A q \in Processes : RequestHonest(q)'
<1>0. TypeOK' /\ TargetKnown'
  BY TypeInductive DEF HonestInv
<1>00. Users \cap InPlace = {} /\ Users \cap Loops = {} /\ \A r \in Ralphs : r \in InPlace
  BY ProcessesAssumption DEF InPlace, Processes
<1>1. ASSUME NEW l \in Loops, WorktreeStep(l)
      PROVE  Good
  <2>1. l \in Processes
    BY DEF Processes
  <2> QED BY <1>00, <1>1, <2>1, QueueHonest
          DEF WorktreeStep, WorktreeCompletes, WorktreeEnqueued, WorktreeStops
<1>2. ASSUME NEW r \in Ralphs, RalphStep(r)
      PROVE  Good
  <2>1. r \in Processes /\ r[1] \in Loops /\ r \notin Users
    BY <1>00, RalphType
  <2>2. CASE ClaimRefused(r) \/ LandRefused(r)
    BY <2>1, <2>2, QueueHonest DEF ClaimRefused, LandRefused
  <2>3. CASE Claim(r) \/ Claimed(r) \/ Landed(r)
    BY <2>1, <2>3, QueueHonest DEF Claim, Claimed, Landed, Q!MergeStates
  <2>4. CASE Land(r)
    <3>1. PICK e \in Outcomes(r) : Q!Check(r, e, r[1])
      BY <2>4 DEF Land
    <3>2. e \in Q!MergeStates /\ (e = "merged" => branch[r[1]] = "merged")
      BY <3>1 DEF Outcomes, HonestInv, Honest, Q!MergeStates
    <3> QED BY <2>1, <3>1, <3>2, QueueHonest
  <2> QED BY <1>2, <2>2, <2>3, <2>4 DEF RalphStep
<1>3. ASSUME NEW p \in InPlace, InPlaceStep(p)
      PROVE  Good
  <2>1. p \in Processes
    BY DEF Processes
  <2> QED BY <1>2, <1>3, <2>1, QueueHonest DEF InPlaceStep, Finish, GiveUp, ProcessQueue, Exit
<1>4. ASSUME NEW r \in Ralphs, AcquireLock(r) \/ StartFails(r) \/ AgentMerges(r) \/ Fails(r)
      PROVE  Good
  BY <1>4, RalphType, QueueHonest DEF AcquireLock, StartFails, AgentMerges, Fails
<1>5. ASSUME NEW u \in Users, CommandStep(u)
      PROVE  Good
  <2>1. u \in Processes /\ pc \in [Processes -> PCs]
    BY DEF Processes, HonestInv, TypeOK
  <2>2. CASE DiscardWrite(u) \/ MergeAdopted(u) \/ ApiClaimed(u) \/ ApiMerged(u)
    <3>1. Q!Write(u) /\ (pc[u] = "api_merging" => ApiMerged(u))
      BY <2>2 DEF DiscardWrite, MergeAdopted, ApiClaimed, ApiMerged
    <3> QED BY <2>1, <3>1, QueueHonest
  <2>3. CASE DiscardRemove(u)
    BY <2>1, <2>3, QueueHonest DEF DiscardRemove
  <2>4. CASE Q!Check(u, "merged", target[u]) /\ Goto(u, "api_merging") /\ ApiMerge(u)
    <3>1. target[u] \in Loops /\ target'[u] = target[u] /\ pc'[u] = "api_merging"
      BY <2>1, <2>4 DEF ApiMerge, HonestInv, TargetKnown, Busy, Goto
    <3> QED BY <2>1, <2>4, <3>1, QueueHonest DEF Q!MergeStates
  <2>5. CASE UNCHANGED <<log, op>> /\ ApiMerge(u)
    BY <2>1, <2>5, QueueHonest
  <2> QED BY <1>5, <2>2, <2>3, <2>4, <2>5 DEF CommandStep, ApiMerge
<1>6. ASSUME NEW u \in Users, NEW l \in Loops, Command(u, l)
      PROVE  Good
  <2>1. u \in Processes /\ pc \in [Processes -> PCs] /\ target \in [Users -> Loops \cup {Idle}]
    BY DEF Processes, HonestInv, TypeOK
  <2>2. CASE ApiForce(u, l)
    <3>1. pc'[u] = "api_merging" /\ target'[u] = l
      BY <2>1, <2>2 DEF ApiForce, Begin, Goto
    <3> QED BY <2>1, <2>2, <3>1, QueueHonest DEF ApiForce, Q!MergeStates
  <2>3. CASE DiscardCheck(u, l) \/ MergeOrphan(u, l) \/ ApiClaim(u, l)
    BY <2>1, <2>3, QueueHonest DEF DiscardCheck, MergeOrphan, ApiClaim, Q!MergeStates
  <2>4. CASE DiscardAbsent(u, l) \/ Retry(u, l) \/ Merge(u, l)
    BY <2>1, <2>4, QueueHonest DEF DiscardAbsent, Retry, Merge
  <2> QED BY <1>6, <2>2, <2>3, <2>4 DEF Command
<1>7. ASSUME NEW p \in Processes, Kill(p)
      PROVE  Good
  BY <1>7, QueueHonest DEF Kill
<1>8. ASSUME UNCHANGED vars
      PROVE  Good
  <2>1. \E p : p \in Processes
    BY DEF Processes, InPlace
  <2> QED BY <1>8, <2>1, QueueHonest DEF vars
<1>9. Good
  <2> HIDE DEF Good
  <2> QED
   BY <1>1, <1>3, <1>4, <1>5, <1>6, <1>7, <1>8 DEF Next
<1> QED BY <1>0, <1>9, LandingHonest DEF HonestInv, Honest

\* The invariant implies the property: a state is the event of a line.
LEMMA HonestMergedIsMerged == HonestInv => MergedIsMerged
<1> SUFFICES ASSUME HonestInv, NEW l \in Loops, State(l) = "merged"
             PROVE  Vouched(l)
  BY DEF MergedIsMerged, Vouched
<1>1. log \in Seq(QP!Lines)
  BY DEF HonestInv, TypeOK, Q!TypeOK, Q!Lines, QP!Lines, Q!MergeStates, QP!MergeStates
<1>2. QP!StateIn(log, l) = "merged" /\ QP!StateIn(log, l) # QP!Absent
  BY DEF State, Q!StateIn, QP!StateIn, Q!IsLastOf, QP!IsLastOf, Q!Absent, QP!Absent
<1>3. PICK i \in 1..Len(log) : log[i].loop = l /\ log[i].event = QP!StateIn(log, l)
  BY <1>1, <1>2, AssumptionsHold, QP!StateIsALine
     DEF Assumptions, Q!Requests, QP!Requests, Q!MergeStates, QP!MergeStates
<1> QED BY <1>2, <1>3 DEF HonestInv, Honest, LinesVouched

\* An entry is reported as merged only when its branch is in main or the API's
\* loop.merge said so: refused claims, merge-ralphs that run twice for a loop,
\* races with discard, crashes, failures and torn lines do not make it lie.
THEOREM QueueIsHonest == Spec => []MergedIsMerged
<1>1. Init => HonestInv
  <2> SUFFICES ASSUME Init PROVE HonestInv
    OBVIOUS
  <2>1. TypeOK /\ TargetKnown
    BY InitTypes
  <2>2. \A r \in Ralphs : pc[r] = "unborn"
    BY RalphType DEF Init
  <2>3. log = << >> /\ \A p \in Processes : op[p] = Idle
    BY DEF Init, Q!Init
  <2> QED BY <2>1, <2>2, <2>3 DEF HonestInv, Honest, LinesVouched, RequestHonest
<1>2. HonestInv /\ [Next]_vars => HonestInv'
  BY HonestStep
<1> QED BY <1>1, <1>2, HonestMergedIsMerged, PTL DEF Spec
-----------------------------------------------------------------------------
(* Who is to settle an entry that is being merged: what MergingIsResolved    *)
(* rests on, fairness and the processes' progress apart                      *)

\* p is past its claim of l and is still to record how it ended ...
Lander(p, l) ==
  \/ /\ p \in Ralphs /\ p[1] = l
     /\ pc[p] \in {"working", "landing_ok", "landing_bad", "recording_ok", "recording_bad"}
  \/ /\ p \in Users /\ target[p] = l
     /\ pc[p] \in {"api_claimed", "api_merging"}
\* ... or it was spawned to merge l and was killed or failed.
Deserter(p, l) == p \in Ralphs /\ p[1] = l /\ pc[p] = "dead"

Answers(p, l) == Lander(p, l) \/ Deserter(p, l)

MergingIsOwned ==
  Q!Readable(log) =>
    \A l \in Loops : State(l) = "merging" => \E p \in Processes : Answers(p, l)

\* What p's accepted request says, by where p is.
RequestKnown(p) ==
  /\ p \in Ralphs /\ pc[p] = "claiming" => op[p] = [loop |-> p[1], event |-> "merging"]
  /\ p \in Ralphs /\ pc[p] \in {"recording_ok", "recording_bad"} =>
       op[p].loop = p[1] /\ op[p].event # "merging"
  /\ p \in Users /\ pc[p] = "api_claiming" =>
       op[p] = [loop |-> target[p], event |-> "merging"]
  /\ p \in Users /\ pc[p] = "api_merging" =>
       op[p] = [loop |-> target[p], event |-> "merged"]
  /\ op[p] # Idle /\ op[p].event = "merging" =>
       \/ p \in Ralphs /\ pc[p] = "claiming"
       \/ p \in Users /\ pc[p] = "api_claiming"

OwnedInv ==
  /\ TypeOK /\ TargetKnown
  /\ \A p \in Processes : RequestKnown(p)
  /\ MergingIsOwned

\* What a step of p leaves of the others: pc, requests and targets stay, but
\* for the merge-ralphs that p brings to life.
OthersStay(p) ==
  \A q \in Processes \ {p} :
    /\ op'[q] = op[q]
    /\ pc'[q] = pc[q] \/ (pc[q] = "unborn" /\ pc'[q] = "waiting")
    /\ q \in Users => target'[q] = target[q]

\* How a step of p may change the queue: not at all, by one accepted request of
\* p, or by the line of p's request.
Unwritten(p) == log' = log
Written(p) == /\ op[p] # Idle /\ op'[p] = Idle
              /\ \E b \in BOOLEAN : log' = Append(log, Q!Line(p, b))

LEMMA OthersKnown ==
  ASSUME NEW p \in Processes, OthersStay(p), NEW q \in Processes \ {p},
         RequestKnown(q), pc \in [Processes -> PCs]
  PROVE  RequestKnown(q)'
<1>1. /\ op'[q] = op[q]
      /\ pc'[q] = pc[q] \/ (pc[q] = "unborn" /\ pc'[q] = "waiting")
      /\ q \in Users => target'[q] = target[q]
  BY DEF OthersStay
<1>2. CASE pc'[q] = pc[q]
  BY <1>1, <1>2 DEF RequestKnown
<1>3. CASE pc[q] = "unborn" /\ pc'[q] = "waiting"
  BY <1>1, <1>3 DEF RequestKnown
<1> QED BY <1>1, <1>2, <1>3

LEMMA OthersLand ==
  ASSUME NEW p \in Processes, OthersStay(p), NEW q \in Processes \ {p}, NEW l,
         Answers(q, l)
  PROVE  Answers(q, l)'
BY DEF OthersStay, Answers, Lander, Deserter

\* The line of p's request is written after what is there.
LEMMA WrittenLine ==
  ASSUME TypeOK, NEW p \in Processes, Written(p)
  PROVE  ~Unwritten(p) /\ (Q!Readable(log') => Q!Readable(log))
<1>0. PICK b \in BOOLEAN : log' = Append(log, Q!Line(p, b))
  BY DEF Written
<1> DEFINE ln == Q!Line(p, b)
<1>1. log \in Seq(Q!Lines) /\ ln \in Q!Lines
  BY DEF TypeOK, Q!TypeOK, Q!Line, Q!Lines, Q!Requests, Written
<1>2. log' = Append(log, ln)
  BY <1>0
<1> HIDE DEF ln
<1>3. /\ Len(log') = Len(log) + 1 /\ Len(log) \in Nat
      /\ \A i \in 1..Len(log) : log'[i] = log[i]
  BY <1>1, <1>2, AppendProperties, LenProperties
<1> QED BY <1>3 DEF Unwritten, Q!Readable

\* A line that is written moves its loop to its event and no other loop.
LEMMA StateWhenWritten ==
  ASSUME TypeOK, NEW p \in Processes, Written(p), NEW l \in Loops
  PROVE  State(l)' = IF op[p].loop = l THEN op[p].event ELSE State(l)
<1>0. PICK b \in BOOLEAN : log' = Append(log, Q!Line(p, b))
  BY DEF Written
<1> DEFINE ln == Q!Line(p, b)
<1>1. log \in Seq(QP!Lines) /\ op[p] \in Q!Requests
  BY DEF TypeOK, Q!TypeOK, Q!Lines, QP!Lines, Q!MergeStates, QP!MergeStates, Written
<1>2. ln \in QP!Lines /\ ln.loop = op[p].loop /\ ln.event = op[p].event
  BY <1>1 DEF Q!Line, QP!Lines, Q!Requests, Q!MergeStates, QP!MergeStates
<1>20. log' = Append(log, ln)
  BY <1>0
<1> HIDE DEF ln
<1>3. QP!StateIn(Append(log, ln), l)
        = IF ln.loop = l THEN ln.event ELSE QP!StateIn(log, l)
  <2>1. MaxLog \in Nat /\ Idle \notin QP!Requests
    BY AssumptionsHold DEF Assumptions, Q!Requests, QP!Requests, Q!MergeStates, QP!MergeStates
  <2> QED BY <1>1, <1>2, <2>1, QP!StateAfterAppend
<1>4. \A lg : Q!StateIn(lg, l) = QP!StateIn(lg, l)
  BY DEF Q!StateIn, QP!StateIn, Q!IsLastOf, QP!IsLastOf, Q!Absent, QP!Absent
<1>5. State(l)' = Q!StateIn(log', l) /\ State(l) = Q!StateIn(log, l)
  BY DEF State, Q!StateIn, Q!IsLastOf, Q!Absent
<1> QED BY <1>2, <1>20, <1>3, <1>4, <1>5

\* An entry keeps who answers for it when the step of p settles it, or p goes on
\* to answer for it, or begins to with its claim.
LEMMA OwnedStep ==
  ASSUME OwnedInv, NEW p \in Processes, OthersStay(p),
         TypeOK', TargetKnown', RequestKnown(p)',
         \/ /\ Unwritten(p)
            /\ \A l \in Loops : Q!Readable(log) /\ State(l) = "merging" =>
                                   (Answers(p, l) => Answers(p, l)')
         \/ /\ Written(p)
            /\ \A l \in Loops :
                 \/ op[p].loop = l /\ (op[p].event = "merging" => Answers(p, l)')
                 \/ op[p].loop # l /\ (Answers(p, l) => Answers(p, l)')
  PROVE  OwnedInv'
<1>1. \A q \in Processes : RequestKnown(q)'
  BY OthersKnown DEF OwnedInv, TypeOK
<1>2. MergingIsOwned'
  <2> SUFFICES ASSUME Q!Readable(log'), NEW l \in Loops, State(l)' = "merging"
               PROVE  \E q \in Processes : Answers(q, l)'
    BY DEF MergingIsOwned, Q!Readable
  <2>1. Q!Readable(log) /\ State(l) = "merging" => \E q \in Processes : Answers(q, l)
    BY DEF OwnedInv, MergingIsOwned
  <2>2. CASE Unwritten(p)
    <3>1. State(l) = "merging"
      BY <2>2 DEF Unwritten, State, Q!StateIn, Q!IsLastOf, Q!Absent
    <3>2. ~Written(p) /\ Q!Readable(log)
      BY <2>2, WrittenLine DEF OwnedInv, Unwritten
    <3>3. PICK q \in Processes : Answers(q, l)
      BY <2>1, <3>1, <3>2
    <3> QED BY <3>1, <3>2, <3>3, OthersLand
  <2>3. CASE Written(p)
    <3>1. State(l)' = IF op[p].loop = l THEN op[p].event ELSE State(l)
      BY <2>3, StateWhenWritten DEF OwnedInv
    <3>0. ~Unwritten(p) /\ Q!Readable(log)
      BY <2>3, WrittenLine DEF OwnedInv
    <3>2. CASE op[p].loop = l
      <4>1. op[p].event = "merging"
        BY <3>1, <3>2
      <4>2. Answers(p, l)'
        BY <3>0, <3>2, <4>1
      <4> QED BY <4>2
    <3>3. CASE op[p].loop # l
      <4>1. State(l) = "merging"
        BY <3>1, <3>3
      <4>2. PICK q \in Processes : Answers(q, l)
        BY <2>1, <3>0, <4>1
      <4>3. CASE q = p
        <5>1. Answers(p, l) => Answers(p, l)'
          BY <3>0, <3>3
        <5> QED BY <4>2, <4>3, <5>1
      <4> QED BY <4>2, <4>3, OthersLand
    <3> QED BY <3>2, <3>3
  <2> QED BY <2>2, <2>3
<1> QED BY <1>1, <1>2 DEF OwnedInv

LEMMA GotoLeavesOthers ==
  ASSUME TypeOK, NEW p \in Processes, UNCHANGED target,
         \A q \in Processes \ {p} : op'[q] = op[q],
         \/ \E x \in PCs : Goto(p, x)
         \/ \E x \in PCs, S \in SUBSET Loops : GotoSpawning(p, x, Spawned(S))
  PROVE  OthersStay(p)
BY DEF OthersStay, TypeOK, Goto, GotoSpawning, Spawned

LEMMA BeginLeavesOthers ==
  ASSUME TypeOK, NEW u \in Users, NEW l \in Loops, NEW x \in PCs, Begin(u, l, x),
         \A q \in Processes \ {u} : op'[q] = op[q]
  PROVE  OthersStay(u)
BY DEF OthersStay, TypeOK, Goto, Begin

\* A queue operation of p is about p's request alone.
LEMMA RequestOfOne ==
  ASSUME TypeOK, NEW p \in Processes
  PROVE  /\ \A e, l : Q!Check(p, e, l) =>
              /\ Unwritten(p) /\ op'[p] = [loop |-> l, event |-> e]
              /\ \A q \in Processes \ {p} : op'[q] = op[q]
         /\ \A l : Q!Enqueue(p, l) =>
              /\ Unwritten(p) /\ op'[p] = [loop |-> l, event |-> "queued"]
              /\ \A q \in Processes \ {p} : op'[q] = op[q]
         /\ Q!Write(p) => /\ Written(p)
                          /\ \A q \in Processes \ {p} : op'[q] = op[q]
         /\ UNCHANGED <<log, op>> => /\ Unwritten(p) /\ op'[p] = op[p]
                                     /\ \A q \in Processes \ {p} : op'[q] = op[q]
BY DEF TypeOK, Q!TypeOK, Q!Check, Q!Enqueue, Q!Write, Unwritten, Written

\* An outcome is refused only to an entry that is not being merged.
LEMMA OutcomeAccepted ==
  ASSUME Q!Readable(log), NEW l \in Loops, State(l) = "merging"
  PROVE  Q!Accepts("merged", l) /\ Q!Accepts("needs_review", l)
<1>1. Q!StateIn(log, l) = "merging"
  BY DEF State, Q!StateIn, Q!IsLastOf, Q!Absent
<1> QED BY <1>1 DEF Q!Accepts, Q!AllowedFrom

\* Away from the places where a request is about a claim or an outcome there is
\* little to know.
LEMMA PlainKnown ==
  ASSUME NEW p \in Processes, op'[p] = Idle \/ op'[p].event # "merging",
         pc'[p] \notin {"claiming", "recording_ok", "recording_bad", "api_claiming", "api_merging"}
  PROVE  RequestKnown(p)'
BY DEF RequestKnown

LEMMA OwnedInductive == OwnedInv /\ [Next]_vars => OwnedInv'
<1> SUFFICES ASSUME OwnedInv, [Next]_vars PROVE OwnedInv'
  OBVIOUS
<1>0. /\ TypeOK /\ TargetKnown /\ TypeOK' /\ TargetKnown'
      /\ pc \in [Processes -> PCs] /\ target \in [Users -> Loops \cup {Idle}]
      /\ \A p \in Processes : RequestKnown(p)
      /\ Users \cap InPlace = {} /\ Users \cap Loops = {} /\ Loops \cap InPlace = {}
      /\ \A l \in Loops : l \in Processes
      /\ \A p \in InPlace : p \in Processes
      /\ \A u \in Users : u \in Processes
      /\ \A r \in Ralphs : r \in Processes /\ r \in InPlace /\ r[1] \in Loops
  BY ProcessesAssumption, RalphType, TypeInductive DEF OwnedInv, TypeOK, InPlace, Processes
<1>1. ASSUME NEW l \in Loops, WorktreeStep(l)
      PROVE  OwnedInv'
  <2>0. \A m \in Loops : ~Answers(l, m)
    BY <1>0 DEF Answers, Lander, Deserter
  <2>1. OthersStay(l) /\ pc'[l] \in {"enqueuing", "exited"}
        /\ pc[l] \in {"working", "enqueuing"}
    BY <1>0, <1>1, RequestOfOne, GotoLeavesOthers
       DEF WorktreeStep, WorktreeCompletes, WorktreeEnqueued, WorktreeStops, PCs, Goto
  <2>2. op[l] # Idle => op[l].event # "merging"
    BY <1>0, <2>1 DEF RequestKnown
  <2>3. /\ Unwritten(l) \/ Written(l)
        /\ op'[l] = Idle \/ op'[l].event # "merging"
    <3>1. CASE WorktreeCompletes(l)
      <4>1. Unwritten(l) /\ op'[l] = [loop |-> l, event |-> "queued"]
        BY <1>0, <3>1, RequestOfOne DEF WorktreeCompletes
      <4> QED BY <4>1
    <3>2. CASE WorktreeEnqueued(l)
      BY <1>0, <3>2, RequestOfOne DEF WorktreeEnqueued, Written
    <3>3. CASE WorktreeStops(l)
      <4>1. Unwritten(l) /\ op'[l] = op[l]
        BY <1>0, <3>3, RequestOfOne DEF WorktreeStops
      <4> QED BY <2>2, <4>1
    <3> QED BY <1>1, <3>1, <3>2, <3>3 DEF WorktreeStep
  <2>4. RequestKnown(l)'
    BY <1>0, <2>1, <2>3, PlainKnown
  <2>5. Written(l) => op[l].event # "merging"
    BY <2>2 DEF Written
  <2> QED BY <1>0, <2>0, <2>1, <2>3, <2>4, <2>5, OwnedStep
<1>2. ASSUME NEW r \in Ralphs, RalphStep(r)
      PROVE  OwnedInv'
  <2>0. /\ OthersStay(r) /\ r \notin Users /\ r \in Processes
        /\ r[1] \in Loops /\ pc' = [pc EXCEPT ![r] = pc'[r]]
    BY <1>0, <1>2, RequestOfOne, GotoLeavesOthers
       DEF RalphStep, Claim, Claimed, ClaimRefused, Land, Landed, LandRefused, PCs, Goto
  <2>1. CASE Claim(r)
    <3>1. Unwritten(r) /\ RequestKnown(r)' /\ \A l \in Loops : ~Answers(r, l)
      BY <1>0, <2>0, <2>1, RequestOfOne DEF Claim, Goto, RequestKnown, Answers, Lander, Deserter
    <3> QED BY <1>0, <2>0, <3>1, OwnedStep
  <2>2. CASE Claimed(r)
    <3>1. op[r] = [loop |-> r[1], event |-> "merging"] /\ \A l \in Loops : ~Answers(r, l)
      BY <1>0, <2>0, <2>2 DEF Claimed, RequestKnown, Answers, Lander, Deserter
    <3>2. Written(r) /\ op[r].loop = r[1] /\ op'[r] = Idle
      <4>1. Written(r)
        BY <1>0, <2>0, <2>2, RequestOfOne DEF Claimed
      <4> QED BY <3>1, <4>1 DEF Written
    <3>3. RequestKnown(r)' /\ Answers(r, r[1])'
      BY <1>0, <2>0, <2>2, <3>2, PlainKnown DEF Claimed, Goto, Answers, Lander, Deserter
    <3> QED BY <1>0, <2>0, <3>1, <3>2, <3>3, OwnedStep
  <2>3. CASE ClaimRefused(r)
    <3>1. op[r] # Idle => op[r].event # "merging"
      BY <1>0, <2>0, <2>3 DEF ClaimRefused, RequestKnown
    <3>2. Unwritten(r) /\ op'[r] = op[r] /\ \A l \in Loops : ~Answers(r, l)
      BY <1>0, <2>0, <2>3, RequestOfOne DEF ClaimRefused, Answers, Lander, Deserter
    <3>3. RequestKnown(r)'
      BY <1>0, <2>0, <2>3, <3>1, <3>2, PlainKnown DEF ClaimRefused, Goto
    <3> QED BY <1>0, <2>0, <3>2, <3>3, OwnedStep
  <2>4. CASE Land(r)
    <3>1. PICK e \in Outcomes(r) : Q!Check(r, e, r[1])
      BY <2>4 DEF Land
    <3>2. Unwritten(r) /\ op'[r] = [loop |-> r[1], event |-> e]
      BY <1>0, <2>0, <3>1, RequestOfOne
    <3>3. e # "merging"
      BY <3>1 DEF Outcomes
    <3>4. pc'[r] \in {"recording_ok", "recording_bad"}
      BY <1>0, <2>0, <2>4 DEF Land, Goto
    <3>5. /\ Unwritten(r) /\ op'[r].loop = r[1] /\ op'[r].event # "merging"
      BY <3>2, <3>3
    <3>6. RequestKnown(r)'
      BY <2>0, <3>4, <3>5 DEF RequestKnown
    <3>7. \A l \in Loops : Answers(r, l) => Answers(r, l)'
      BY <2>0, <3>4 DEF Answers, Lander, Deserter
    <3> QED BY <1>0, <2>0, <3>5, <3>6, <3>7, OwnedStep
  <2>5. CASE Landed(r)
    <3>1. Written(r) /\ op[r].loop = r[1] /\ op[r].event # "merging"
      BY <1>0, <2>0, <2>5, RequestOfOne DEF Landed, RequestKnown
    <3>2. RequestKnown(r)'
      BY <1>0, <2>0, <2>5, <3>1, PlainKnown DEF Landed, Goto, Written
    <3>3. \A l \in Loops : l # r[1] => ~Answers(r, l)
      BY <2>0 DEF Answers, Lander, Deserter
    <3> QED BY <1>0, <2>0, <3>1, <3>2, <3>3, OwnedStep
  <2>6. CASE LandRefused(r)
    <3>1. op[r] # Idle => op[r].event # "merging"
      BY <1>0, <2>0, <2>6 DEF LandRefused, RequestKnown
    <3>2. Unwritten(r) /\ op'[r] = op[r]
      BY <1>0, <2>0, <2>6, RequestOfOne DEF LandRefused
    <3>3. RequestKnown(r)'
      BY <1>0, <2>0, <2>6, <3>1, <3>2, PlainKnown DEF LandRefused, Goto
    <3>4. \A l \in Loops : Q!Readable(log) /\ State(l) = "merging" => ~Answers(r, l)
      <4>1. ASSUME Q!Readable(log), State(r[1]) = "merging"
            PROVE  FALSE
        BY <1>0, <2>0, <2>6, <4>1, OutcomeAccepted DEF LandRefused, Outcomes
      <4> QED BY <2>0, <4>1 DEF Answers, Lander, Deserter
    <3> QED BY <1>0, <2>0, <3>2, <3>3, <3>4, OwnedStep
  <2> QED BY <1>2, <2>1, <2>2, <2>3, <2>4, <2>5, <2>6 DEF RalphStep
<1>3. ASSUME NEW p \in InPlace, Finish(p) \/ GiveUp(p) \/ ProcessQueue(p) \/ Exit(p)
      PROVE  OwnedInv'
  <2>0. p \in Processes /\ p \notin Users
    BY <1>0
  <2>1. /\ pc[p] \in {"working", "processing", "exiting"}
        /\ pc'[p] \in {"landing_ok", "landing_bad", "processing", "exiting", "exited"}
        /\ p \in Ralphs /\ pc[p] = "working" => pc'[p] \in {"landing_ok", "landing_bad"}
    BY <1>0, <1>3, <2>0 DEF Finish, GiveUp, ProcessQueue, Exit, Goto, GotoSpawning
  <2>2. Unwritten(p) /\ op'[p] = op[p]
    BY <1>0, <1>3, <2>0, RequestOfOne DEF Finish, GiveUp, ProcessQueue, Exit
  <2>3. OthersStay(p)
    <3>1. CASE Finish(p) \/ GiveUp(p) \/ Exit(p)
      BY <1>0, <2>0, <3>1, RequestOfOne, GotoLeavesOthers DEF Finish, GiveUp, Exit, PCs
    <3>2. CASE ProcessQueue(p)
      <4>1. \E S \in SUBSET Loops : GotoSpawning(p, "exiting", Spawned(S))
        BY <3>2 DEF ProcessQueue
      <4> QED BY <1>0, <2>0, <3>2, <4>1, RequestOfOne, GotoLeavesOthers DEF ProcessQueue, PCs
    <3> QED BY <1>3, <3>1, <3>2
  <2>4. RequestKnown(p)'
    <3>1. op[p] # Idle => op[p].event # "merging"
      BY <1>0, <2>0, <2>1 DEF RequestKnown
    <3> QED BY <2>0, <2>1, <2>2, <3>1, PlainKnown
  <2>5. \A l \in Loops : Answers(p, l) => Answers(p, l)'
    BY <2>0, <2>1 DEF Answers, Lander, Deserter
  <2> QED BY <1>0, <2>0, <2>2, <2>3, <2>4, <2>5, OwnedStep
<1>4. ASSUME NEW r \in Ralphs, AcquireLock(r) \/ StartFails(r) \/ AgentMerges(r) \/ Fails(r)
      PROVE  OwnedInv'
  <2>0. r \in Processes /\ r \notin Users
    BY <1>0
  <2>1. Unwritten(r) /\ op'[r] = op[r]
    BY <1>0, <1>4, <2>0, RequestOfOne DEF AcquireLock, StartFails, AgentMerges, Fails
  <2>2. OthersStay(r)
    <3>1. CASE AcquireLock(r) \/ StartFails(r) \/ Fails(r)
      BY <1>0, <2>0, <3>1, RequestOfOne, GotoLeavesOthers DEF AcquireLock, StartFails, Fails, PCs
    <3>2. CASE AgentMerges(r)
      BY <1>0, <2>0, <3>2 DEF AgentMerges, OthersStay
    <3> QED BY <1>4, <3>1, <3>2
  <2>3. /\ pc[r] \in {"waiting", "starting", "working"}
        /\ pc'[r] \in {"starting", "working", "dead"}
        /\ pc[r] = "working" => pc'[r] \in {"working", "dead"}
    BY <1>0, <1>4, <2>0 DEF AcquireLock, StartFails, AgentMerges, Fails, Goto
  <2>4. RequestKnown(r)'
    <3>1. op[r] # Idle => op[r].event # "merging"
      BY <1>0, <2>0, <2>3 DEF RequestKnown
    <3> QED BY <2>0, <2>1, <2>3, <3>1, PlainKnown
  <2>5. \A l \in Loops : Answers(r, l) => Answers(r, l)'
    BY <2>0, <2>3 DEF Answers, Lander, Deserter
  <2> QED BY <1>0, <2>0, <2>1, <2>2, <2>4, <2>5, OwnedStep
<1>5. ASSUME NEW u \in Users, CommandStep(u)
      PROVE  OwnedInv'
  <2>0. /\ u \in Processes /\ u \notin Ralphs /\ RequestKnown(u)
        /\ \A l : ~Answers(u, l) \/ (target[u] = l /\ pc[u] \in {"api_claimed", "api_merging"})
    BY <1>0 DEF Answers, Lander, Deserter
  <2>1. CASE DiscardWrite(u) \/ MergeAdopted(u)
    <3>1. op[u].event # "merging" /\ \A l : ~Answers(u, l)
      BY <1>0, <2>0, <2>1 DEF DiscardWrite, MergeAdopted, Q!Write, RequestKnown
    <3>2. Written(u)
      BY <1>0, <2>0, <2>1, RequestOfOne DEF DiscardWrite, MergeAdopted
    <3>3. OthersStay(u)
      <4>1. CASE DiscardWrite(u)
        BY <1>0, <2>0, <4>1, RequestOfOne, GotoLeavesOthers DEF DiscardWrite, PCs
      <4>2. CASE MergeAdopted(u)
        <5>1. {target[u]} \in SUBSET Loops
          BY <1>0, <4>2 DEF MergeAdopted, TargetKnown, Busy
        <5> QED BY <1>0, <2>0, <4>2, <5>1, RequestOfOne, GotoLeavesOthers
                DEF MergeAdopted, PCs
      <4> QED BY <2>1, <4>1, <4>2
    <3>4. pc'[u] \in {"removing", "exited"}
      BY <1>0, <2>0, <2>1 DEF DiscardWrite, MergeAdopted, Goto, GotoSpawning
    <3>5. RequestKnown(u)'
      BY <2>0, <3>2, <3>4, PlainKnown DEF Written
    <3> QED BY <1>0, <2>0, <3>1, <3>2, <3>3, <3>5, OwnedStep
  <2>2. CASE DiscardRemove(u)
    <3>1. Unwritten(u) /\ op'[u] = op[u] /\ OthersStay(u)
      BY <1>0, <2>0, <2>2, RequestOfOne, GotoLeavesOthers DEF DiscardRemove, PCs
    <3>2. pc[u] = "removing" /\ pc'[u] = "exited"
      BY <1>0, <2>0, <2>2 DEF DiscardRemove, Goto
    <3>3. RequestKnown(u)'
      BY <2>0, <3>1, <3>2, PlainKnown DEF RequestKnown
    <3>4. \A l \in Loops : ~Answers(u, l)
      BY <2>0, <3>2
    <3> QED BY <1>0, <2>0, <3>1, <3>3, <3>4, OwnedStep
  <2>3. CASE ApiClaimed(u)
    <3>1. pc[u] = "api_claiming" /\ pc'[u] = "api_claimed" /\ target'[u] = target[u]
      BY <1>0, <2>0, <2>3 DEF ApiClaimed, Goto
    <3>2. op[u] = [loop |-> target[u], event |-> "merging"]
      BY <2>0, <3>1 DEF RequestKnown
    <3>3. Written(u) /\ OthersStay(u)
      BY <1>0, <2>0, <2>3, RequestOfOne, GotoLeavesOthers DEF ApiClaimed, PCs
    <3>4. RequestKnown(u)'
      BY <2>0, <3>1, <3>3, PlainKnown DEF Written
    <3>5. \A l \in Loops : target[u] = l => Answers(u, l)'
      BY <2>0, <3>1 DEF Answers, Lander, Deserter
    <3>6. \A l \in Loops : ~Answers(u, l)
      BY <2>0, <3>1
    <3>7. ASSUME NEW l \in Loops
          PROVE  IF op[u].loop = l THEN Answers(u, l)' ELSE ~Answers(u, l)
      <4>1. op[u].loop = target[u]
        BY <3>2
      <4>2. CASE l = target[u]
        BY <3>5, <4>1, <4>2
      <4> QED BY <3>6, <4>1, <4>2
    <3> QED BY <1>0, <2>0, <3>3, <3>4, <3>7, OwnedStep
  <2>4. CASE ApiMerge(u)
    <3>1. pc[u] = "api_claimed" /\ target'[u] = target[u]
      BY <2>4 DEF ApiMerge
    <3>2. target[u] \in Loops
      BY <1>0, <3>1 DEF TargetKnown, Busy
    <3>3. OthersStay(u)
      BY <1>0, <2>0, <2>4, RequestOfOne, GotoLeavesOthers DEF ApiMerge, PCs
    <3>4. CASE Q!Check(u, "merged", target[u]) /\ Goto(u, "api_merging")
      <4>1. Unwritten(u) /\ op'[u] = [loop |-> target[u], event |-> "merged"]
        BY <1>0, <2>0, <3>4, RequestOfOne
      <4>2. pc'[u] = "api_merging"
        BY <1>0, <2>0, <3>4 DEF Goto
      <4>3. RequestKnown(u)' /\ Answers(u, target[u])'
        BY <2>0, <3>1, <4>1, <4>2 DEF RequestKnown, Answers, Lander, Deserter
      <4> QED BY <1>0, <2>0, <3>1, <3>3, <4>1, <4>3, OwnedStep
    <3>5. CASE ~Q!Accepts("merged", target[u]) /\ Goto(u, "exited") /\ UNCHANGED <<log, op>>
      <4>1. Unwritten(u) /\ op'[u] = op[u]
        BY <1>0, <2>0, <3>5, RequestOfOne
      <4>2. pc'[u] = "exited"
        BY <1>0, <2>0, <3>5 DEF Goto
      <4>3. RequestKnown(u)'
        BY <2>0, <3>1, <4>1, <4>2, PlainKnown DEF RequestKnown
      <4>4. Q!Readable(log) => State(target[u]) # "merging"
        BY <3>2, <3>5, OutcomeAccepted
      <4>5. \A l \in Loops : Answers(u, l) => l = target[u]
        BY <2>0
      <4> QED BY <1>0, <2>0, <3>1, <3>3, <4>1, <4>3, <4>4, <4>5, OwnedStep
    <3> QED BY <2>4, <3>4, <3>5 DEF ApiMerge
  <2>5. CASE ApiMerged(u)
    <3>1. pc[u] = "api_merging" /\ pc'[u] = "api_merged" /\ target'[u] = target[u]
      BY <1>0, <2>0, <2>5 DEF ApiMerged, Goto
    <3>2. op[u] = [loop |-> target[u], event |-> "merged"]
      BY <2>0, <3>1 DEF RequestKnown
    <3>3. Written(u) /\ OthersStay(u)
      BY <1>0, <2>0, <2>5, RequestOfOne, GotoLeavesOthers DEF ApiMerged, PCs
    <3>4. RequestKnown(u)'
      BY <2>0, <3>1, <3>3, PlainKnown DEF Written
    <3>5. \A l \in Loops : l # target[u] => ~Answers(u, l)
      BY <2>0
    <3> QED BY <1>0, <2>0, <3>2, <3>3, <3>4, <3>5, OwnedStep
  <2> QED BY <1>5, <2>1, <2>2, <2>3, <2>4, <2>5 DEF CommandStep
<1>6. ASSUME NEW u \in Users, NEW l \in Loops, Command(u, l)
      PROVE  OwnedInv'
  <2>0. /\ u \in Processes /\ u \notin Ralphs /\ RequestKnown(u)
        /\ pc[u] = "idle"
    BY <1>0, <1>6 DEF Command, DiscardCheck, DiscardAbsent, Retry, Merge, MergeOrphan,
                      ApiClaim, ApiForce, Begin
  <2>1. op[u] # Idle => op[u].event # "merging"
    BY <2>0 DEF RequestKnown
  <2>2. \A m \in Loops : ~Answers(u, m)
    BY <2>0 DEF Answers, Lander, Deserter
  <2>3. CASE Retry(u, l) \/ Merge(u, l)
    <3>1. Unwritten(u) /\ op'[u] = op[u] /\ OthersStay(u)
      BY <1>0, <2>0, <2>3, RequestOfOne, GotoLeavesOthers DEF Retry, Merge, PCs
    <3>2. pc'[u] = "exited"
      BY <2>0, <2>3 DEF Retry, Merge, GotoSpawning
    <3>3. RequestKnown(u)'
      BY <2>0, <2>1, <3>1, <3>2, PlainKnown
    <3> QED BY <1>0, <2>0, <2>2, <3>1, <3>3, OwnedStep
  <2>4. CASE DiscardAbsent(u, l)
    <3>1. Unwritten(u) /\ op'[u] = op[u] /\ OthersStay(u)
      BY <1>0, <2>0, <2>4, RequestOfOne, BeginLeavesOthers DEF DiscardAbsent, PCs
    <3>2. pc'[u] = "removing"
      BY <1>0, <2>0, <2>4 DEF DiscardAbsent, Begin, Goto
    <3>3. RequestKnown(u)'
      BY <2>0, <2>1, <3>1, <3>2, PlainKnown
    <3> QED BY <1>0, <2>0, <2>2, <3>1, <3>3, OwnedStep
  <2>5. ASSUME NEW e, NEW x \in {"discarding", "adopting", "api_claiming", "api_merging"},
               Begin(u, l, x),
               \/ x \in {"discarding", "adopting"} /\ e \notin {"merging", "merged"}
               \/ x = "api_claiming" /\ e = "merging"
               \/ x = "api_merging" /\ e = "merged",
               Q!Check(u, e, l) \/ (Q!Enqueue(u, l) /\ e = "queued")
        PROVE  OwnedInv'
    <3>1. Unwritten(u) /\ op'[u] = [loop |-> l, event |-> e]
      BY <1>0, <2>0, <2>5, RequestOfOne
    <3>2. OthersStay(u)
      <4>1. \A q \in Processes \ {u} : op'[q] = op[q]
        BY <1>0, <2>0, <2>5, RequestOfOne
      <4> QED BY <1>0, <2>5, <4>1, BeginLeavesOthers DEF PCs
    <3>3. pc'[u] = x /\ target'[u] = l
      BY <1>0, <2>0, <2>5 DEF Begin, Goto
    <3>4. RequestKnown(u)'
      BY <2>0, <2>5, <3>1, <3>3 DEF RequestKnown
    <3> QED BY <1>0, <2>0, <2>2, <3>1, <3>2, <3>4, OwnedStep
  <2>6. CASE DiscardCheck(u, l)
    BY <2>5, <2>6 DEF DiscardCheck
  <2>7. CASE MergeOrphan(u, l)
    BY <2>5, <2>7 DEF MergeOrphan
  <2>8. CASE ApiClaim(u, l)
    BY <2>5, <2>8 DEF ApiClaim
  <2>9. CASE ApiForce(u, l)
    BY <2>5, <2>9 DEF ApiForce
  <2> QED BY <1>6, <2>3, <2>4, <2>6, <2>7, <2>8, <2>9 DEF Command
<1>7. ASSUME NEW p \in Processes, Kill(p)
      PROVE  OwnedInv'
  <2>1. p \notin Users /\ pc'[p] = "dead"
    BY <1>0, <1>7 DEF Kill, Goto
  <2>2. op'[p] = Idle
    BY <1>0, <1>7 DEF Kill, TypeOK, Q!TypeOK, Q!CrashBeforeWrite, Q!CrashInsideWrite
  <2>3. OthersStay(p)
    <3>1. \A q \in Processes \ {p} : op'[q] = op[q]
      BY <1>0, <1>7 DEF Kill, TypeOK, Q!TypeOK, Q!CrashBeforeWrite, Q!CrashInsideWrite
    <3> QED BY <1>0, <1>7, <3>1, GotoLeavesOthers DEF Kill, PCs
  <2>4. RequestKnown(p)'
    BY <1>0, <2>1, <2>2, PlainKnown
  <2>5. \A l \in Loops : Answers(p, l) => Answers(p, l)'
    BY <2>1 DEF Answers, Lander, Deserter
  <2>6. op[p] # Idle /\ op[p].event = "merging" => p \in Ralphs /\ p[1] = op[p].loop
    <3> SUFFICES ASSUME op[p] # Idle, op[p].event = "merging"
                 PROVE  p \in Ralphs /\ p[1] = op[p].loop
      OBVIOUS
    <3>1. RequestKnown(p)
      BY <1>0
    <3>2. p \in Ralphs /\ pc[p] = "claiming"
      BY <2>1, <3>1 DEF RequestKnown
    <3>3. op[p] = [loop |-> p[1], event |-> "merging"]
      BY <3>1, <3>2 DEF RequestKnown
    <3> QED BY <3>2, <3>3
  <2>7. Unwritten(p) \/ Written(p)
    BY <1>7, <2>2 DEF Kill, Unwritten, Written, Q!CrashBeforeWrite, Q!CrashInsideWrite
  <2>8. ASSUME NEW l \in Loops, Written(p)
        PROVE  \/ op[p].loop = l /\ (op[p].event = "merging" => Answers(p, l)')
               \/ op[p].loop # l /\ (Answers(p, l) => Answers(p, l)')
    <3>1. p \in Ralphs /\ p[1] = l => Answers(p, l)'
      BY <2>1 DEF Answers, Deserter
    <3> QED BY <2>5, <2>6, <2>8, <3>1 DEF Written
  <2> QED BY <1>0, <2>3, <2>4, <2>5, <2>7, <2>8, OwnedStep
<1>8. CASE UNCHANGED vars
  <2>1. \A q \in Processes : RequestKnown(q)'
    BY <1>0, <1>8 DEF vars, RequestKnown
  <2>2. \A l \in Loops : State(l)' = State(l)
    BY <1>8 DEF vars, State, Q!StateIn, Q!IsLastOf, Q!Absent
  <2>3. \A q \in Processes, l \in Loops : Answers(q, l)' <=> Answers(q, l)
    BY <1>8 DEF vars, Answers, Lander, Deserter
  <2>4. Q!Readable(log)' <=> Q!Readable(log)
    BY <1>8 DEF vars, Q!Readable
  <2>5. MergingIsOwned'
    BY <2>2, <2>3, <2>4 DEF OwnedInv, MergingIsOwned
  <2> QED BY <1>0, <2>1, <2>5 DEF OwnedInv
<1> QED BY <1>1, <1>2, <1>3, <1>4, <1>5, <1>6, <1>7, <1>8 DEF Next, InPlaceStep

\* An entry in merging always has someone who claimed it and is still to record
\* how it ended, a merge-ralph inside the loop lock or an API call, or else a
\* merge-ralph of that loop was killed or failed, or a kill has made the queue
\* unreadable.  No refused claim, discard, retry, second merge-ralph or queue
\* operation of another takes the entry over or leaves it behind, and as every
\* step brings its owner nearer to its end (EveryStepAdvances), only fairness is
\* left between this and MergingIsResolved.
THEOREM MergingHasAnOwner == Spec => []MergingIsOwned
<1>1. Init => OwnedInv
  <2> SUFFICES ASSUME Init PROVE OwnedInv
    OBVIOUS
  <2>1. TypeOK /\ TargetKnown
    BY InitTypes
  <2>2. log = << >> /\ \A p \in Processes : op[p] = Idle
    BY DEF Init, Q!Init
  <2>3. \A p \in Processes : pc[p] \in {"unborn", "idle", "working"}
    BY DEF Init
  <2>4. \A p \in Processes : RequestKnown(p)
    BY <2>2, <2>3 DEF RequestKnown
  <2>5. Len(log) = 0 /\ \A l \in Loops : State(l) = "absent"
    BY <2>2, EmptySeq DEF State, Q!StateIn, Q!Absent
  <2> QED BY <2>1, <2>4, <2>5 DEF OwnedInv, MergingIsOwned
<1>2. OwnedInv => MergingIsOwned
  BY DEF OwnedInv
<1> QED BY <1>1, <1>2, OwnedInductive, PTL DEF Spec
=============================================================================

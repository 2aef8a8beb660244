----------------------------- MODULE WavesProofs -----------------------------
(***************************************************************************)
(* Theorems about Waves, for any concurrency, any number of workers in a   *)
(* wave and any number of waves.                                           *)
(*                                                                         *)
(*   TypeCorrect         Spec => []TypeOK                                  *)
(*   ConcurrencyIsKept   Spec => []WithinConcurrency                       *)
(*   MergedIsEmitted     Spec => []EmittedIsMerged                         *)
(*   WavesAreOver        Spec => []NoneOutlivesItsWave                     *)
(*   WavesAdvance        a wave is settled within MaxTotal + 9 steps of    *)
(*                       the loop, which waits only for its workers        *)
(***************************************************************************)
EXTENDS Waves, FiniteSetTheorems, TLAPS

USE WavesAssumption

\* The workers there have been are those of the wave, in order; between waves
\* there are none.
Placed ==
  /\ pc \notin InWave => spawned = 0
  /\ pc \in InWave => current \in Ids /\ fate[current] = "running" /\ spawned <= total[current]
  /\ pc \in InWave \ {"spawn"} => spawned = total[current]
  /\ \A i \in Slots : task[i] # "none" <=> pc \in InWave /\ i < spawned
  /\ pc = "reread" => Ended

\* What a task that is over may have told of a worker with or without events.
Told(o, w) == o # "none" /\ (o = "events" <=> w /\ ~(acp /\ o = "failure"))

\* An agent is at work for a task that is not over and has not seen it end or
\* killed it; a task that is over tells whether there were events.
Accounted ==
  \A i \in Slots : /\ proc[i] = "agent" => task[i] \in Busy \ {"waits", "stuck"}
                   /\ task[i] \in Busy => proc[i] \in {"agent", "tool", "gone"}
                   /\ wrote[i] => task[i] # "none"
                   /\ task[i] = "ended" => Told(outcome[i], wrote[i])

\* The permits that have been taken.
Taken == {i \in Slots : task[i] \in Busy}
WithinPermits == Cardinality(Taken) <= Concurrency

IInv == TypeOK /\ Placed /\ Accounted /\ EmittedIsMerged /\ WithinPermits

-----------------------------------------------------------------------------
(* Permits *)

LEMMA SlotsFinite ==
  /\ IsFiniteSet(Slots) /\ Slots \subseteq Nat
  /\ \A S \in SUBSET Slots : IsFiniteSet(S) /\ Cardinality(S) \in Nat
<1>1. Slots = 0..(MaxTotal - 1) /\ MaxTotal - 1 \in Int
  BY DEF Slots
<1>2. IsFiniteSet(0..(MaxTotal - 1))
  BY <1>1, FS_Interval
<1>3. \A S \in SUBSET Slots : IsFiniteSet(S)
  BY <1>1, <1>2, FS_Subset
<1> QED BY <1>1, <1>2, <1>3, FS_CardinalityType

\* No permit is taken where no task begins.
LEMMA PermitsKept ==
  ASSUME WithinPermits, \A i \in Slots : task'[i] \in Busy => task[i] \in Busy
  PROVE  WithinPermits'
<1>1. Taken' \subseteq Taken /\ Taken \in SUBSET Slots
  BY DEF Taken
<1>2. Cardinality(Taken') <= Cardinality(Taken)
  BY <1>1, SlotsFinite, FS_Subset
<1>3. Cardinality(Taken) \in Nat /\ Cardinality(Taken') \in Nat
  BY <1>1, SlotsFinite
<1> QED BY <1>2, <1>3 DEF WithinPermits

\* What is true of all workers and the wave stays so when none of it changes.
LEMMA Unchanged ==
  ASSUME IInv, UNCHANGED <<workers, wave>>, pc' \in Places,
         pc \in InWave => fate'[current] = "running" /\ total'[current] = total[current],
         pc' = "reread" => pc = "reread",
         pc' \in InWave => pc \in InWave, pc \in InWave => pc' \in InWave,
         pc' \in InWave \ {"spawn"} => pc # "spawn" \/ spawned = total[current]
  PROVE  Placed' /\ Accounted' /\ EmittedIsMerged' /\ WithinPermits'
<1> USE DEF workers, wave
<1>1. Placed'
  BY DEF IInv, Placed, InWave, Ended, Of
<1>2. Accounted'
  BY DEF IInv, Accounted, Told
<1>3. EmittedIsMerged'
  BY DEF IInv, EmittedIsMerged, Of, InWave
<1>4. WithinPermits'
  BY PermitsKept DEF IInv
<1> QED BY <1>1, <1>2, <1>3, <1>4

-----------------------------------------------------------------------------
(* The steps of the loop *)

LEMMA InitEstablishes == Init => IInv
<1> SUFFICES ASSUME Init PROVE IInv
  OBVIOUS
<1>a. {acp, cutoff} \subseteq BOOLEAN
  BY DEF Init
<1>b. 0 \in 0..MaxWaves /\ 0 \in 0..MaxTotal
  OBVIOUS
<1>1. TypeOK
  BY <1>a, <1>b DEF Init, TypeOK, Places, Fates, Outcomes, Procs
<1>2. Placed /\ Accounted /\ EmittedIsMerged
  BY DEF Init, Placed, Accounted, EmittedIsMerged, InWave, Busy
<1>3. Taken = {}
  BY DEF Init, Taken, Busy
<1>4. WithinPermits
  BY <1>3, FS_EmptySet DEF WithinPermits
<1> QED BY <1>1, <1>2, <1>4 DEF IInv

LEMMA EmitPreserves ==
  ASSUME IInv, Emit PROVE IInv'
<1>1. PICK w \in Ids, n \in 1..MaxTotal :
        /\ fate[w] = "none" /\ fate' = [fate EXCEPT ![w] = "unread"]
        /\ total' = [total EXCEPT ![w] = n]
  BY DEF Emit
<1>2. TypeOK'
  BY <1>1 DEF IInv, TypeOK, Emit, workers, wave, Fates, Settled
<1>3. pc \in InWave => fate'[current] = "running" /\ total'[current] = total[current]
  BY <1>1 DEF IInv, TypeOK, Placed
<1>4. Placed' /\ Accounted' /\ EmittedIsMerged' /\ WithinPermits'
  BY <1>3, Unchanged DEF Emit, IInv, TypeOK
<1> QED BY <1>2, <1>4 DEF IInv

\* Reading takes no wave that is being executed.
LEMMA ReadTyped ==
  ASSUME TypeOK, NEW f \in Fates, Read(f)
  PROVE  fate' \in [Ids -> Fates] /\ \A w \in Ids : fate[w] = "running" => fate'[w] = fate[w]
BY DEF TypeOK, Read

LEMMA TurnPreserves ==
  ASSUME IInv, EndTurn \/ Recover \/ NoWave PROVE IInv'
<1>1. UNCHANGED <<total, workers, wave>> /\ pc \notin InWave /\ pc' \notin InWave /\ pc' \in Places
  BY DEF EndTurn, Recover, NoWave, InWave, Places
<1>2. fate' \in [Ids -> Fates]
  BY ReadTyped DEF IInv, TypeOK, EndTurn, Recover, NoWave, Fates, Settled
<1>3. TypeOK'
  BY <1>1, <1>2 DEF IInv, TypeOK, workers, wave
<1>4. Placed' /\ Accounted' /\ EmittedIsMerged' /\ WithinPermits'
  BY <1>1, Unchanged DEF InWave
<1> QED BY <1>3, <1>4 DEF IInv

LEMMA DetectPreserves ==
  ASSUME IInv, Detect PROVE IInv'
<1>1. PICK w \in Ids :
        /\ fate[w] = "read" /\ current' = w /\ acp' \in BOOLEAN
        /\ fate' = [v \in Ids |-> CASE v = w           -> "running"
                                    [] fate[v] = "read" /\ v # w -> "lost"
                                    [] OTHER           -> fate[v]]
  BY DEF Detect
<1>2. pc \notin InWave /\ pc' = "spawn" /\ UNCHANGED <<total, workers, spawned, cutoff, record>>
  BY DEF Detect, InWave
<1>3. {acp', cutoff'} \subseteq BOOLEAN
  BY <1>1, <1>2 DEF IInv, TypeOK
<1>4. fate' \in [Ids -> Fates] /\ fate'[w] = "running" /\ w \in 0..MaxWaves
  BY <1>1 DEF IInv, TypeOK, Fates, Settled, Ids
<1>5. TypeOK'
  BY <1>1, <1>2, <1>3, <1>4 DEF IInv, TypeOK, workers, Places, InWave
<1>6. Placed'
  <2>1. spawned = 0
    BY <1>2 DEF IInv, Placed
  <2>2. pc' \in InWave /\ pc' # "reread" /\ ~(pc' \in InWave \ {"spawn"})
    BY <1>2 DEF InWave
  <2>3. spawned' = 0 /\ total'[w] \in 0..MaxTotal
    BY <1>2, <2>1 DEF IInv, TypeOK
  <2>4. \A i \in Slots : task'[i] = "none" /\ ~(i < spawned')
    <3>1. \A i \in Slots : task[i] = "none"
      BY <1>2 DEF IInv, Placed
    <3>2. \A i \in Slots : i \in Nat
      BY SlotsFinite
    <3> QED BY <1>2, <2>3, <3>1, <3>2 DEF workers
  <2> QED BY <1>1, <1>4, <2>2, <2>3, <2>4 DEF Placed
<1>7. Accounted'
  <2>1. \A i \in Slots : task[i] = "none"
    BY <1>2 DEF IInv, Placed
  <2> QED BY <1>2, <2>1 DEF IInv, Accounted, workers, Busy
<1>8. EmittedIsMerged' /\ WithinPermits'
  BY <1>2, PermitsKept DEF IInv, EmittedIsMerged, workers
<1> QED BY <1>5, <1>6, <1>7, <1>8 DEF IInv

LEMMA SpawnPreserves ==
  ASSUME IInv, Spawn PROVE IInv'
<1>1. PICK p \in {"agent", "gone", "stray"} :
        /\ task' = [task EXCEPT ![spawned] = IF p = "agent" THEN "runs" ELSE "ended"]
        /\ proc' = [proc EXCEPT ![spawned] = p]
        /\ outcome' = [outcome EXCEPT ![spawned] = IF p = "agent" THEN "none" ELSE "failure"]
  BY DEF Spawn, Started
<1>2. /\ pc = "spawn" /\ pc' = "spawn" /\ spawned' = spawned + 1 /\ spawned < total[current]
      /\ Cardinality(Taken) < Concurrency
      /\ UNCHANGED <<fate, total, timedOut, wrote, current, acp, cutoff, record>>
  BY DEF Spawn, Taken
<1>3. current \in Ids /\ fate[current] = "running" /\ total[current] \in 0..MaxTotal
  BY <1>2 DEF IInv, TypeOK, Placed, InWave
<1>4. spawned \in Slots /\ spawned' \in 0..MaxTotal /\ spawned' <= total[current]
  BY <1>2, <1>3 DEF IInv, TypeOK, Slots
<1>5. task[spawned] = "none"
  BY <1>4, SlotsFinite DEF IInv, Placed
<1>6. TypeOK'
  <2>1. {acp', cutoff'} \subseteq BOOLEAN
    BY <1>2 DEF IInv, TypeOK
  <2>2. task' \in [Slots -> {"none", "ended"} \cup Busy] /\ outcome' \in [Slots -> Outcomes]
    BY <1>1 DEF IInv, TypeOK, Busy, Outcomes
  <2>3. proc' \in [Slots -> Procs]
    BY <1>1 DEF IInv, TypeOK, Procs
  <2> QED BY <1>2, <1>4, <2>1, <2>2, <2>3 DEF IInv, TypeOK
<1>7. \A i \in Slots : i # spawned => task'[i] = task[i] /\ proc'[i] = proc[i] /\ outcome'[i] = outcome[i]
  BY <1>1 DEF IInv, TypeOK
<1>8. /\ task'[spawned] = IF p = "agent" THEN "runs" ELSE "ended"
      /\ proc'[spawned] = p
      /\ outcome'[spawned] = IF p = "agent" THEN "none" ELSE "failure"
  BY <1>1, <1>4 DEF IInv, TypeOK
<1>9. Placed'
  <2>1. \A i \in Slots : i < spawned' <=> i < spawned \/ i = spawned
    BY <1>2, <1>4, SlotsFinite
  <2>2. \A i \in Slots : task'[i] # "none" <=> i < spawned'
    BY <1>2, <1>7, <1>8, <2>1 DEF IInv, Placed, InWave
  <2> QED BY <1>2, <1>3, <1>4, <2>2 DEF Placed, InWave
<1>10. Accounted'
  <2>1. ~wrote[spawned]
    BY <1>4, <1>5 DEF IInv, Accounted, TypeOK
  <2>2. ASSUME NEW i \in Slots, i # spawned
        PROVE  /\ proc'[i] = "agent" => task'[i] \in Busy \ {"waits", "stuck"}
               /\ task'[i] \in Busy => proc'[i] \in {"agent", "tool", "gone"}
               /\ wrote'[i] => task'[i] # "none"
               /\ task'[i] = "ended" => Told(outcome[i], wrote[i])'
    BY <1>2, <1>7, <2>2 DEF IInv, Accounted, Told
  <2>3. /\ proc'[spawned] = "agent" => task'[spawned] \in Busy \ {"waits", "stuck"}
        /\ task'[spawned] \in Busy => proc'[spawned] \in {"agent", "tool", "gone"}
        /\ task'[spawned] # "none"
        /\ task'[spawned] = "ended" => outcome'[spawned] = "failure" /\ ~wrote'[spawned]
    BY <1>2, <1>8, <2>1 DEF Busy
  <2>4. ASSUME NEW i \in Slots, i = spawned, task'[i] = "ended"
        PROVE  Told(outcome[i], wrote[i])'
    BY <1>2, <2>1, <1>8, <2>4 DEF Told
  <2> QED BY <2>2, <2>3, <2>4 DEF Accounted
<1>11. WithinPermits'
  <2>1. Taken' \subseteq Taken \cup {spawned} /\ Taken \in SUBSET Slots
    BY <1>7 DEF Taken
  <2>2. IsFiniteSet(Taken) /\ Cardinality(Taken) \in Nat /\ IsFiniteSet(Taken \cup {spawned})
    BY <2>1, SlotsFinite, FS_AddElement
  <2>3. Cardinality(Taken \cup {spawned}) <= Cardinality(Taken) + 1
    BY <2>2, FS_AddElement
  <2>4. Cardinality(Taken') <= Cardinality(Taken \cup {spawned})
    BY <2>1, <2>2, FS_Subset
  <2>5. Cardinality(Taken') \in Nat /\ Cardinality(Taken \cup {spawned}) \in Nat
    BY <2>1, <2>2, FS_CardinalityType, FS_Subset
  <2> QED BY <1>2, <2>2, <2>3, <2>4, <2>5 DEF WithinPermits
<1>12. EmittedIsMerged'
  BY <1>2 DEF EmittedIsMerged
<1> QED BY <1>6, <1>9, <1>10, <1>11, <1>12 DEF IInv

LEMMA OnwardPreserves ==
  ASSUME IInv, SpawnedAll \/ JoinAll PROVE IInv'
<1>1. /\ UNCHANGED <<fate, total, workers, wave>> /\ pc \in InWave /\ pc' \in InWave \ {"reread"}
      /\ pc = "spawn" => spawned = total[current]
  BY DEF SpawnedAll, JoinAll, InWave
<1>2. TypeOK'
  BY <1>1 DEF IInv, TypeOK, workers, wave, Places
<1>3. Placed' /\ Accounted' /\ EmittedIsMerged' /\ WithinPermits'
  BY <1>1, <1>2, Unchanged DEF IInv, TypeOK, Placed
<1> QED BY <1>2, <1>3 DEF IInv

LEMMA CutOffPreserves ==
  ASSUME IInv, CutOff PROVE IInv'
<1>1. /\ UNCHANGED <<fate, total, workers, current, acp, spawned, record>>
      /\ pc = "collect" /\ pc' = "report" /\ cutoff' = TRUE
  BY DEF CutOff
<1>2. {acp', cutoff'} \subseteq BOOLEAN
  BY <1>1 DEF IInv, TypeOK
<1>3. TypeOK'
  BY <1>1, <1>2 DEF IInv, TypeOK, workers, Places, InWave
<1>4. Placed'
  BY <1>1 DEF IInv, Placed, workers, InWave
<1>5. Accounted' /\ EmittedIsMerged' /\ WithinPermits'
  BY <1>1, PermitsKept DEF IInv, Accounted, Told, EmittedIsMerged, workers
<1> QED BY <1>3, <1>4, <1>5 DEF IInv

\* What the tracker gets is what the tasks told, or nothing.
LEMMA ReportPreserves ==
  ASSUME IInv, Report PROVE IInv'
<1>1. /\ UNCHANGED <<fate, total, workers, current, acp, spawned, cutoff>>
      /\ pc = "report" /\ pc' = "reread" /\ Ended
      /\ record' = [i \in Slots |-> IF i \notin Of(current) THEN "none"
                                    ELSE IF cutoff THEN "failure" ELSE outcome[i]]
  BY DEF Report
<1>2. {acp', cutoff'} \subseteq BOOLEAN /\ Of(current)' = Of(current)
  BY <1>1 DEF IInv, TypeOK, Of
<1>3. record' \in [Slots -> Outcomes]
  BY <1>1 DEF IInv, TypeOK, Outcomes
<1>4. TypeOK'
  BY <1>1, <1>2, <1>3 DEF IInv, TypeOK, workers, Places, InWave
<1>5. Placed'
  BY <1>1, <1>2 DEF IInv, Placed, workers, InWave, Ended
<1>6. EmittedIsMerged'
  <2>1. SUFFICES ASSUME NEW i \in Of(current)
                 PROVE  /\ record'[i] # "none" /\ (cutoff' => record'[i] = "failure")
                        /\ record'[i] = "events"
                             <=> wrote'[i] /\ ~cutoff' /\ ~(acp' /\ outcome'[i] = "failure")
    BY <1>2 DEF EmittedIsMerged
  <2>2. i \in Slots /\ task[i] = "ended"
    BY <1>1 DEF Of, Ended
  <2>3. outcome[i] # "none" /\ (outcome[i] = "events" <=> wrote[i] /\ ~(acp /\ outcome[i] = "failure"))
    BY <2>2 DEF IInv, Accounted, Told
  <2> QED BY <1>1, <2>2, <2>3 DEF workers
<1>7. Accounted' /\ WithinPermits'
  BY <1>1, PermitsKept DEF IInv, Accounted, Told, workers
<1> QED BY <1>4, <1>5, <1>6, <1>7 DEF IInv

LEMMA RereadPreserves ==
  ASSUME IInv, Reread PROVE IInv'
<1>1. PICK f \in Answers :
        fate' = [w \in Ids |-> CASE w = current        -> f
                                 [] fate[w] = "unread" -> "lost"
                                 [] OTHER              -> fate[w]]
  BY DEF Reread
<1>2. fate' \in [Ids -> Fates]
  BY <1>1 DEF IInv, TypeOK, Answers, Fates, Settled
<1>3. {acp', cutoff'} \subseteq BOOLEAN
  BY DEF Reread
<1>a. 0 \in 0..MaxWaves /\ 0 \in 0..MaxTotal
  OBVIOUS
<1>4. proc' \in [Slots -> Procs] /\ \A i \in Slots : proc'[i] # "agent"
  <2>1. \A i \in Slots : proc[i] # "agent"
    <3>1. SUFFICES ASSUME NEW i \in Slots, proc[i] = "agent" PROVE FALSE
      OBVIOUS
    <3>2. task[i] \in Busy /\ Ended /\ spawned = total[current]
      BY <3>1 DEF IInv, Accounted, Placed, Reread, InWave
    <3>3. i < spawned
      BY <3>1, <3>2 DEF IInv, Placed, Busy
    <3> QED BY <3>2, <3>3 DEF Ended, Of, Busy
  <2> QED BY <2>1 DEF Reread, Procs
<1>5. TypeOK'
  BY <1>a, <1>2, <1>3, <1>4 DEF IInv, TypeOK, Reread, Places, Outcomes
<1>6. Placed' /\ Accounted' /\ EmittedIsMerged'
  BY <1>4 DEF Reread, Placed, Accounted, EmittedIsMerged, InWave, Busy
<1>7. WithinPermits'
  BY PermitsKept DEF IInv, Reread, Busy
<1> QED BY <1>5, <1>6, <1>7 DEF IInv

-----------------------------------------------------------------------------
(* The steps of a worker *)

WorkersTyped ==
  /\ task \in [Slots -> {"none", "ended"} \cup Busy]
  /\ proc \in [Slots -> Procs]
  /\ timedOut \in [Slots -> BOOLEAN] /\ wrote \in [Slots -> BOOLEAN]
  /\ outcome \in [Slots -> Outcomes]

\* A step of one worker that begins no task, and leaves one that is over alone.
LEMMA WorkerStep ==
  ASSUME IInv, NEW i \in Slots, UNCHANGED <<pc, fate, total, wave>>, WorkersTyped',
         \A j \in Slots \ {i} : /\ task'[j] = task[j] /\ proc'[j] = proc[j]
                                /\ wrote'[j] = wrote[j] /\ outcome'[j] = outcome[j],
         task'[i] = "none" <=> task[i] = "none",
         task'[i] \in Busy => task[i] \in Busy,
         task[i] = "ended" => /\ task'[i] = "ended" /\ wrote'[i] = wrote[i]
                              /\ outcome'[i] = outcome[i] /\ proc'[i] # "agent",
         proc'[i] = "agent" => task'[i] \in Busy \ {"waits", "stuck"},
         task'[i] \in Busy => proc'[i] \in {"agent", "tool", "gone"},
         wrote'[i] => task'[i] # "none",
         task'[i] = "ended" => Told(outcome'[i], wrote'[i])
  PROVE  IInv'
<1>1. {acp', cutoff'} \subseteq BOOLEAN
  BY DEF IInv, TypeOK, wave
<1>2. TypeOK'
  BY <1>1 DEF IInv, TypeOK, wave, WorkersTyped
<1>3. \A j \in Slots : /\ task'[j] = "none" <=> task[j] = "none"
                       /\ task'[j] \in Busy => task[j] \in Busy
                       /\ task[j] = "ended" => task'[j] = "ended" /\ wrote'[j] = wrote[j]
  OBVIOUS
<1>4. Placed'
  BY <1>3 DEF IInv, Placed, wave, Ended, Of
<1>a. \A o, w : Told(o, w)' <=> Told(o, w)
  BY DEF Told, wave
<1>5. Accounted'
  BY <1>a DEF IInv, Accounted
<1>6. EmittedIsMerged'
  BY <1>3 DEF IInv, Placed, EmittedIsMerged, wave, Ended, Of
<1>7. WithinPermits'
  BY <1>3, PermitsKept DEF IInv
<1> QED BY <1>2, <1>4, <1>5, <1>6, <1>7 DEF IInv

LEMMA TypedNow == ASSUME IInv PROVE WorkersTyped
BY DEF IInv, TypeOK, WorkersTyped

LEMMA ProcessPreserves ==
  ASSUME IInv, NEW i \in Slots, Write(i) \/ AgentExits(i) \/ ToolExits(i) PROVE IInv'
<1>1. CASE Write(i)
  <2>1. /\ UNCHANGED <<pc, fate, total, task, proc, timedOut, outcome, wave>>
        /\ task[i] \in Busy /\ wrote' = [wrote EXCEPT ![i] = TRUE]
    BY <1>1 DEF Write
  <2>2. WorkersTyped'
    BY <2>1, TypedNow DEF WorkersTyped
  <2>3. \A j \in Slots \ {i} : wrote'[j] = wrote[j]
    BY <2>1, TypedNow DEF WorkersTyped
  <2> QED BY <2>1, <2>2, <2>3, WorkerStep DEF IInv, Accounted, Busy
<1>2. CASE AgentExits(i) \/ ToolExits(i)
  <2>1. /\ UNCHANGED <<pc, fate, total, task, timedOut, wrote, outcome, wave>>
        /\ \E p \in {"tool", "gone"} : proc' = [proc EXCEPT ![i] = p]
    BY <1>2 DEF AgentExits, ToolExits
  <2>2. WorkersTyped' /\ proc'[i] \in {"tool", "gone"}
    BY <2>1, TypedNow DEF WorkersTyped, Procs
  <2>3. \A j \in Slots \ {i} : proc'[j] = proc[j]
    BY <2>1, TypedNow DEF WorkersTyped
  <2> QED BY <2>1, <2>2, <2>3, WorkerStep DEF IInv, Accounted
<1> QED BY <1>1, <1>2

LEMMA WaitingPreserves ==
  ASSUME IInv, NEW i \in Slots, OutputEnds(i) \/ Garbled(i) \/ TimeOut(i) \/ Floods(i)
  PROVE  IInv'
<1>1. /\ UNCHANGED <<pc, fate, total, wrote, outcome, wave>> /\ task[i] \in {"runs", "waits"}
      /\ \E t \in {"waits", "deaf", "stuck"} :
           /\ task' = [task EXCEPT ![i] = t]
           /\ \/ t = "deaf" /\ proc' = proc
              \/ \E p \in {"tool", "gone"} : proc' = [proc EXCEPT ![i] = p]
      /\ \E b \in BOOLEAN : timedOut' = timedOut \/ timedOut' = [timedOut EXCEPT ![i] = b]
  <2>a. /\ proc = [proc EXCEPT ![i] = proc[i]]
        /\ task[i] \in {"runs", "waits"} => proc[i] \in {"agent", "tool", "gone"}
        /\ task[i] = "waits" => proc[i] # "agent"
    BY TypedNow DEF WorkersTyped, IInv, Accounted, Busy
  <2>1. CASE OutputEnds(i) BY <2>a, <2>1 DEF OutputEnds
  <2>2. CASE Garbled(i) BY <2>2 DEF Garbled
  <2>3. CASE TimeOut(i)
    BY <2>a, <2>3 DEF TimeOut
  <2>4. CASE Floods(i)
    BY <2>a, <2>4 DEF Floods
  <2> QED BY <2>1, <2>2, <2>3, <2>4
<1>2. WorkersTyped'
  BY <1>1, TypedNow DEF WorkersTyped, Busy, Procs
<1>3. /\ \A j \in Slots \ {i} : task'[j] = task[j] /\ proc'[j] = proc[j]
      /\ task'[i] \in {"waits", "deaf", "stuck"} /\ proc'[i] \in {"agent", "tool", "gone"}
      /\ proc'[i] = "agent" => task'[i] = "deaf"
  BY <1>1, TypedNow DEF WorkersTyped, IInv, Accounted, Busy
<1> QED BY <1>1, <1>2, <1>3, WorkerStep DEF IInv, Accounted, Busy

\* A task that ends tells whether there were events, and its agent is gone.
LEMMA EndPreserves ==
  ASSUME IInv, NEW i \in Slots, AcpEnds(i) \/ PtyEnds(i) PROVE IInv'
<1>1. \/ AcpEnds(i) /\ Fails(i)
      \/ \E late \in BOOLEAN : Result(i, late)
  BY TypedNow DEF AcpEnds, PtyEnds, WorkersTyped
<1>2. /\ task[i] \in Busy
      /\ timedOut' = timedOut \/ timedOut' = [timedOut EXCEPT ![i] = FALSE]
  BY DEF AcpEnds, PtyEnds, Busy
<1>3. proc' = [proc EXCEPT ![i] = "gone"] \/ (proc' = proc /\ proc[i] # "agent")
  BY DEF AcpEnds, PtyEnds
<1>4. PICK o \in Outcomes :
        /\ UNCHANGED <<pc, fate, total, wrote, wave>> /\ task' = [task EXCEPT ![i] = "ended"]
        /\ outcome' = [outcome EXCEPT ![i] = o] /\ Told(o, wrote[i])
  <2>1. CASE AcpEnds(i) /\ Fails(i)
    BY <2>1 DEF AcpEnds, Fails, Told, Outcomes
  <2>2. ASSUME NEW late \in BOOLEAN, Result(i, late)
        PROVE  \E o \in Outcomes :
                 /\ UNCHANGED <<pc, fate, total, wrote, wave>>
                 /\ task' = [task EXCEPT ![i] = "ended"]
                 /\ outcome' = [outcome EXCEPT ![i] = o] /\ Told(o, wrote[i])
    <3> DEFINE o == IF wrote[i] THEN "events" ELSE IF late THEN "failure" ELSE "silent"
    <3>1. o \in Outcomes /\ Told(o, wrote[i])
      BY TypedNow DEF Outcomes, Told, WorkersTyped
    <3>2. /\ UNCHANGED <<pc, fate, total, wrote, wave>>
          /\ task' = [task EXCEPT ![i] = "ended"]
          /\ outcome' = [outcome EXCEPT ![i] = o]
      BY <2>2 DEF Result
    <3> QED BY <3>1, <3>2
  <2> QED BY <1>1, <2>1, <2>2
<1>5. WorkersTyped'
  <2>1. task' \in [Slots -> {"none", "ended"} \cup Busy] /\ outcome' \in [Slots -> Outcomes]
    BY <1>4, TypedNow DEF WorkersTyped
  <2>2. proc' \in [Slots -> Procs]
    BY <1>3, TypedNow DEF WorkersTyped, Procs
  <2>3. timedOut' \in [Slots -> BOOLEAN]
    BY <1>2, TypedNow DEF WorkersTyped
  <2> QED BY <1>4, <2>1, <2>2, <2>3, TypedNow DEF WorkersTyped
<1>6. /\ task'[i] = "ended" /\ proc'[i] # "agent" /\ Told(outcome'[i], wrote'[i])
      /\ \A j \in Slots \ {i} : task'[j] = task[j] /\ proc'[j] = proc[j] /\ outcome'[j] = outcome[j]
  BY <1>3, <1>4, TypedNow DEF WorkersTyped
<1> QED BY <1>2, <1>4, <1>5, <1>6, WorkerStep DEF Busy

-----------------------------------------------------------------------------
(* Theorems *)

\* The inductive invariant, for any numbers of permits, workers and waves.
THEOREM Invariance == Spec => []IInv
<1>1. Init => IInv
  BY InitEstablishes
<1>2. IInv /\ [Next]_vars => IInv'
  <2> SUFFICES ASSUME IInv, [Next]_vars PROVE IInv'
    OBVIOUS
  <2>1. CASE Emit BY <2>1, EmitPreserves
  <2>2. CASE Step
    BY <2>2, TurnPreserves, DetectPreserves, SpawnPreserves, OnwardPreserves, ReportPreserves,
       RereadPreserves DEF Step
  <2>3. CASE CutOff BY <2>3, CutOffPreserves
  <2>4. CASE \E i \in Slots : Worker(i)
    BY <2>4, ProcessPreserves, WaitingPreserves, EndPreserves DEF Worker
  <2>5. CASE UNCHANGED vars
    <3>1. {acp', cutoff'} \subseteq BOOLEAN
      BY <2>5 DEF IInv, TypeOK, vars, wave
    <3>2. TypeOK'
      BY <2>5, <3>1 DEF IInv, TypeOK, vars, workers, wave
    <3>3. Placed' /\ Accounted' /\ EmittedIsMerged' /\ WithinPermits'
      BY <2>5, Unchanged DEF IInv, vars, Placed, TypeOK
    <3> QED BY <3>2, <3>3 DEF IInv
  <2> QED BY <2>1, <2>2, <2>3, <2>4, <2>5 DEF Next
<1> QED BY <1>1, <1>2, PTL DEF Spec

\* Every variable of the loop and the workers keeps its type.
THEOREM TypeCorrect == Spec => []TypeOK
<1>1. IInv => TypeOK BY DEF IInv
<1> QED BY <1>1, Invariance, PTL

\* The concurrency of the hat bounds the agents at work, the killed and the deaf
\* included: each has a task that holds a permit (execute_wave).
THEOREM ConcurrencyIsKept == Spec => []WithinConcurrency
<1>1. IInv => WithinConcurrency
  <2> SUFFICES ASSUME IInv PROVE WithinConcurrency
    OBVIOUS
  <2> DEFINE Agents == {i \in Slots : proc[i] = "agent"}
  <2>1. Agents \subseteq Taken /\ Taken \in SUBSET Slots /\ Agents \in SUBSET Slots
    BY DEF IInv, Accounted, Taken
  <2>2. Cardinality(Agents) <= Cardinality(Taken)
    BY <2>1, SlotsFinite, FS_Subset
  <2>3. Cardinality(Agents) \in Nat /\ Cardinality(Taken) \in Nat
    BY <2>1, SlotsFinite
  <2> QED BY <2>2, <2>3 DEF IInv, WithinPermits, WithinConcurrency
<1> QED BY <1>1, Invariance, PTL

\* The merged records tell of every worker, and of its events, unless it is one
\* of an ACP backend that failed or the wave was cut off (execute_wave).
THEOREM MergedIsEmitted == Spec => []EmittedIsMerged
<1>1. IInv => EmittedIsMerged BY DEF IInv
<1> QED BY <1>1, Invariance, PTL

\* Between waves no agent of one is at work (execute_wave).
THEOREM WavesAreOver == Spec => []NoneOutlivesItsWave
<1>1. IInv => NoneOutlivesItsWave
  BY DEF IInv, Placed, Accounted, NoneOutlivesItsWave, Busy
<1> QED BY <1>1, Invariance, PTL

-----------------------------------------------------------------------------
(* How long a wave can take: what WavesSettle rests on, fairness apart       *)

\* A wave is under way from its emission until it is settled.
UnderWay(w) == fate[w] \in {"unread", "read", "running"}

\* The steps of the loop until the wave being executed is read again.
StageLeft ==
  CASE pc = "spawn"   -> 4 + (total[current] - spawned)
    [] pc = "collect" -> 3
    [] pc = "report"  -> 2
    [] pc = "reread"  -> 1

\* The steps of the loop before a wave can be the one detected.
UntilDetected(w) ==
  CASE pc = "agent"                          -> 3
    [] pc = "recover" /\ fate[w] = "read"    -> 2
    [] pc = "waves" /\ fate[w] = "read"      -> 1
    [] pc = "recover" /\ fate[w] = "unread"  -> 5
    [] pc = "waves" /\ fate[w] = "unread"    -> 4

\* The steps of the loop until w is settled, at most.  What is not being executed
\* when a wave is, is settled when that one is.
StepsLeft(w) ==
  IF ~UnderWay(w) THEN 0
  ELSE IF pc \in InWave THEN StageLeft
  ELSE MaxTotal + 4 + UntilDetected(w)

\* What is left of the work on a slot: its task, its process, its first event.
TaskLeft(t) == CASE t = "runs" -> 2
                 [] t \in {"waits", "deaf"} -> 1
                 [] t \in {"none", "ended", "stuck"} -> 0
ProcessLeft(p) == CASE p = "agent" -> 2
                    [] p = "tool" -> 1
                    [] p \in {"none", "gone", "stray"} -> 0
WorkLeft(i) == TaskLeft(task[i]) + ProcessLeft(proc[i]) + IF wrote[i] THEN 0 ELSE 1

\* Where a wave is: read by the loop that looks for waves, executed within one.
FateInv ==
  \A w \in Ids : /\ fate[w] = "read" => pc \in {"recover", "waves"}
                 /\ fate[w] = "running" => pc \in InWave /\ w = current

\* The loop need not wait for anybody.
CanGoOn ==
  \/ pc \notin InWave \/ pc = "reread"
  \/ pc = "spawn" /\ (spawned = total[current] \/ Cardinality(Taken) < Concurrency)
  \/ pc \in {"collect", "report"} /\ Ended

\* The worker's task can time out or end, or a process of it is still there; it
\* is these steps that Scheduled and ProcessesEnd are about.
CanMove(i) ==
  \/ task[i] = "runs" \/ proc[i] \in {"agent", "tool"}
  \/ task[i] \in {"waits", "deaf"} /\ proc[i] = "gone"

\* If it must, it waits for workers of its wave that are not over, and that can
\* move or are stuck for good.
WaitsForWorkers ==
  CanGoOn \/ \E i \in Of(current) : task[i] \in Busy /\ (CanMove(i) \/ task[i] = "stuck")

\* StepsLeft, place by place.
LeftAt(w) ==
  /\ StepsLeft(w) \in 0..(MaxTotal + 9)
  /\ ~UnderWay(w) => StepsLeft(w) = 0
  /\ UnderWay(w) =>
       /\ pc = "spawn" => StepsLeft(w) = 4 + (total[current] - spawned)
       /\ pc = "collect" => StepsLeft(w) = 3
       /\ pc = "report" => StepsLeft(w) = 2
       /\ pc = "reread" => StepsLeft(w) = 1
       /\ pc = "agent" => StepsLeft(w) = MaxTotal + 7
       /\ pc = "recover" => StepsLeft(w) = MaxTotal + (IF fate[w] = "read" THEN 6 ELSE 9)
       /\ pc = "waves" => StepsLeft(w) = MaxTotal + (IF fate[w] = "read" THEN 5 ELSE 8)

LeftKnown == \A w \in Ids : LeftAt(w)

LEMMA StepsLeftIs == TypeOK /\ Placed /\ FateInv => LeftKnown
<1> SUFFICES ASSUME TypeOK, Placed, FateInv, NEW w \in Ids PROVE LeftAt(w)
  BY DEF LeftKnown
<1> USE DEF LeftAt
<1>1. pc \in InWave => /\ total[current] \in 0..MaxTotal
                       /\ spawned \in 0..MaxTotal /\ spawned <= total[current]
  BY DEF TypeOK, Placed
<1>2. CASE ~UnderWay(w)
  BY <1>2 DEF StepsLeft
<1>3. CASE UnderWay(w) /\ pc \in InWave
  BY <1>1, <1>3 DEF StepsLeft, StageLeft, InWave
<1>4. CASE UnderWay(w) /\ pc \notin InWave
  <2>1. fate[w] \in {"unread", "read"} /\ pc \in {"agent", "recover", "waves"}
        /\ (fate[w] = "read" => pc # "agent")
    BY <1>4 DEF UnderWay, FateInv, TypeOK, Places
  <2>2. StepsLeft(w) = MaxTotal + 4 + UntilDetected(w)
    BY <1>4 DEF StepsLeft
  <2>3. CASE pc = "agent"
    BY <1>4, <2>2, <2>3 DEF UntilDetected, InWave
  <2>4. CASE pc = "recover"
    BY <1>4, <2>1, <2>2, <2>4 DEF UntilDetected, InWave
  <2>5. CASE pc = "waves"
    BY <1>4, <2>1, <2>2, <2>5 DEF UntilDetected, InWave
  <2> QED BY <2>1, <2>3, <2>4, <2>5
<1> QED BY <1>2, <1>3, <1>4

LEMMA FateKept == IInv /\ IInv' /\ FateInv /\ [Next]_vars => FateInv'
<1> SUFFICES ASSUME IInv, IInv', FateInv, [Next]_vars PROVE FateInv'
  OBVIOUS
<1> USE DEF FateInv, InWave
<1>0. fate \in [Ids -> Fates] /\ TypeOK /\ Placed
  BY DEF IInv, TypeOK
<1>1. CASE Emit
  <2>1. pc' = pc /\ current' = current /\ \A w \in Ids : fate'[w] \in {fate[w], "unread"}
    BY <1>0, <1>1 DEF Emit, wave
  <2> QED BY <2>1
<1>2. CASE EndTurn \/ Recover
  <2>1. /\ pc \in {"agent", "recover"} /\ pc' \in {"recover", "waves"}
        /\ \A w \in Ids : fate'[w] \in {fate[w], "read", "ordinary"}
    BY <1>0, <1>2 DEF EndTurn, Recover, Read
  <2> QED BY <2>1
<1>3. CASE NoWave
  BY <1>0, <1>3 DEF NoWave
<1>4. CASE Detect
  <2>1. PICK v \in Ids :
          /\ fate[v] = "read" /\ current' = v
          /\ fate' = [u \in Ids |-> CASE u = v -> "running"
                                      [] fate[u] = "read" /\ u # v -> "lost"
                                      [] OTHER -> fate[u]]
    BY <1>4 DEF Detect
  <2>2. \A u \in Ids : /\ fate'[u] # "read"
                       /\ fate'[u] = "running" => u = v \/ fate[u] = "running"
    BY <2>1
  <2>3. pc = "waves" /\ pc' = "spawn"
    BY <1>4 DEF Detect
  <2> QED BY <2>1, <2>2, <2>3
<1>5. CASE Spawn \/ SpawnedAll \/ JoinAll \/ CutOff \/ Report
  <2>1. fate' = fate /\ current' = current /\ pc \in InWave /\ pc' \in InWave
    BY <1>5 DEF Spawn, SpawnedAll, JoinAll, CutOff, Report, wave
  <2> QED BY <2>1
<1>6. CASE Reread
  <2>1. PICK f \in Answers :
          fate' = [w \in Ids |-> CASE w = current -> f
                                   [] fate[w] = "unread" -> "lost"
                                   [] OTHER -> fate[w]]
    BY <1>6 DEF Reread
  <2>2. pc = "reread" /\ f \notin {"read", "running"}
    BY <1>6 DEF Reread, Answers
  <2>3. \A w \in Ids : fate'[w] \notin {"read", "running"}
    BY <2>1, <2>2
  <2> QED BY <2>3
<1>7. ASSUME NEW i \in Slots, Worker(i)
      PROVE  FateInv'
  BY <1>7 DEF Worker, Write, AgentExits, ToolExits, AcpEnds, OutputEnds, Garbled, TimeOut,
              Floods, PtyEnds, Result, Fails, wave
<1>8. CASE UNCHANGED vars
  BY <1>8 DEF vars, wave
<1> QED BY <1>1, <1>2, <1>3, <1>4, <1>5, <1>6, <1>7, <1>8 DEF Next, Step

\* What is settled stays settled, and a step of the loop brings what is under way
\* nearer to it.
LEMMA StepNearer ==
  IInv /\ IInv' /\ FateInv /\ FateInv' /\ (Step \/ CutOff)
    => \A w \in Ids : /\ UnderWay(w) => StepsLeft(w)' < StepsLeft(w)
                      /\ fate[w] \in Settled => fate'[w] = fate[w]
<1>1. TypeOK' /\ Placed' /\ FateInv' => LeftKnown'
  BY StepsLeftIs, PTL
<1> SUFFICES ASSUME IInv, IInv', FateInv, FateInv', Step \/ CutOff, NEW w \in Ids
             PROVE  /\ UnderWay(w) => StepsLeft(w)' < StepsLeft(w)
                    /\ fate[w] \in Settled => fate'[w] = fate[w]
  OBVIOUS
<1>2. /\ LeftAt(w) /\ LeftAt(w)'
      /\ TypeOK /\ Placed /\ fate \in [Ids -> Fates]
  BY <1>1, StepsLeftIs DEF IInv, TypeOK, LeftKnown
<1>3. /\ total[current]' \in Nat \/ pc' \notin InWave
      /\ pc \in InWave => total[current] \in 0..MaxTotal /\ spawned \in 0..MaxTotal
                           /\ spawned <= total[current]
  BY DEF IInv, TypeOK, Placed
<1>4. CASE EndTurn
  <2>1. pc = "agent" /\ pc' \in {"recover", "waves"}
        /\ fate'[w] = IF fate[w] = "unread" THEN "read" ELSE fate[w]
    BY <1>2, <1>4 DEF EndTurn, Read
  <2> QED BY <1>2, <2>1 DEF LeftAt, UnderWay, FateInv, InWave, Settled
<1>5. CASE Recover
  <2>1. pc = "recover" /\ pc' = "waves"
        /\ fate'[w] = IF fate[w] = "unread" THEN "ordinary" ELSE fate[w]
    BY <1>2, <1>5 DEF Recover, Read
  <2> QED BY <1>2, <2>1 DEF LeftAt, UnderWay, FateInv, InWave, Settled
<1>6. CASE NoWave
  BY <1>2, <1>6 DEF NoWave, LeftAt, UnderWay, FateInv, InWave, Settled
<1>7. CASE Detect
  <2>1. PICK v \in Ids :
          /\ fate[v] = "read" /\ current' = v
          /\ fate' = [u \in Ids |-> CASE u = v -> "running"
                                      [] fate[u] = "read" /\ u # v -> "lost"
                                      [] OTHER -> fate[u]]
    BY <1>7 DEF Detect
  <2>2. fate[w] \in Settled \cup {"unread", "none"} => fate'[w] = fate[w]
    BY <2>1 DEF Settled
  <2>3. pc = "waves" /\ pc' = "spawn" /\ UNCHANGED <<total, spawned>> /\ spawned = 0
    BY <1>2, <1>7 DEF Detect, workers, Placed, InWave
  <2>4. total'[current'] \in 0..MaxTotal
    BY <2>1, <2>3 DEF IInv, TypeOK
  <2>5. UnderWay(w) => StepsLeft(w) \in {MaxTotal + 5, MaxTotal + 8}
    BY <1>2, <2>3 DEF LeftAt
  <2>6. StepsLeft(w)' <= 4 + MaxTotal
    BY <1>2, <2>3, <2>4 DEF LeftAt
  <2>7. StepsLeft(w)' \in Nat
    BY <1>2 DEF LeftAt
  <2> QED BY <2>2, <2>5, <2>6, <2>7
<1>8. CASE Spawn \/ SpawnedAll \/ JoinAll \/ CutOff \/ Report
  <2>1. fate' = fate /\ current' = current /\ total' = total
    BY <1>8 DEF Spawn, SpawnedAll, JoinAll, CutOff, Report, wave
  <2>2. \/ pc = "spawn" /\ pc' = "spawn" /\ spawned' = spawned + 1
        \/ pc = "spawn" /\ pc' = "collect" /\ spawned = total[current]
        \/ pc = "collect" /\ pc' = "report"
        \/ pc = "report" /\ pc' = "reread"
    BY <1>8 DEF Spawn, SpawnedAll, JoinAll, CutOff, Report
  <2>3. UnderWay(w)' <=> UnderWay(w)
    BY <2>1 DEF UnderWay
  <2> QED BY <1>2, <1>3, <2>1, <2>2, <2>3 DEF LeftAt, InWave
<1>9. CASE Reread
  <2>1. PICK f \in Answers :
          fate' = [v \in Ids |-> CASE v = current -> f
                                   [] fate[v] = "unread" -> "lost"
                                   [] OTHER -> fate[v]]
    BY <1>9 DEF Reread
  <2>2. pc = "reread" /\ f \in Settled
    BY <1>9 DEF Reread, Answers, Settled
  <2>3. fate[w] = "running" => w = current
    BY DEF FateInv
  <2>4. fate[w] # "read" /\ fate[current] = "running"
    BY <1>2, <2>2 DEF FateInv, Placed, InWave
  <2>5. UnderWay(w) => fate'[w] \in Settled
    BY <2>1, <2>2, <2>3, <2>4 DEF UnderWay, Settled
  <2>6. fate[w] \in Settled => fate'[w] = fate[w]
    BY <2>1, <2>4 DEF Settled
  <2>7. UnderWay(w) => StepsLeft(w) = 1 /\ StepsLeft(w)' = 0
    BY <1>2, <2>2, <2>5 DEF LeftAt, UnderWay, Settled
  <2> QED BY <2>6, <2>7
<1> QED BY <1>4, <1>5, <1>6, <1>7, <1>8, <1>9 DEF Step

\* Nothing else brings it nearer or takes it away: not what is emitted, not what
\* the workers do.
LEMMA OthersWait ==
  IInv /\ (Emit \/ \E i \in Slots : Worker(i))
    => \A w \in Ids : fate[w] # "none" =>
         StepsLeft(w)' = StepsLeft(w) /\ fate'[w] = fate[w]
<1> SUFFICES ASSUME IInv, Emit \/ \E i \in Slots : Worker(i), NEW w \in Ids, fate[w] # "none"
             PROVE  StepsLeft(w)' = StepsLeft(w) /\ fate'[w] = fate[w]
  OBVIOUS
<1>1. /\ pc' = pc /\ current' = current /\ spawned' = spawned /\ fate'[w] = fate[w]
      /\ pc \in InWave => total'[current] = total[current]
  <2>1. CASE Emit
    BY <2>1 DEF Emit, wave, IInv, TypeOK, Placed
  <2>2. ASSUME NEW i \in Slots, Worker(i)
        PROVE  UNCHANGED <<pc, fate, total, wave>>
    BY <2>2 DEF Worker, Write, AgentExits, ToolExits, AcpEnds, OutputEnds, Garbled,
                TimeOut, Floods, PtyEnds, Result, Fails
  <2> QED BY <2>1, <2>2 DEF wave
<1>2. StageLeft' = StageLeft \/ pc \notin InWave
  BY <1>1 DEF StageLeft, InWave
<1>3. UntilDetected(w)' = UntilDetected(w) /\ (UnderWay(w)' <=> UnderWay(w))
  BY <1>1 DEF UntilDetected, UnderWay
<1> QED BY <1>1, <1>2, <1>3 DEF StepsLeft

LEMMA WorkLeftIs ==
  /\ TaskLeft("runs") = 2 /\ TaskLeft("waits") = 1 /\ TaskLeft("deaf") = 1
  /\ TaskLeft("none") = 0 /\ TaskLeft("ended") = 0 /\ TaskLeft("stuck") = 0
  /\ ProcessLeft("agent") = 2 /\ ProcessLeft("tool") = 1
  /\ ProcessLeft("none") = 0 /\ ProcessLeft("gone") = 0 /\ ProcessLeft("stray") = 0
BY DEF TaskLeft, ProcessLeft

\* Each step of a worker leaves less of its own work, and all of the others'.
LEMMA WorkIsDone ==
  ASSUME TypeOK, NEW i \in Slots, Worker(i), ~UNCHANGED vars
  PROVE  /\ WorkLeft(i)' < WorkLeft(i)
         /\ \A j \in Slots \ {i} : WorkLeft(j)' = WorkLeft(j)
<1> USE WorkLeftIs DEF WorkLeft, workers, wave, Procs
<1>0. WorkersTyped
  BY DEF TypeOK, WorkersTyped
<1>1. CASE Write(i)
  <2>1. wrote' = [wrote EXCEPT ![i] = TRUE] /\ task' = task /\ proc' = proc /\ wrote' # wrote
    BY <1>1 DEF Write, vars
  <2>2. ~wrote[i] /\ wrote'[i]
    BY <1>0, <2>1 DEF WorkersTyped
  <2> QED BY <1>0, <2>1, <2>2 DEF WorkersTyped, Busy
<1>2. CASE AgentExits(i) \/ ToolExits(i)
  BY <1>0, <1>2 DEF AgentExits, ToolExits, WorkersTyped, Busy
<1>3. CASE OutputEnds(i) \/ Garbled(i)
  BY <1>0, <1>3 DEF OutputEnds, Garbled, WorkersTyped, Busy
<1>4. CASE TimeOut(i) \/ Floods(i)
  BY <1>0, <1>4 DEF TimeOut, Floods, WorkersTyped, Busy
<1>5. CASE AcpEnds(i)
  <2>1. /\ task[i] = "runs" /\ task' = [task EXCEPT ![i] = "ended"]
        /\ proc' = [proc EXCEPT ![i] = "gone"] /\ wrote' = wrote
    BY <1>5 DEF AcpEnds, Result, Fails
  <2>2. /\ task'[i] = "ended" /\ proc'[i] = "gone"
        /\ \A j \in Slots \ {i} : task'[j] = task[j] /\ proc'[j] = proc[j]
    BY <1>0, <2>1 DEF WorkersTyped
  <2> QED BY <1>0, <2>1, <2>2 DEF WorkersTyped
<1>6. CASE PtyEnds(i)
  BY <1>0, <1>6 DEF PtyEnds, Result, WorkersTyped, Busy
<1> QED BY <1>1, <1>2, <1>3, <1>4, <1>5, <1>6 DEF Worker

LEMMA OnlyWorkersAreWaitedFor == IInv => WaitsForWorkers
<1> SUFFICES ASSUME IInv, ~CanGoOn PROVE \E i \in Of(current) : task[i] \in Busy
  <2>1. IInv => \A i \in Slots : task[i] \in Busy => CanMove(i) \/ task[i] = "stuck"
    BY DEF IInv, Accounted, CanMove, Busy
  <2> QED BY <2>1 DEF WaitsForWorkers, Of
<1>1. /\ pc \in {"spawn", "collect", "report"} /\ spawned <= total[current]
      /\ total[current] \in Nat /\ spawned \in Nat
      /\ \A i \in Slots : task[i] # "none" <=> i < spawned
      /\ \A i \in Slots : task[i] \in {"none", "ended"} \cup Busy
      /\ pc # "spawn" => spawned = total[current]
  BY DEF IInv, TypeOK, Placed, CanGoOn, InWave
<1>2. CASE pc = "spawn"
  <2>1. ~(Cardinality(Taken) < Concurrency)
    BY <1>2 DEF CanGoOn
  <2>2. Taken # {}
    BY <2>1, FS_EmptySet
  <2>3. PICK i \in Slots : task[i] \in Busy
    BY <2>2 DEF Taken
  <2>4. i < spawned /\ i \in Nat
    BY <1>1, <2>3, SlotsFinite DEF Busy
  <2> QED BY <1>1, <2>3, <2>4 DEF Of
<1>3. CASE pc \in {"collect", "report"}
  <2>1. PICK i \in Of(current) : task[i] # "ended"
    BY <1>3 DEF CanGoOn, Ended
  <2>2. task[i] # "none"
    BY <1>1, <1>3, <2>1 DEF Of
  <2> QED BY <1>1, <2>1, <2>2 DEF Of
<1> QED BY <1>1, <1>2, <1>3

\* From its emission on a wave is settled within MaxTotal + 9 steps of the loop,
\* whatever the workers and what they leave behind do: each step of the loop, be
\* it for this wave or another, leaves fewer, and nothing else changes them; and
\* what is settled stays settled.  The loop waits only for workers of the wave
\* that are not over, and each of their steps leaves less of their work; one that
\* is stuck takes none and is waited for for ever, which WavesSettle exempts.
THEOREM WavesAdvance ==
  Spec => /\ [](WaitsForWorkers /\ \A w \in Ids : StepsLeft(w) \in 0..(MaxTotal + 9))
          /\ [][Step \/ CutOff =>
                  \A w \in Ids : UnderWay(w) => StepsLeft(w)' < StepsLeft(w)]_vars
          /\ [][~(Step \/ CutOff) =>
                  \A w \in Ids : fate[w] # "none" => StepsLeft(w)' = StepsLeft(w)]_vars
          /\ [][\A w \in Ids : fate[w] \in Settled => fate'[w] = fate[w]]_vars
          /\ [][\A i \in Slots : Worker(i) =>
                  /\ WorkLeft(i)' < WorkLeft(i)
                  /\ \A j \in Slots \ {i} : WorkLeft(j)' = WorkLeft(j)]_vars
<1>1. Init => FateInv
  BY DEF Init, FateInv
<1>2. IInv /\ FateInv => WaitsForWorkers /\ \A w \in Ids : StepsLeft(w) \in 0..(MaxTotal + 9)
  BY OnlyWorkersAreWaitedFor, StepsLeftIs DEF IInv, LeftKnown, LeftAt
<1>3. IInv /\ IInv' /\ FateInv /\ FateInv' /\ [Next]_vars
        => /\ [Step \/ CutOff =>
                 \A w \in Ids : UnderWay(w) => StepsLeft(w)' < StepsLeft(w)]_vars
           /\ [~(Step \/ CutOff) =>
                 \A w \in Ids : fate[w] # "none" => StepsLeft(w)' = StepsLeft(w)]_vars
           /\ [\A w \in Ids : fate[w] \in Settled => fate'[w] = fate[w]]_vars
  <2>1. \A w \in Ids : fate[w] \in Settled => fate[w] # "none"
    BY DEF Settled
  <2> QED BY <2>1, StepNearer, OthersWait DEF Next
<1>4. IInv /\ [Next]_vars
        => [\A i \in Slots : Worker(i) =>
              /\ WorkLeft(i)' < WorkLeft(i)
              /\ \A j \in Slots \ {i} : WorkLeft(j)' = WorkLeft(j)]_vars
  BY WorkIsDone DEF IInv
<1> QED BY <1>1, <1>2, <1>3, <1>4, Invariance, FateKept, PTL DEF Spec
=============================================================================

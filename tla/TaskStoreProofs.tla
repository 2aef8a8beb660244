--------------------------- MODULE TaskStoreProofs ---------------------------
(***************************************************************************)
(* Theorems about TaskStore, for any number of processes, tasks, keys and  *)
(* commands: the types are right, no key ever has two tasks, and what the  *)
(* commands have answered is in the file unless add, close or fail wrote   *)
(* an old copy or a writer was killed.                                     *)
(***************************************************************************)
EXTENDS TaskStore, TLAPS

USE ConstantsAssumption

\* The command of a client that has not written yet.
Pending(c) == pc[c] = "loaded" /\ cmd[c] \in Creating

\* No command is lost from sight while it runs.
Busy == \A c \in Clients : pc[c] # "idle" => cmd[c] \in Commands

\* An id that is to be added is nowhere yet, and is nobody else's.
IdsFresh ==
  /\ \A t \in Items(file) : t.id \in made
  /\ \A c \in Clients : \A t \in Items(copy[c]) : t.id \in made
  /\ \A c \in Clients : Pending(c) =>
       /\ cmd[c].id \in made
       /\ ~Has(file, cmd[c].id)
       /\ \A d \in Clients : ~Has(copy[d], cmd[c].id)
       /\ \A d \in Clients : Pending(d) /\ d # c => cmd[d].id # cmd[c].id

AllDistinct == Distinct(file) /\ \A c \in Clients : Distinct(copy[c])

\* The lock: one writer, and it has emptied the file.
OneWriter ==
  /\ \A c, d \in Clients : pc[c] = "writing" /\ pc[d] = "writing" => c = d

\* A copy that is not stale is the file.
StaleIsRight ==
  \A c \in Clients : pc[c] = "loaded" /\ c \notin stale => Free /\ copy[c] = file

\* What an answer will add to those given.
AfterAnswer(tasks, c) ==
  LET answer == About(tasks, c)
  IN {t \in told : \A u \in answer : u.id # t.id} \cup answer

AnswersAgree ==
  ~overtaken /\ kills = 0 =>
    /\ Free => Items(file) = told
    /\ \A c \in Clients : pc[c] = "writing" => Items(copy[c]) = AfterAnswer(copy[c], cmd[c])

IInv ==
  /\ TypeOK /\ Busy
  /\ IdsFresh /\ AllDistinct
  /\ OneWriter /\ StaleIsRight /\ AnswersAgree

-----------------------------------------------------------------------------
(* What a command does to the tasks *)

\* The tasks after a task was appended.
LEMMA ItemsOfAppend ==
  ASSUME NEW S, NEW tasks \in Seq(S), NEW t \in S
  PROVE  Items(Append(tasks, t)) = Items(tasks) \cup {t}
<1> DEFINE longer == Append(tasks, t)
<1>1. /\ DOMAIN tasks = 1..Len(tasks) /\ Len(tasks) \in Nat
      /\ DOMAIN longer = 1..Len(tasks) + 1
      /\ \A i \in 1..Len(tasks) : longer[i] = tasks[i]
      /\ longer[Len(tasks) + 1] = t
  OBVIOUS
<1> HIDE DEF longer
<1>2. \A i \in 1..Len(tasks) + 1 : i \in 1..Len(tasks) \/ i = Len(tasks) + 1
  BY <1>1
<1>3. 1..Len(tasks) \subseteq 1..Len(tasks) + 1 /\ Len(tasks) + 1 \in 1..Len(tasks) + 1
  BY <1>1
<1>4. ASSUME NEW u \in Items(longer) PROVE u \in Items(tasks) \cup {t}
  BY <1>1, <1>2 DEF Items
<1>5. ASSUME NEW u \in Items(tasks) \cup {t} PROVE u \in Items(longer)
  BY <1>1, <1>3 DEF Items
<1>6. Items(longer) = Items(tasks) \cup {t}
  BY <1>4, <1>5
<1> QED
  BY <1>6 DEF longer

\* A command leaves tasks.
LEMMA ApplyType ==
  ASSUME NEW tasks \in Seq(Tasks), NEW c \in Commands
  PROVE  Apply(tasks, c) \in Seq(Tasks)
<1>1. CASE c \in Creating
  <2>1. c.op \in {"add", "ensure"} /\ c.id \in Ids /\ c.key \in Keys \cup {NoKey}
    BY <1>1 DEF Creating, Command
  <2>2. Added(tasks, c) \in Seq(Tasks)
    BY <2>1 DEF Added, Tasks, Statuses
  <2> QED
    BY <2>1, <2>2 DEF Apply, Ensured
<1>2. CASE c \in Changing
  <2>1. c.op \in {"start", "close", "fail", "reopen"} /\ c.id \in Ids
    BY <1>2 DEF Changing, Command
  <2>2. StatusOf(c.op) \in Statuses
    BY <2>1 DEF StatusOf, Statuses
  <2>3. ASSUME NEW i \in DOMAIN tasks
        PROVE  /\ tasks[i] \in Tasks
               /\ [tasks[i] EXCEPT !.status = StatusOf(c.op)] \in Tasks
    <3>1. tasks[i] \in Tasks
      OBVIOUS
    <3> QED
      BY <2>2, <3>1 DEF Tasks
  <2>4. Changed(tasks, c) \in Seq(Tasks)
    BY <2>3 DEF Changed
  <2> QED
    BY <2>1, <2>4 DEF Apply
<1> QED
  BY <1>1, <1>2 DEF Commands

\* The tasks after a command are those before it, without that of the answer,
\* and the answer.
LEMMA ApplyItems ==
  ASSUME NEW tasks \in Seq(Tasks), NEW c \in Commands, Distinct(Apply(tasks, c))
  PROVE  LET answer == About(Apply(tasks, c), c)
         IN Items(Apply(tasks, c))
              = {t \in Items(tasks) : \A u \in answer : u.id # t.id} \cup answer
<1> DEFINE after == Apply(tasks, c)
           answer == About(after, c)
<1>0. after \in Seq(Tasks) /\ answer \subseteq Items(after)
  BY ApplyType DEF About
<1>1. CASE c \in Creating
  <2>1. /\ c.op \in {"add", "ensure"} /\ c.id \in Ids /\ c.key \in Keys \cup {NoKey}
    BY <1>1 DEF Creating, Command
  <2> DEFINE new == [id |-> c.id, key |-> c.key, status |-> "open"]
  <2>2. new \in Tasks /\ Added(tasks, c) = Append(tasks, new)
    BY <2>1 DEF Added, Tasks, Statuses
  <2>3. Items(Added(tasks, c)) = Items(tasks) \cup {new}
    BY <2>2, ItemsOfAppend
  <2>4. after = tasks \/ (after = Added(tasks, c) /\ new \in answer)
    <3>1. new \in About(Added(tasks, c), c)
      BY <2>1, <2>3 DEF About
    <3> QED
      BY <2>1, <3>1 DEF Apply, Ensured
  <2>5. \A t \in Items(after), u \in Items(after) : t.id = u.id => t = u
    BY DEF Distinct, Items
  <2>6. Items(tasks) \subseteq Items(after)
    BY <2>3, <2>4
  <2>7. \A t \in Items(tasks) : (\A u \in answer : u.id # t.id) \/ t \in answer
    BY <1>0, <2>5, <2>6
  <2> QED
    BY <1>0, <2>3, <2>4, <2>6, <2>7
<1>2. CASE c \in Changing
  <2>1. c.op \in {"start", "close", "fail", "reopen"} /\ c.id \in Ids
    BY <1>2 DEF Changing, Command
  <2>2. after = Changed(tasks, c)
    BY <2>1 DEF Apply
  <2>3. /\ DOMAIN after = DOMAIN tasks
        /\ \A i \in DOMAIN tasks :
             /\ after[i].id = tasks[i].id
             /\ tasks[i].id # c.id => after[i] = tasks[i]
    <3>1. \A i \in DOMAIN tasks : tasks[i] \in Tasks
      OBVIOUS
    <3> QED
      BY <2>2, <3>1 DEF Changed, Tasks
  <2>4. answer = {t \in Items(after) : t.id = c.id}
    BY <2>1 DEF About
  <2>5. \A u \in answer : u.id = c.id
    BY <2>4
  <2>6. ASSUME NEW t \in Items(after) PROVE t \in answer \/ (t \in Items(tasks) /\ t.id # c.id)
    BY <2>3, <2>4 DEF Items
  <2>7. ASSUME NEW t \in Items(tasks), \A u \in answer : u.id # t.id PROVE t \in Items(after)
    <3>1. PICK i \in DOMAIN tasks : t = tasks[i]
      BY DEF Items
    <3>2. t.id # c.id
      <4>1. after[i] \in Items(after) /\ after[i].id = t.id
        BY <2>3, <3>1 DEF Items
      <4> QED
        BY <2>4, <2>7, <4>1
    <3> QED
      BY <2>3, <3>1, <3>2 DEF Items
  <2> QED
    BY <1>0, <2>5, <2>6, <2>7
<1> QED
  BY <1>1, <1>2 DEF Commands

\* A command brings at most its own id.
LEMMA ApplyIds ==
  ASSUME NEW tasks \in Seq(Tasks), NEW c \in Commands,
         NEW t \in Items(Apply(tasks, c))
  PROVE  Has(tasks, t.id) \/ (c \in Creating /\ t.id = c.id)
<1>1. CASE c \in Creating
  <2>1. c.op \in {"add", "ensure"} /\ c.id \in Ids /\ c.key \in Keys \cup {NoKey}
    BY <1>1 DEF Creating, Command
  <2> DEFINE new == [id |-> c.id, key |-> c.key, status |-> "open"]
  <2>2. new \in Tasks /\ Added(tasks, c) = Append(tasks, new)
    BY <2>1 DEF Added, Tasks, Statuses
  <2>3. Items(Added(tasks, c)) = Items(tasks) \cup {new}
    BY <2>2, ItemsOfAppend
  <2>4. Items(Apply(tasks, c)) \subseteq Items(tasks) \cup {new}
    BY <2>1, <2>3 DEF Apply, Ensured
  <2> QED
    BY <1>1, <2>4 DEF Has
<1>2. CASE c \in Changing
  <2>1. Apply(tasks, c) = Changed(tasks, c)
    BY <1>2 DEF Changing, Command, Apply
  <2>2. PICK i \in DOMAIN tasks : t = Changed(tasks, c)[i]
    BY <2>1 DEF Items, Changed
  <2>3. tasks[i] \in Tasks /\ tasks[i] \in Items(tasks)
    BY DEF Items
  <2>4. t.id = tasks[i].id
    BY <2>2, <2>3 DEF Changed, Tasks
  <2> QED
    BY <2>3, <2>4 DEF Has
<1> QED
  BY <1>1, <1>2 DEF Commands

\* A command keeps ids and keys apart, if the id it brings is a new one.
LEMMA ApplyDistinct ==
  ASSUME NEW tasks \in Seq(Tasks), NEW c \in Commands,
         Distinct(tasks),
         c \in Creating => ~Has(tasks, c.id)
  PROVE  Distinct(Apply(tasks, c))
<1>1. CASE c \in Creating
  <2>1. /\ (c.op = "add" /\ c.key = NoKey) \/ c.op = "ensure"
        /\ c.id \in Ids /\ c.key \in Keys \cup {NoKey}
    BY <1>1 DEF Creating, Command
  <2> DEFINE new == [id |-> c.id, key |-> c.key, status |-> "open"]
             longer == Append(tasks, new)
  <2>2. new \in Tasks /\ Added(tasks, c) = longer
    BY <2>1 DEF Added, Tasks, Statuses
  <2>3. /\ DOMAIN tasks = 1..Len(tasks) /\ Len(tasks) \in Nat
        /\ DOMAIN longer = 1..Len(tasks) + 1
        /\ \A i \in 1..Len(tasks) : longer[i] = tasks[i]
        /\ longer[Len(tasks) + 1] = new
    BY <2>2
  <2>4. new.id = c.id /\ new.key = c.key
    OBVIOUS
  <2>5. \A i \in DOMAIN tasks : tasks[i].id # c.id
    BY <1>1 DEF Has, Items
  <2> HIDE DEF new, longer
  <2>6. ASSUME c.key = NoKey \/ ~HasKey(tasks, c.key) PROVE Distinct(longer)
    <3>1. \A i \in DOMAIN tasks : tasks[i].key = c.key => c.key = NoKey
      BY <2>6 DEF HasKey, Items
    <3>2. SUFFICES ASSUME NEW i \in DOMAIN longer, NEW j \in DOMAIN longer, i # j
                   PROVE  /\ longer[i].id # longer[j].id
                          /\ longer[i].key = longer[j].key => longer[i].key = NoKey
      BY DEF Distinct
    <3>3. \/ i \in DOMAIN tasks /\ j \in DOMAIN tasks
          \/ i \in DOMAIN tasks /\ j = Len(tasks) + 1
          \/ i = Len(tasks) + 1 /\ j \in DOMAIN tasks
      BY <2>3, <3>2
    <3> QED
      BY <2>3, <2>4, <2>5, <3>1, <3>2, <3>3 DEF Distinct
  <2> QED
    BY <2>1, <2>2, <2>6 DEF Apply, Ensured
<1>2. CASE c \in Changing
  <2>1. Apply(tasks, c) = Changed(tasks, c)
    BY <1>2 DEF Changing, Command, Apply
  <2>2. \A i \in DOMAIN tasks : tasks[i] \in Tasks
    OBVIOUS
  <2>3. /\ DOMAIN Changed(tasks, c) = DOMAIN tasks
        /\ \A i \in DOMAIN tasks : /\ Changed(tasks, c)[i].id = tasks[i].id
                                   /\ Changed(tasks, c)[i].key = tasks[i].key
    BY <2>2 DEF Changed, Tasks
  <2> QED
    BY <2>1, <2>3 DEF Distinct
<1> QED
  BY <1>1, <1>2 DEF Commands

\* What a kill leaves of the tasks.
LEMMA PrefixFacts ==
  ASSUME NEW tasks \in Seq(Tasks), NEW n \in 0..Len(tasks)
  PROVE  LET left == SubSeq(tasks, 1, n)
         IN /\ left \in Seq(Tasks)
            /\ Items(left) \subseteq Items(tasks)
            /\ Distinct(tasks) => Distinct(left)
<1> DEFINE left == SubSeq(tasks, 1, n)
<1>1. /\ left \in Seq(Tasks) /\ DOMAIN left = 1..n
      /\ \A i \in 1..n : left[i] = tasks[i]
      /\ 1..n \subseteq DOMAIN tasks
  OBVIOUS
<1> HIDE DEF left
<1>2. Items(left) \subseteq Items(tasks)
  BY <1>1 DEF Items
<1>3. Distinct(tasks) => Distinct(left)
  BY <1>1 DEF Distinct
<1> QED
  BY <1>1, <1>2, <1>3 DEF left

LEMMA EmptyFacts == <<>> \in Seq(Tasks) /\ Items(<<>>) = {} /\ Distinct(<<>>)
  BY DEF Items, Distinct

-----------------------------------------------------------------------------
(* The steps *)

LEMMA InitEstablishes == ASSUME Init PROVE IInv
<1>1. TypeOK
  <2>1. /\ pc \in [Clients -> {"idle", "loaded", "writing"}]
        /\ cmd \in [Clients -> Commands \cup {NoKey}]
        /\ copy \in [Clients -> Seq(Tasks)]
    BY EmptyFacts DEF Init
  <2>2. runs \in 0..MaxRuns /\ kills \in 0..MaxKills
    BY DEF Init
  <2>3. made \subseteq Ids /\ told \subseteq Tasks /\ stale \subseteq Clients
    BY Zenon DEF Init
  <2> QED
    BY EmptyFacts, <2>1, <2>2, <2>3 DEF Init, TypeOK
<1>2. Items(file) = {} /\ \A c \in Clients : pc[c] = "idle" /\ Items(copy[c]) = {}
  BY EmptyFacts DEF Init
<1>3. IdsFresh
  BY <1>2 DEF IdsFresh, Pending
<1>4. AllDistinct
  BY EmptyFacts DEF Init, AllDistinct
<1>5. AnswersAgree
  BY <1>2 DEF Init, AnswersAgree
<1> QED
  BY <1>1, <1>2, <1>3, <1>4, <1>5 DEF IInv, Busy, OneWriter, StaleIsRight

LEMMA LoadKeeps == ASSUME IInv, NEW c \in Clients, Load(c) PROVE IInv'
<1> USE DEF IInv
<1>1. PICK d \in Commands :
        /\ d \in Creating => d.id \notin made
        /\ d \in Changing => d.id \in made
        /\ cmd' = [cmd EXCEPT ![c] = d]
        /\ made' = made \cup {d.id}
  BY DEF Load
<1>2. d.id \in Ids
  BY DEF Commands, Creating, Changing, Command
<1>3. /\ Free /\ runs < MaxRuns /\ runs' = runs + 1
      /\ copy' = [copy EXCEPT ![c] = file]
      /\ pc' = [pc EXCEPT ![c] = "loaded"]
      /\ stale' = stale \ {c}
      /\ UNCHANGED <<file, told, overtaken, kills>>
  BY DEF Load
<1>4. TypeOK'
  BY <1>1, <1>2, <1>3 DEF TypeOK
<1>5. /\ \A e \in Clients : cmd'[e] = IF e = c THEN d ELSE cmd[e]
      /\ \A e \in Clients : pc'[e] = IF e = c THEN "loaded" ELSE pc[e]
      /\ \A e \in Clients : copy'[e] = IF e = c THEN file ELSE copy[e]
  BY <1>1, <1>3 DEF TypeOK
<1>6. Busy'
  BY <1>5 DEF Busy
<1>7. IdsFresh'
  <2>1. \A t \in Items(file') : t.id \in made'
    BY <1>1, <1>3 DEF IdsFresh
  <2>2. \A e \in Clients : \A t \in Items(copy'[e]) : t.id \in made'
    BY <1>1, <1>5 DEF IdsFresh
  <2>3. ASSUME NEW e \in Clients, Pending(e)'
        PROVE  /\ cmd'[e].id \in made'
               /\ ~Has(file', cmd'[e].id)
               /\ \A f \in Clients : ~Has(copy'[f], cmd'[e].id)
               /\ \A f \in Clients : Pending(f)' /\ f # e => cmd'[f].id # cmd'[e].id
    <3>1. CASE e = c
      <4>1. d \in Creating /\ d.id \notin made /\ cmd'[e] = d
        BY <1>1, <1>5, <2>3, <3>1 DEF Pending
      <4>2. \A f \in Clients : Pending(f)' /\ f # e => cmd'[f].id \in made
        BY <1>5, <3>1 DEF Pending, IdsFresh
      <4>3. ~Has(file, d.id) /\ \A f \in Clients : ~Has(copy[f], d.id)
        BY <4>1 DEF IdsFresh, Has
      <4> QED
        BY <1>1, <1>3, <1>5, <4>1, <4>2, <4>3
    <3>2. CASE e # c
      <4>1. Pending(e) /\ cmd'[e] = cmd[e]
        BY <1>5, <2>3, <3>2 DEF Pending
      <4>2. cmd[e].id \in made /\ ~Has(file, cmd[e].id) /\ \A f \in Clients : ~Has(copy[f], cmd[e].id)
        BY <4>1 DEF IdsFresh
      <4>3. ASSUME NEW f \in Clients, Pending(f)', f # e PROVE cmd'[f].id # cmd'[e].id
        <5>1. CASE f = c
          BY <1>1, <1>5, <4>1, <4>2, <4>3, <5>1 DEF Pending
        <5>2. CASE f # c
          BY <1>5, <4>1, <4>3, <5>2 DEF Pending, IdsFresh
        <5> QED
          BY <5>1, <5>2
      <4> QED
        BY <1>1, <1>3, <1>5, <4>1, <4>2, <4>3
    <3> QED
      BY <3>1, <3>2
  <2> QED
    BY <2>1, <2>2, <2>3 DEF IdsFresh
<1>8. AllDistinct'
  BY <1>3, <1>5 DEF AllDistinct
<1>9. OneWriter' /\ Free'
  BY <1>3, <1>5 DEF OneWriter, Free
<1>10. StaleIsRight'
  BY <1>3, <1>5, <1>9 DEF StaleIsRight
<1>11. AnswersAgree'
  BY <1>3, <1>9 DEF AnswersAgree, Free
<1> QED
  BY <1>4, <1>6, <1>7, <1>8, <1>9, <1>10, <1>11

LEMMA TruncateKeeps == ASSUME IInv, NEW c \in Clients, Truncate(c) PROVE IInv'
<1> USE DEF IInv
<1> DEFINE after == Apply(Base(c), cmd[c])
<1>1. /\ pc[c] = "loaded" /\ Free
      /\ copy' = [copy EXCEPT ![c] = after]
      /\ file' = <<>>
      /\ pc' = [pc EXCEPT ![c] = "writing"]
      /\ overtaken' = (overtaken \/ (c \in stale /\ cmd[c].op \in {"add", "close", "fail"}))
      /\ stale' = (stale \cup {d \in Clients : pc[d] = "loaded"}) \ {c}
      /\ UNCHANGED <<cmd, made, told, runs, kills>>
  BY DEF Truncate
<1>2. cmd[c] \in Commands /\ Base(c) \in Seq(Tasks)
  BY <1>1 DEF Busy, TypeOK, Base
<1>3. Distinct(Base(c)) /\ (cmd[c] \in Creating => ~Has(Base(c), cmd[c].id))
  <2>1. cmd[c] \in Creating => ~Has(file, cmd[c].id) /\ ~Has(copy[c], cmd[c].id)
    BY <1>1 DEF IdsFresh, Pending
  <2> QED
    BY <2>1 DEF Base, AllDistinct
<1>4. after \in Seq(Tasks) /\ Distinct(after)
  BY <1>2, <1>3, ApplyType, ApplyDistinct
<1>5. \A t \in Items(after) : Has(Base(c), t.id) \/ (cmd[c] \in Creating /\ t.id = cmd[c].id)
  BY <1>2, ApplyIds
<1> HIDE DEF after
<1>6. /\ \A e \in Clients : pc'[e] = IF e = c THEN "writing" ELSE pc[e]
      /\ \A e \in Clients : copy'[e] = IF e = c THEN after ELSE copy[e]
  BY <1>1 DEF TypeOK
<1>7. TypeOK'
  <2>1. stale' \subseteq Clients /\ overtaken' \in BOOLEAN
    BY <1>1 DEF TypeOK
  <2>2. pc' \in [Clients -> {"idle", "loaded", "writing"}]
    BY <1>1 DEF TypeOK
  <2>3. copy' \in [Clients -> Seq(Tasks)]
    BY <1>1, <1>4 DEF TypeOK
  <2> QED
    BY <1>1, <2>1, <2>2, <2>3, EmptyFacts DEF TypeOK
<1>8. Busy'
  BY <1>1, <1>6 DEF Busy
<1>9. IdsFresh'
  <2>1. \A e \in Clients : Pending(e)' => e # c /\ Pending(e)
    BY <1>1, <1>6 DEF Pending
  <2>2. \A t \in Items(after) : t.id \in made
    <3>1. cmd[c] \in Creating => cmd[c].id \in made
      BY <1>1 DEF IdsFresh, Pending
    <3>2. \A id : Has(Base(c), id) => id \in made
      BY DEF Has, Base, IdsFresh
    <3> QED
      BY <1>5, <3>1, <3>2
  <2>3. ASSUME NEW e \in Clients, Pending(e), e # c PROVE ~Has(after, cmd[e].id)
    <3>1. ~Has(Base(c), cmd[e].id)
      BY <2>3 DEF Base, IdsFresh
    <3>2. cmd[c] \in Creating => cmd[c].id # cmd[e].id
      BY <1>1, <2>3 DEF Pending, IdsFresh
    <3> QED
      BY <1>5, <3>1, <3>2 DEF Has
  <2>4. \A id : ~Has(file', id)
    BY <1>1, EmptyFacts DEF Has
  <2>5. \A t \in Items(file') : t.id \in made'
    BY <1>1, EmptyFacts
  <2>6. \A e \in Clients : \A t \in Items(copy'[e]) : t.id \in made'
    BY <1>1, <1>6, <2>2 DEF IdsFresh
  <2>7. ASSUME NEW e \in Clients, Pending(e)'
        PROVE  /\ cmd'[e].id \in made'
               /\ ~Has(file', cmd'[e].id)
               /\ \A f \in Clients : ~Has(copy'[f], cmd'[e].id)
               /\ \A f \in Clients : Pending(f)' /\ f # e => cmd'[f].id # cmd'[e].id
    <3>1. Pending(e) /\ e # c
      BY <2>1, <2>7
    <3>2. cmd[e].id \in made /\ \A f \in Clients : ~Has(copy[f], cmd[e].id)
      BY <3>1 DEF IdsFresh
    <3>3. \A f \in Clients : Pending(f)' /\ f # e => cmd[f].id # cmd[e].id
      BY <2>1, <3>1 DEF IdsFresh
    <3> QED
      BY <1>1, <1>6, <2>3, <2>4, <3>1, <3>2, <3>3
  <2> QED
    BY <2>5, <2>6, <2>7 DEF IdsFresh
<1>10. AllDistinct'
  BY <1>1, <1>4, <1>6, EmptyFacts DEF AllDistinct
<1>11. OneWriter'
  BY <1>1, <1>6 DEF OneWriter, Free
<1>12. ~Free' /\ \A e \in Clients : pc'[e] = "loaded" => e \in stale'
  BY <1>1, <1>6 DEF Free
<1>13. StaleIsRight'
  BY <1>12 DEF StaleIsRight
<1>14. AnswersAgree'
  <2> SUFFICES ASSUME ~overtaken', kills' = 0, NEW d \in Clients, pc'[d] = "writing"
               PROVE  Items(copy'[d]) = AfterAnswer(copy[d], cmd[d])'
    BY <1>12 DEF AnswersAgree
  <2>1. d = c
    BY <1>1, <1>6 DEF Free
  <2>2. Base(c) = file
    <3>1. c \notin stale => copy[c] = file
      BY <1>1 DEF StaleIsRight
    <3>2. cmd[c].op \in {"add", "ensure", "start", "close", "fail", "reopen"}
      BY <1>2 DEF Commands, Creating, Changing, Command
    <3> QED
      BY <1>1, <3>1, <3>2 DEF Base
  <2>3. Items(file) = told
    BY <1>1 DEF AnswersAgree
  <2>4. Items(after) = AfterAnswer(after, cmd[c])
    BY <1>2, <1>4, <2>2, <2>3, ApplyItems DEF AfterAnswer, after
  <2> QED
    BY <1>1, <1>6, <2>1, <2>4 DEF AfterAnswer
<1> QED
  BY <1>7, <1>8, <1>9, <1>10, <1>11, <1>13, <1>14

\* What a written and a killed command have in common: the file holds tasks
\* that it was to write.
LEMMA EndKeeps ==
  ASSUME IInv, NEW c \in Clients, pc[c] = "writing", Ended(c),
         file' \in Seq(Tasks), Items(file') \subseteq Items(copy[c]), Distinct(file'),
         UNCHANGED <<made, stale, overtaken, runs>>
  PROVE  /\ pc' \in [Clients -> {"idle", "loaded", "writing"}]
         /\ cmd' \in [Clients -> Commands \cup {NoKey}]
         /\ copy' \in [Clients -> Seq(Tasks)]
         /\ Busy' /\ IdsFresh' /\ AllDistinct' /\ OneWriter' /\ StaleIsRight' /\ Free'
<1> USE DEF IInv
<1>1. /\ pc' = [pc EXCEPT ![c] = "idle"]
      /\ cmd' = [cmd EXCEPT ![c] = NoKey]
      /\ copy' = [copy EXCEPT ![c] = <<>>]
  BY DEF Ended
<1>2. /\ pc' \in [Clients -> {"idle", "loaded", "writing"}]
      /\ cmd' \in [Clients -> Commands \cup {NoKey}]
      /\ copy' \in [Clients -> Seq(Tasks)]
  BY <1>1, EmptyFacts DEF TypeOK
<1>3. /\ \A e \in Clients : pc'[e] = IF e = c THEN "idle" ELSE pc[e]
      /\ \A e \in Clients : cmd'[e] = IF e = c THEN NoKey ELSE cmd[e]
      /\ \A e \in Clients : copy'[e] = IF e = c THEN <<>> ELSE copy[e]
  BY <1>1 DEF TypeOK
<1>4. Busy'
  BY <1>3 DEF Busy
<1>5. Free' /\ OneWriter'
  BY <1>3 DEF OneWriter, Free
<1>6. \A e \in Clients : Pending(e)' => e # c /\ Pending(e) /\ cmd'[e] = cmd[e]
  BY <1>3 DEF Pending
<1>7. \A t \in Items(file') : t.id \in made'
  BY DEF IdsFresh
<1>8. \A e \in Clients : \A t \in Items(copy'[e]) : t.id \in made'
  BY <1>3, EmptyFacts DEF IdsFresh
<1>9. ASSUME NEW e \in Clients, Pending(e)'
      PROVE  /\ cmd'[e].id \in made'
             /\ ~Has(file', cmd'[e].id)
             /\ \A f \in Clients : ~Has(copy'[f], cmd'[e].id)
             /\ \A f \in Clients : Pending(f)' /\ f # e => cmd'[f].id # cmd'[e].id
  <2>1. Pending(e) /\ cmd'[e] = cmd[e]
    BY <1>6, <1>9
  <2>2. cmd[e].id \in made /\ \A f \in Clients : ~Has(copy[f], cmd[e].id)
    BY <2>1 DEF IdsFresh
  <2>3. ~Has(file', cmd[e].id)
    BY <2>2 DEF Has
  <2>4. \A f \in Clients : ~Has(copy'[f], cmd[e].id)
    BY <1>3, <2>2, EmptyFacts DEF Has
  <2>5. \A f \in Clients : Pending(f)' /\ f # e => cmd'[f].id # cmd[e].id
    BY <1>6, <2>1 DEF IdsFresh
  <2> QED
    BY <2>1, <2>2, <2>3, <2>4, <2>5
<1>10. IdsFresh'
  BY <1>7, <1>8, <1>9 DEF IdsFresh
<1>11. AllDistinct'
  BY <1>3, EmptyFacts DEF AllDistinct
<1>12. StaleIsRight'
  <2>1. \A e \in Clients : pc[e] = "loaded" => e \in stale
    BY DEF StaleIsRight, Free
  <2> QED
    BY <1>3, <2>1 DEF StaleIsRight
<1> QED
  BY <1>2, <1>4, <1>5, <1>10, <1>11, <1>12

LEMMA WriteKeeps == ASSUME IInv, NEW c \in Clients, Write(c) PROVE IInv'
<1> USE DEF IInv
<1>1. /\ pc[c] = "writing" /\ Ended(c) /\ file' = copy[c]
      /\ told' = AfterAnswer(copy[c], cmd[c])
      /\ UNCHANGED <<made, stale, overtaken, runs, kills>>
  BY DEF Write, AfterAnswer
<1>2. file' \in Seq(Tasks) /\ Distinct(file')
  BY <1>1 DEF TypeOK, AllDistinct
<1>3. /\ pc' \in [Clients -> {"idle", "loaded", "writing"}]
      /\ cmd' \in [Clients -> Commands \cup {NoKey}]
      /\ copy' \in [Clients -> Seq(Tasks)]
      /\ Busy' /\ IdsFresh' /\ AllDistinct' /\ OneWriter' /\ StaleIsRight' /\ Free'
  BY <1>1, <1>2, EndKeeps
<1>4. told' \subseteq Tasks
  <2>1. Items(copy[c]) \subseteq Tasks
    BY <1>1, <1>2 DEF Items
  <2> QED
    BY <1>1, <2>1 DEF AfterAnswer, About, TypeOK
<1>5. TypeOK'
  BY <1>1, <1>2, <1>3, <1>4 DEF TypeOK
<1>6. ~overtaken /\ kills = 0 => Items(copy[c]) = AfterAnswer(copy[c], cmd[c])
  BY <1>1 DEF AnswersAgree
<1>7. AnswersAgree'
  BY <1>1, <1>3, <1>6 DEF AnswersAgree, Free
<1> QED
  BY <1>3, <1>5, <1>7

LEMMA KillKeeps == ASSUME IInv, NEW c \in Clients, Kill(c) PROVE IInv'
<1> USE DEF IInv
<1>1. /\ pc[c] = "writing" /\ Ended(c)
      /\ kills < MaxKills /\ kills' = kills + 1
      /\ UNCHANGED <<made, told, stale, overtaken, runs>>
  BY DEF Kill
<1>2. PICK n \in 0..Len(copy[c]) : file' = SubSeq(copy[c], 1, n)
  BY DEF Kill
<1>3. copy[c] \in Seq(Tasks) /\ Distinct(copy[c])
  BY DEF TypeOK, AllDistinct
<1>4. file' \in Seq(Tasks) /\ Items(file') \subseteq Items(copy[c]) /\ Distinct(file')
  BY <1>2, <1>3, PrefixFacts
<1>5. /\ pc' \in [Clients -> {"idle", "loaded", "writing"}]
      /\ cmd' \in [Clients -> Commands \cup {NoKey}]
      /\ copy' \in [Clients -> Seq(Tasks)]
      /\ Busy' /\ IdsFresh' /\ AllDistinct' /\ OneWriter' /\ StaleIsRight' /\ Free'
  BY <1>1, <1>4, EndKeeps
<1>6. kills' \in 0..MaxKills /\ kills' # 0
  BY <1>1 DEF TypeOK
<1>7. TypeOK'
  BY <1>1, <1>4, <1>5, <1>6 DEF TypeOK
<1>8. AnswersAgree'
  BY <1>6 DEF AnswersAgree
<1> QED
  BY <1>5, <1>7, <1>8

LEMMA Invariance == Spec => []IInv
<1>1. Init => IInv
  BY InitEstablishes
<1>2. IInv /\ [Next]_vars => IInv'
  <2> SUFFICES ASSUME IInv, [Next]_vars PROVE IInv'
    OBVIOUS
  <2>1. ASSUME NEW c \in Clients, Load(c) PROVE IInv'
    BY <2>1, LoadKeeps
  <2>2. ASSUME NEW c \in Clients, Truncate(c) PROVE IInv'
    BY <2>2, TruncateKeeps
  <2>3. ASSUME NEW c \in Clients, Write(c) PROVE IInv'
    BY <2>3, WriteKeeps
  <2>4. ASSUME NEW c \in Clients, Kill(c) PROVE IInv'
    BY <2>4, KillKeeps
  <2>5. CASE UNCHANGED vars
    BY <2>5 DEF vars, IInv, TypeOK, Busy, IdsFresh, Pending, Has, AllDistinct, OneWriter,
                StaleIsRight, Free, AnswersAgree, AfterAnswer
  <2> QED
    BY <2>1, <2>2, <2>3, <2>4, <2>5 DEF Next
<1> QED
  BY <1>1, <1>2, PTL DEF Spec

-----------------------------------------------------------------------------
(* Theorems *)

\* The types of the file and of what the commands hold.
THEOREM TypeCorrect == Spec => []TypeOK
<1>1. IInv => TypeOK
  BY DEF IInv
<1> QED
  BY <1>1, Invariance, PTL

\* However loads, writes and kills of any number of commands interleave, no key
\* and no id gets two tasks: ensure reads the file again under the lock, and a
\* command that does not brings a task without key and of a new id.
THEOREM KeysStayUnique == Spec => []OneTaskPerKey
<1>1. IInv => OneTaskPerKey
  BY DEF IInv, AllDistinct, OneTaskPerKey
<1> QED
  BY <1>1, Invariance, PTL

\* What the commands have answered is what the file says, unless add, close or
\* fail wrote an old copy or a writer was killed: ensure, start and reopen lose
\* nothing whatever they race with.
THEOREM AnswersStay == Spec => []AnswersAreKept
<1>1. IInv => AnswersAreKept
  BY DEF IInv, AnswersAgree, AnswersAreKept
<1> QED
  BY <1>1, Invariance, PTL
=============================================================================

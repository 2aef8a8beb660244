------------------------------ MODULE TaskStore ------------------------------
(***************************************************************************)
(* The task list that the loops of a repository and their agents share     *)
(* (.ralph/agent/tasks.jsonl): TaskStore and FileLock of ralph-core, and   *)
(* the commands of `ralph tools task' that change it (task_cli.rs).  Each  *)
(* command is a process of its own.                                        *)
(*                                                                         *)
(* Every command loads the file under a shared lock and lets go of it.     *)
(* Then there are two kinds.  ensure, start and reopen go through          *)
(* with_exclusive_lock, which reads the file again before it changes and   *)
(* rewrites it.  add, close and fail change the tasks they loaded, take    *)
(* the lock and write the file from them.  Either way the file is emptied  *)
(* and written in place, so that a process killed in between leaves the    *)
(* beginning of it.                                                        *)
(*                                                                         *)
(* A task is its id, its key and its status.  Ids are taken for unique,    *)
(* as Task::generate_id says.                                              *)
(***************************************************************************)
EXTENDS Naturals, Sequences

CONSTANTS
  Clients,  \* the processes that run commands
  Ids,      \* the ids that can be generated
  Keys,     \* the stable keys of orchestrator-managed tasks
  NoKey,    \* the key of the other tasks
  MaxRuns,  \* bound on the commands run
  MaxKills  \* bound on the processes killed while they write

ASSUME ConstantsAssumption ==
  NoKey \notin Keys /\ MaxRuns \in Nat /\ MaxKills \in Nat

VARIABLES
  file,      \* the tasks in the file
  pc,        \* where each client is
  cmd,       \* the command it runs
  copy,      \* the tasks in its TaskStore
  made,      \* the ids generated
  told,      \* history: the tasks as the commands that returned left them
  stale,     \* history: clients whose copy is older than the file
  overtaken, \* history: whether add, close or fail wrote such a copy
  runs,      \* commands run so far
  kills      \* processes killed so far

vars == <<file, pc, cmd, copy, made, told, stale, overtaken, runs, kills>>

Statuses == {"open", "in_progress", "closed", "failed"}
Tasks == [id : Ids, key : Keys \cup {NoKey}, status : Statuses]

Command(op, id, key) == [op |-> op, id |-> id, key |-> key]

\* The commands for a task of a new id, and those for a task that is there.
Creating == {Command("add", id, NoKey) : id \in Ids}
              \cup {Command("ensure", id, key) : id \in Ids, key \in Keys}
Changing == {Command(op, id, NoKey) : op \in {"start", "close", "fail", "reopen"}, id \in Ids}
Commands == Creating \cup Changing

Items(tasks) == {tasks[i] : i \in DOMAIN tasks}
Has(tasks, id) == \E t \in Items(tasks) : t.id = id
HasKey(tasks, key) == \E t \in Items(tasks) : t.key = key

-----------------------------------------------------------------------------
(* What a command does to the tasks (TaskStore::add, ensure, start, ...) *)

\* Mutant: the commands' names are stored.
StatusOfNames(op) == op

StatusOf(op) ==
  CASE op = "start"  -> "in_progress"
    [] op = "close"  -> "closed"
    [] op = "fail"   -> "failed"
    [] op = "reopen" -> "open"

Added(tasks, c) == Append(tasks, [id |-> c.id, key |-> c.key, status |-> "open"])

\* Mutant: the key is not looked for.
EnsuredAlways(tasks, c) == Added(tasks, c)

\* A task of that key keeps its status (its title and priority are refreshed).
Ensured(tasks, c) == IF HasKey(tasks, c.key) THEN tasks ELSE Added(tasks, c)

Changed(tasks, c) ==
  [i \in DOMAIN tasks |->
     IF tasks[i].id = c.id THEN [tasks[i] EXCEPT !.status = StatusOf(c.op)] ELSE tasks[i]]

Apply(tasks, c) ==
  CASE c.op = "add"    -> Added(tasks, c)
    [] c.op = "ensure" -> Ensured(tasks, c)
    [] OTHER           -> Changed(tasks, c)

\* The task a command's answer is about; none if it was not found.
About(tasks, c) ==
  {t \in Items(tasks) : IF c.op = "ensure" THEN t.key = c.key ELSE t.id = c.id}

-----------------------------------------------------------------------------
(* The commands *)

Init ==
  /\ file = <<>>
  /\ pc = [c \in Clients |-> "idle"]
  /\ cmd = [c \in Clients |-> NoKey]
  /\ copy = [c \in Clients |-> <<>>]
  /\ made = {} /\ told = {} /\ stale = {}
  /\ overtaken = FALSE
  /\ runs = 0 /\ kills = 0

\* FileLock: nobody holds the lock exclusively.  (Shared locks are held for one
\* read; a lock dies with its process.)
Free == \A c \in Clients : pc[c] # "writing"

\* Mutant: with_exclusive_lock uses the tasks loaded before.
BaseLoaded(c) == copy[c]

\* What the command is applied to: with_exclusive_lock reads the file again.
Base(c) == IF cmd[c].op \in {"ensure", "start", "reopen"} THEN file ELSE copy[c]

\* TaskStore::load.
Load(c) ==
  /\ pc[c] = "idle"
  /\ Free
  /\ runs < MaxRuns
  /\ runs' = runs + 1
  /\ \E d \in Commands :
       /\ d \in Creating => d.id \notin made
       /\ d \in Changing => d.id \in made
       \* close and fail give up on an id that they did not load.
       /\ d.op \in {"close", "fail"} => Has(file, d.id)
       /\ cmd' = [cmd EXCEPT ![c] = d]
       /\ made' = made \cup {d.id}
  /\ copy' = [copy EXCEPT ![c] = file]
  /\ pc' = [pc EXCEPT ![c] = "loaded"]
  /\ stale' = stale \ {c}
  /\ UNCHANGED <<file, told, overtaken, kills>>

\* save and with_exclusive_lock: the lock is taken, and fs::write empties the file ...
Truncate(c) ==
  /\ pc[c] = "loaded"
  /\ Free
  /\ copy' = [copy EXCEPT ![c] = Apply(Base(c), cmd[c])]
  /\ file' = <<>>
  /\ pc' = [pc EXCEPT ![c] = "writing"]
  /\ overtaken' = (overtaken \/ (c \in stale /\ cmd[c].op \in {"add", "close", "fail"}))
  /\ stale' = (stale \cup {d \in Clients : pc[d] = "loaded"}) \ {c}
  /\ UNCHANGED <<cmd, made, told, runs, kills>>

\* The process is gone; the client will run another.
Ended(c) ==
  /\ pc' = [pc EXCEPT ![c] = "idle"]
  /\ cmd' = [cmd EXCEPT ![c] = NoKey]
  /\ copy' = [copy EXCEPT ![c] = <<>>]

\* ... and writes it; the command reports its task.
Write(c) ==
  /\ pc[c] = "writing"
  /\ file' = copy[c]
  /\ LET answer == About(copy[c], cmd[c])
     IN told' = {t \in told : \A u \in answer : u.id # t.id} \cup answer
  /\ Ended(c)
  /\ UNCHANGED <<made, stale, overtaken, runs, kills>>

\* A process is killed while it writes: whole lines from the start of the file
\* are left, and a piece of one that is skipped when it is read.
Kill(c) ==
  /\ pc[c] = "writing"
  /\ kills < MaxKills
  /\ kills' = kills + 1
  /\ \E n \in 0..Len(copy[c]) : file' = SubSeq(copy[c], 1, n)
  /\ Ended(c)
  /\ UNCHANGED <<made, told, stale, overtaken, runs>>

Next == \E c \in Clients : Load(c) \/ Truncate(c) \/ Write(c) \/ Kill(c)

Spec == Init /\ [][Next]_vars

-----------------------------------------------------------------------------
(* Properties *)

TypeOK ==
  /\ file \in Seq(Tasks)
  /\ pc \in [Clients -> {"idle", "loaded", "writing"}]
  /\ cmd \in [Clients -> Commands \cup {NoKey}]
  /\ copy \in [Clients -> Seq(Tasks)]
  /\ made \subseteq Ids
  /\ told \subseteq Tasks
  /\ stale \subseteq Clients
  /\ overtaken \in BOOLEAN
  /\ runs \in 0..MaxRuns
  /\ kills \in 0..MaxKills

\* ensure is idempotent across loops: whatever is lost, whoever is killed, no
\* key has two tasks, and no id either, in the file or in what will be written.
Distinct(tasks) ==
  \A i, j \in DOMAIN tasks : i # j =>
    /\ tasks[i].id # tasks[j].id
    /\ tasks[i].key = tasks[j].key => tasks[i].key = NoKey

OneTaskPerKey ==
  /\ Distinct(file)
  /\ \A c \in Clients : pc[c] = "writing" => Distinct(copy[c])

\* Two loops' commands do not undo each other, and whoever reads the list (the
\* prompt, verify_tasks_complete) sees every task as the last command about it
\* answered, unless add, close or fail wrote an old copy or a writer was killed.
AnswersAreKept ==
  Free /\ ~overtaken /\ kills = 0 => Items(file) = told
=============================================================================

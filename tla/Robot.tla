-------------------------------- MODULE Robot --------------------------------
(***************************************************************************)
(* Questions to the human: the loop that asks (event_loop/mod.rs and       *)
(* TelegramService), the polling task beside it that takes the human's     *)
(* messages (poll_updates, MessageHandler), and what they share: the       *)
(* bot's state (.ralph/telegram-state.json) and the events file.           *)
(*                                                                         *)
(* Both threads load the state, hold on to their copy while they send a    *)
(* question or a reaction, and save the whole of it.  A save writes a      *)
(* temporary file, which has one name for everybody, and renames it.       *)
(*                                                                         *)
(* A message is its update number and its kind.  A text is taken for the   *)
(* reply if the loop's question is pending: whether it was written as a    *)
(* reply to the question makes no difference, since only the primary loop  *)
(* asks.  A text for another loop (@loop-id) is guidance in another file.  *)
(* The events file is taken for a sequence of lines (EventsFile has its    *)
(* bytes).  Errors of the disk are left out, but for one: the wait cannot  *)
(* read the events.                                                        *)
(***************************************************************************)
EXTENDS Naturals, Sequences, FiniteSets

CONSTANTS
  Kinds,        \* of messages, some of "text" and "command"
  MaxMessages,  \* bound on the messages the human sends
  MaxQuestions, \* bound on the questions asked, which are their numbers
  MaxRuns       \* bound on the processes, one after the other

ASSUME ConstantsAssumption ==
  /\ Kinds \subseteq {"text", "command"}
  /\ MaxMessages \in Nat /\ MaxQuestions \in Nat /\ MaxRuns \in Nat

VARIABLES
  chat,      \* the messages the human has sent, by update number
  confirmed, \* the updates the server has forgotten
  state,     \* telegram-state.json
  tmp,       \* telegram-state.json.tmp
  events,    \* the human's lines in the loop's events file
  lp,        \* where the loop is
  asked,     \* its last question
  pos,       \* the lines its wait has read
  expired,   \* whether its wait is over: the deadline, or the shutdown flag
  bp,        \* where the polling task is
  offset,    \* the next update it handles
  upto,      \* the last update it was sent
  copy,      \* the state each of them has loaded
  at,        \* how far its save is
  fd,        \* the name of the file it has open
  runs,      \* processes started
  fresh,     \* history: whether nobody has saved since the copy was loaded
  undone,    \* history: what somebody else saved and a save of an old copy put back
  clashed,   \* history: whether two saves have overlapped
  left       \* history: the questions whose wait ended with them pending

disk == <<state, tmp>>
loop == <<lp, asked, pos, expired>>
bot == <<bp, offset, upto>>
saving == <<copy, at, fd>>
history == <<fresh, undone, clashed, left>>
vars == <<chat, confirmed, disk, events, loop, bot, saving, runs, history>>

Threads == {"loop", "bot"}
Other(p) == IF p = "loop" THEN "bot" ELSE "loop"
Greater(m, n) == IF m >= n THEN m ELSE n

\* What a file can hold: a state (TelegramState), or something serde refuses.
Contents == [is : {"missing", "empty", "broken", "state"}, chat : BOOLEAN,
             pending : 0..MaxQuestions, last : 0..MaxMessages]
States == {c \in Contents : c.is = "state"}
Content(is) == [is |-> is, chat |-> FALSE, pending |-> 0, last |-> 0]
Blank == Content("state")
Known == [is |-> "state", chat |-> TRUE, pending |-> 0, last |-> 0]
Lines == [msg : 1..MaxMessages, to : 0..MaxQuestions, old : BOOLEAN]

\* StateManager::load_or_default: no file is a new state.
Readable(c) == c.is \in {"missing", "state"}
Loaded == [state EXCEPT !.is = "state"]

Init ==
  /\ chat = <<>> /\ confirmed = 0
  /\ state \in {Content("missing"), Known}
  /\ tmp = Content("missing")
  /\ events = <<>>
  /\ lp = "down" /\ asked = 0 /\ pos = 0 /\ expired = FALSE
  /\ bp = "down" /\ offset = 1 /\ upto = 0
  /\ copy = [p \in Threads |-> Blank]
  /\ at = [p \in Threads |-> "idle"]
  /\ fd = [p \in Threads |-> "none"]
  /\ runs = 0
  /\ fresh = [p \in Threads |-> FALSE] /\ undone = {} /\ clashed = FALSE /\ left = {}

-----------------------------------------------------------------------------
(* Saving (StateManager::save): open the temporary file, write it, rename  *)
(* it.  Who has it open keeps its file, whatever the name becomes.         *)

Saves(p) == IF p = "loop" THEN lp \in {"register", "clear"}
                          ELSE bp \in {"greet", "answered", "mark"}

Load(p, change) ==
  /\ copy' = [copy EXCEPT ![p] = change]
  /\ fresh' = [fresh EXCEPT ![p] = TRUE]
  /\ UNCHANGED <<at, fd, undone, clashed, left>>

Open(p) ==
  /\ Saves(p) /\ at[p] = "idle"
  /\ tmp' = Content("empty")
  /\ at' = [at EXCEPT ![p] = "open"]
  /\ fd' = [fd EXCEPT ![p] = "tmp"]
  /\ clashed' = (clashed \/ at[Other(p)] # "idle")
  /\ UNCHANGED <<chat, confirmed, state, events, loop, bot, copy, runs,
                 fresh, undone, left>>

\* What has been written over a file that holds c already: a shorter text
\* leaves the end of the longer one.
Over(c, new) == IF c.is = "empty" THEN {new} ELSE {new, Content("broken")}

Fill(p) ==
  /\ Saves(p) /\ at[p] = "open"
  /\ at' = [at EXCEPT ![p] = "filled"]
  /\ \/ fd[p] = "tmp" /\ tmp' \in Over(tmp, copy[p]) /\ UNCHANGED state
     \/ fd[p] = "state" /\ state' \in Over(state, copy[p]) /\ UNCHANGED tmp
     \/ fd[p] = "none" /\ UNCHANGED disk
  /\ UNCHANGED <<chat, confirmed, events, loop, bot, copy, fd, runs, history>>

\* What p itself changes, and what its copy says of the rest.
Own(p) == IF p = "loop" THEN {"pending"} ELSE {"chat", "last"}
PutBack(p) == IF fresh[p] THEN {}
              ELSE {f \in {"chat", "pending", "last"} \ Own(p) : copy[p][f] # state[f]}

Moved(p) ==
  /\ state' = tmp /\ tmp' = Content("missing")
  /\ fd' = [q \in Threads |-> IF fd[q] = "tmp" THEN "state" ELSE "none"]

\* The rename, which fails if somebody else has taken the file away.
Rename(p) ==
  /\ Saves(p) /\ at[p] = "filled"
  /\ at' = [at EXCEPT ![p] = "idle"]
  /\ IF tmp.is = "missing"
     THEN UNCHANGED <<disk, fd, fresh, undone>>
     ELSE /\ Moved(p)
          /\ fresh' = [q \in Threads |-> q = p]
          /\ undone' = undone \cup PutBack(p)
  /\ UNCHANGED <<chat, confirmed, events, runs, clashed, left>>

\* The copy is local to the function that returns.
Forget(p) == copy' = [copy EXCEPT ![p] = Blank]

-----------------------------------------------------------------------------
(* The loop: an agent has emitted human.interact                           *)
(* (process_parse_result, send_question, wait_for_response)                *)

LoopAt(from, to) == lp = from /\ lp' = to
LoopOnly == UNCHANGED <<chat, confirmed, disk, events, bot, runs>>
LoopSaving == UNCHANGED <<chat, confirmed, disk, events, bot, runs, saving, history>>

\* Loading the state fails: no question, no event.
AskUnreadable ==
  /\ LoopAt("work", "work")
  /\ asked < MaxQuestions /\ asked' = asked + 1
  /\ ~Readable(state)
  /\ UNCHANGED <<pos, expired>> /\ LoopSaving

\* The copy is taken before the question is sent.
Ask ==
  /\ LoopAt("work", "send")
  /\ asked < MaxQuestions /\ asked' = asked + 1
  /\ Readable(state)
  /\ Load("loop", Loaded)
  /\ UNCHANGED <<pos, expired>> /\ LoopOnly

\* Three attempts with seconds between them; without a chat there is nobody to
\* send to, and the question is pending all the same.
Send ==
  /\ LoopAt("send", "register")
  /\ copy' = [copy EXCEPT !["loop"].pending = asked]
  /\ UNCHANGED <<asked, pos, expired, at, fd, history>> /\ LoopOnly

SendFails ==
  /\ LoopAt("send", "work") /\ copy["loop"].chat
  /\ Forget("loop")
  /\ UNCHANGED <<asked, pos, expired, at, fd, history>> /\ LoopOnly

Registered ==
  /\ LoopAt("register", IF tmp.is = "missing" THEN "work" ELSE "begin")
  /\ Rename("loop") /\ Forget("loop")
  /\ UNCHANGED <<asked, pos, expired, bot>>

\* Mutant: the whole file is read.
BeginAtTheTop ==
  /\ LoopAt("begin", "wait")
  /\ pos' = 0 /\ expired' = FALSE
  /\ UNCHANGED asked /\ LoopSaving

\* Lines that were there before are not read.
BeginWait ==
  /\ LoopAt("begin", "wait")
  /\ pos' = Len(events) /\ expired' = FALSE
  /\ UNCHANGED asked /\ LoopSaving

\* The first reply after pos, if there is one (check_for_response).
Replies == {i \in pos + 1..Len(events) : events[i].to # 0}

Answered ==
  /\ LoopAt("wait", "remove") /\ ~expired
  /\ \E i \in Replies : (\A j \in Replies : i <= j) /\ pos' = i
  /\ UNCHANGED <<asked, expired>> /\ LoopSaving

\* Mutant: one line too many is counted.
ReadOnPast ==
  /\ LoopAt("wait", "wait") /\ ~expired
  /\ Replies = {} /\ pos' = Len(events) + 1
  /\ UNCHANGED <<asked, expired>> /\ LoopSaving

ReadOn ==
  /\ LoopAt("wait", "wait") /\ ~expired
  /\ Replies = {} /\ pos' = Len(events)
  /\ UNCHANGED <<asked, expired>> /\ LoopSaving

\* Mutant: the question is removed when it is answered only.
GiveUpAtOnce ==
  /\ LoopAt("wait", "work") /\ expired
  /\ UNCHANGED <<asked, pos, expired>> /\ LoopSaving

\* The deadline and the flag are looked at before the file.
GiveUp ==
  /\ LoopAt("wait", "remove") /\ expired
  /\ UNCHANGED <<asked, pos, expired>> /\ LoopSaving

\* The file cannot be read: the question stays pending.
WaitFails ==
  /\ LoopAt("wait", "work") /\ ~expired
  /\ left' = left \cup {asked}
  /\ UNCHANGED <<asked, pos, expired, saving, fresh, undone, clashed>> /\ LoopOnly

\* remove_pending_question, on a new copy, whatever ended the wait.
Remove ==
  /\ LoopAt("remove", "clear")
  /\ Readable(state)
  /\ Load("loop", [Loaded EXCEPT !.pending = 0])
  /\ UNCHANGED <<asked, pos, expired>> /\ LoopOnly

RemoveUnreadable ==
  /\ LoopAt("remove", "work")
  /\ ~Readable(state)
  /\ UNCHANGED <<asked, pos, expired>> /\ LoopSaving

\* Whether the save succeeds is not looked at.
Removed ==
  /\ LoopAt("clear", "work")
  /\ Rename("loop") /\ Forget("loop")
  /\ UNCHANGED <<asked, pos, expired, bot>>

LoopStep ==
  \/ Ask \/ AskUnreadable \/ Send \/ SendFails \/ Registered
  \/ BeginWait \/ Answered \/ ReadOn \/ GiveUp \/ WaitFails
  \/ Remove \/ RemoveUnreadable \/ Removed
  \/ Open("loop") \/ Fill("loop")

-----------------------------------------------------------------------------
(* The polling task (poll_updates, MessageHandler::handle_message)         *)

BotAt(from, to) == bp = from /\ bp' = to
BotOnly == UNCHANGED <<chat, confirmed, disk, loop, runs>>
BotSaving == UNCHANGED <<disk, loop, runs, saving, history>>

\* getUpdates: asking for an offset confirms the updates before it.
Poll ==
  /\ bp = "poll"
  /\ confirmed' = Greater(confirmed, offset - 1)
  /\ IF Len(chat) > confirmed'
     THEN bp' = "take" /\ offset' = confirmed' + 1 /\ upto' = Len(chat)
     ELSE UNCHANGED bot
  /\ UNCHANGED <<chat, events>> /\ BotSaving

BatchDone ==
  /\ BotAt("take", "poll") /\ offset > upto
  /\ UNCHANGED <<offset, upto, chat, confirmed, events>> /\ BotSaving

NextUpdate(kinds) ==
  /\ offset <= upto /\ chat[offset] \in kinds
  /\ offset' = offset + 1

\* A command is carried out, and its update not recorded (/stop and /restart
\* leave a signal for the loop).
Command ==
  /\ BotAt("take", "take") /\ NextUpdate({"command"})
  /\ UNCHANGED <<upto, chat, confirmed, events>> /\ BotSaving

\* A message that comes while the state cannot be read is dropped.
Drop ==
  /\ BotAt("take", "take") /\ NextUpdate({"text"})
  /\ ~Readable(state)
  /\ UNCHANGED <<upto, chat, confirmed, events>> /\ BotSaving

\* Mutant: the update is recorded as soon as it is taken.
TakeMarked ==
  /\ BotAt("take", IF Loaded.chat THEN "handle" ELSE "greet")
  /\ NextUpdate({"text"})
  /\ Readable(state)
  /\ Load("bot", [Loaded EXCEPT !.chat = TRUE, !.last = offset])
  /\ UNCHANGED <<upto, events>> /\ BotOnly

\* The chat of the first message becomes the chat, and is saved at once.
Take ==
  /\ BotAt("take", IF Loaded.chat THEN "handle" ELSE "greet")
  /\ NextUpdate({"text"})
  /\ Readable(state)
  /\ Load("bot", [Loaded EXCEPT !.chat = TRUE])
  /\ UNCHANGED <<upto, events>> /\ BotOnly

\* The message at hand.
Current == offset - 1
Marked(c) == [c EXCEPT !["bot"].last = Current]

\* A save that fails ends the handling of the message; it is marked all the same.
Greeted ==
  /\ BotAt("greet", IF tmp.is = "missing" THEN "failed" ELSE "handle")
  /\ Rename("bot")
  /\ UNCHANGED <<offset, upto, loop, copy>>

Line(n) == [msg |-> n, to |-> copy["bot"].pending, old |-> ~fresh["bot"]]

\* The event is a reply if the loop's question was pending in the copy.
Reply ==
  /\ BotAt("handle", "answered")
  /\ copy["bot"].pending # 0
  /\ events' = Append(events, Line(Current))
  /\ copy' = [copy EXCEPT !["bot"].pending = 0]
  /\ UNCHANGED <<offset, upto, at, fd, history>> /\ BotOnly

Guidance ==
  /\ BotAt("handle", "react")
  /\ copy["bot"].pending = 0
  /\ events' = Append(events, Line(Current))
  /\ UNCHANGED <<offset, upto, saving, history>> /\ BotOnly

ReplyRecorded ==
  /\ BotAt("answered", IF tmp.is = "missing" THEN "failed" ELSE "react")
  /\ Rename("bot")
  /\ UNCHANGED <<offset, upto, loop, copy>>

\* The reaction has been sent, or there was an error before it.  The copy
\* loaded before all this is marked, and saved.
Mark ==
  /\ bp \in {"react", "failed"} /\ bp' = "mark"
  /\ copy' = Marked(copy)
  /\ UNCHANGED <<offset, upto, events, at, fd, history>> /\ BotOnly

MarkSaved ==
  /\ BotAt("mark", "take")
  /\ Rename("bot") /\ Forget("bot")
  /\ UNCHANGED <<offset, upto, loop>>

BotStep ==
  \/ Poll \/ BatchDone \/ Command \/ Drop \/ Take \/ Greeted \/ Reply \/ Guidance
  \/ ReplyRecorded \/ Mark \/ MarkSaved
  \/ Open("bot") \/ Fill("bot")

-----------------------------------------------------------------------------
(* The human, the clock, and the process *)

Write ==
  /\ Len(chat) < MaxMessages
  /\ \E k \in Kinds : chat' = Append(chat, k)
  /\ UNCHANGED <<confirmed, disk, events, loop, bot, saving, runs, history>>

\* The deadline has passed, or a signal has set the shutdown flag.
Expire ==
  /\ lp = "wait" /\ expired' = TRUE
  /\ UNCHANGED <<chat, confirmed, disk, events, lp, asked, pos, bot, saving, runs, history>>

\* Killed, or at the end of its loop: the task is not waited for.
Exit ==
  /\ lp # "down" /\ lp' = "down" /\ pos' = 0 /\ expired' = FALSE
  /\ bp' = "down" /\ offset' = 1 /\ upto' = 0
  /\ copy' = [p \in Threads |-> Blank]
  /\ at' = [p \in Threads |-> "idle"] /\ fd' = [p \in Threads |-> "none"]
  /\ fresh' = [p \in Threads |-> FALSE]
  /\ left' = IF lp = "work" THEN left ELSE left \cup {asked}
  /\ UNCHANGED <<chat, confirmed, disk, events, asked, runs, undone, clashed>>

\* The polling task goes on after the last update recorded.
Start ==
  /\ lp = "down" /\ runs < MaxRuns
  /\ lp' = "work" /\ bp' = "poll"
  /\ offset' = IF Readable(state) THEN state.last + 1 ELSE 1
  /\ runs' = runs + 1
  /\ UNCHANGED <<chat, confirmed, disk, events, asked, pos, expired, upto, saving, history>>

Next == LoopStep \/ BotStep \/ Write \/ Expire \/ Exit \/ Start

Spec == Init /\ [][Next]_vars

-----------------------------------------------------------------------------
(* Properties *)

TypeOK ==
  /\ chat \in Seq(Kinds) /\ Len(chat) <= MaxMessages
  /\ confirmed \in 0..MaxMessages
  /\ state \in Contents /\ tmp \in Contents
  /\ events \in Seq(Lines)
  /\ lp \in {"down", "work", "send", "register", "begin", "wait", "remove", "clear"}
  /\ asked \in 0..MaxQuestions /\ pos \in 0..Len(events) /\ expired \in BOOLEAN
  /\ bp \in {"down", "poll", "take", "greet", "handle", "answered", "react", "failed", "mark"}
  /\ offset \in 1..MaxMessages + 1 /\ upto \in 0..Len(chat)
  /\ copy \in [Threads -> States]
  /\ at \in [Threads -> {"idle", "open", "filled"}]
  /\ fd \in [Threads -> {"none", "tmp", "state"}]
  /\ runs \in 0..MaxRuns
  /\ fresh \in [Threads -> BOOLEAN] /\ undone \subseteq {"chat", "pending", "last"}
  /\ clashed \in BOOLEAN /\ left \subseteq 0..MaxQuestions

\* While the loop waits its question is pending, unless a message was taken for
\* the reply; and a question that is pending is the one asked last and not yet
\* answered or given up, or was left by a process that ended or could not read
\* the events.  What it takes to break this is two saves at once, or a save of
\* an old copy that brings back another question.
PendingTellsTheWait ==
  ~clashed /\ "pending" \notin undone =>
    /\ lp = "wait" /\ state.pending # asked => \E i \in DOMAIN events : events[i].to = asked
    /\ state.pending # 0 => \/ state.pending = asked /\ lp \in {"begin", "wait", "remove", "clear"}
                            \/ state.pending \in left

Handled == {n \in 1..offset - 1 : chat[n] = "text"}
Written == {events[i].msg : i \in DOMAIN events}
NothingLost ==
  ~clashed =>
    /\ Readable(state)
    /\ \A n \in Handled : n \in Written \/ (n = Current /\ bp \in {"greet", "handle"})

Repeated == {i \in DOMAIN events : \E j \in 1..i - 1 : events[j].msg = events[i].msg}

\* Unless two saves have overlapped, the state can be read and no message to
\* the loop is lost, whatever process ends where; and each process that ends
\* has at most one message repeated, unless the record of one was put back.
MessagesHandled ==
  /\ NothingLost
  /\ ~clashed /\ "last" \notin undone => Cardinality(Repeated) < Greater(runs, 1)

\* The reply a wait ends with was taken for its question, unless the bot went
\* by a copy from before the question, or one brought back.
AnswersFit ==
  [][lp = "wait" /\ pos' > pos /\ lp' = "remove"
       => \/ events[pos'].to = asked \/ events[pos'].old
          \/ clashed \/ "pending" \in undone]_vars
=============================================================================

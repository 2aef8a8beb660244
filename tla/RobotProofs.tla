----------------------------- MODULE RobotProofs -----------------------------
(***************************************************************************)
(* Theorems about Robot, for any number of messages, questions and         *)
(* processes.                                                              *)
(*                                                                         *)
(*   TypeCorrect         Spec => []TypeOK                                  *)
(*   NoMessageLost       Spec => []NothingLost                             *)
(*   MessagesAreHandled  Spec => []MessagesHandled                         *)
(*   PendingIsTheWaits   Spec => []PendingTellsTheWait                     *)
(*   AnswersAreForTheirQuestions  Spec => AnswersFit                       *)
(***************************************************************************)
EXTENDS Robot, FiniteSetTheorems, TLAPS

USE ConstantsAssumption

\* The task has a message at hand, and a save is made where the code saves.
\* What is recorded and confirmed has been sent.
Handling == {"greet", "handle", "answered", "react", "failed", "mark"}
Placed ==
  /\ bp \in Handling => offset >= 2
  /\ \A p \in Threads : at[p] # "idle" => Saves(p)
  /\ offset <= Len(chat) + 1 /\ confirmed <= Len(chat)
  /\ state.last <= Len(chat) /\ tmp.last <= Len(chat)
  /\ \A p \in Threads : copy[p].last <= Len(chat)

\* The loop and the task live and die together.
Living == lp = "down" <=> bp = "down"

LEMMA StepLiving ==
  ASSUME Living, [Next]_vars PROVE Living'
<1> USE DEF Living, loop, bot, vars, LoopAt, BotAt, LoopOnly, LoopSaving, BotOnly, BotSaving
<1>1. CASE LoopStep
  BY <1>1 DEF LoopStep, AskUnreadable, BeginWait, Answered, ReadOn, GiveUp, RemoveUnreadable, Ask, Send,
              SendFails, Remove, WaitFails, Registered, Removed, Open, Fill
<1>2. CASE BotStep
  BY <1>2 DEF BotStep, Poll, BatchDone, Command, Drop, Take, Reply, Guidance, Mark, Greeted,
              ReplyRecorded, MarkSaved, Open, Fill
<1>3. CASE Write \/ Expire \/ Exit \/ Start \/ UNCHANGED vars
  BY <1>3 DEF Write, Expire, Exit, Start
<1> QED BY <1>1, <1>2, <1>3 DEF Next

LEMMA ContentTyped ==
  /\ Known \in States /\ Known.last = 0
  /\ Blank \in States /\ Blank.last = 0
  /\ \A is \in {"missing", "empty", "broken", "state"} : Content(is) \in Contents /\ Content(is).last = 0
  /\ States \subseteq Contents
BY DEF Content, Contents, Known, Blank, States

LEMMA InitTyped == Init => TypeOK /\ Placed
<1> SUFFICES ASSUME Init PROVE TypeOK /\ Placed
  OBVIOUS
<1>1. state \in Contents /\ state.last = 0
  BY ContentTyped DEF Init
<1>2. tmp \in Contents /\ tmp.last = 0
  BY ContentTyped DEF Init
<1>3. copy \in [Threads -> States] /\ \A p \in Threads : copy[p].last = 0
  BY ContentTyped DEF Init
<1>4. {expired, clashed} \subseteq BOOLEAN /\ fresh \in [Threads -> BOOLEAN]
  BY DEF Init
<1>5. chat \in Seq(Kinds) /\ Len(chat) = 0 /\ events \in Seq(Lines) /\ Len(events) = 0
  BY DEF Init
<1>6. at = [p \in Threads |-> "idle"] /\ fd = [p \in Threads |-> "none"]
      /\ lp = "down" /\ bp = "down" /\ undone = {} /\ left = {}
  BY DEF Init
<1>7. confirmed = 0 /\ asked = 0 /\ pos = 0 /\ offset = 1 /\ upto = 0 /\ runs = 0
  BY DEF Init
<1>8. TypeOK
  BY <1>1, <1>2, <1>3, <1>4, <1>5, <1>6, <1>7 DEF TypeOK, States
<1>9. Placed
  BY <1>1, <1>2, <1>3, <1>5, <1>6, <1>7 DEF Placed, Handling
<1> QED BY <1>8, <1>9

-----------------------------------------------------------------------------
(* Saving *)

\* What a save changes, well or badly.
LEMMA OpenTyped ==
  ASSUME TypeOK, Placed, NEW p \in Threads, Open(p)
  PROVE  TypeOK' /\ Placed'
<1>1. tmp' \in Contents /\ tmp'.last = 0
  BY ContentTyped DEF Open
<1>2. at' \in [Threads -> {"idle", "open", "filled"}] /\ fd' \in [Threads -> {"none", "tmp", "state"}]
      /\ clashed' \in BOOLEAN
  BY DEF Open, TypeOK
<1>3. UNCHANGED <<chat, confirmed, state, events, loop, bot, copy, runs, fresh, undone, left>>
  BY DEF Open
<1>4. TypeOK'
  BY <1>1, <1>2, <1>3 DEF TypeOK, loop, bot
<1>5. \A q \in Threads : at'[q] # "idle" => Saves(q)'
  BY <1>3 DEF Open, Placed, Saves, TypeOK, loop, bot
<1>6. Placed'
  BY <1>1, <1>3, <1>5 DEF Placed, TypeOK, bot
<1> QED BY <1>4, <1>6

LEMMA FillTyped ==
  ASSUME TypeOK, Placed, NEW p \in Threads, Fill(p)
  PROVE  TypeOK' /\ Placed'
<1>1. copy[p] \in Contents /\ copy[p].last <= Len(chat)
  BY ContentTyped DEF TypeOK, Placed, States
<1>2. \A c \in {state, tmp} : \A d \in Over(c, copy[p]) : d \in Contents /\ d.last <= Len(chat)
  BY <1>1, ContentTyped DEF Over, TypeOK
<1>3. state' \in Contents /\ state'.last <= Len(chat) /\ tmp' \in Contents /\ tmp'.last <= Len(chat)
  BY <1>2 DEF Fill, disk, TypeOK, Placed
<1>4. at' \in [Threads -> {"idle", "open", "filled"}]
      /\ UNCHANGED <<chat, confirmed, events, loop, bot, copy, fd, runs, history>>
  BY DEF Fill, TypeOK
<1>5. TypeOK'
  BY <1>3, <1>4 DEF TypeOK, loop, bot, history
<1>6. \A q \in Threads : at'[q] # "idle" => Saves(q)'
  BY <1>4 DEF Fill, Placed, Saves, TypeOK, loop, bot
<1>7. Placed'
  BY <1>3, <1>4, <1>6 DEF Placed, TypeOK, bot
<1> QED BY <1>5, <1>7

\* The rest of a rename depends on where it is made.
LEMMA RenameTyped ==
  ASSUME TypeOK, Placed, NEW p \in Threads, Rename(p)
  PROVE  /\ state' \in Contents /\ state'.last <= Len(chat)
         /\ tmp' \in Contents /\ tmp'.last <= Len(chat)
         /\ at' \in [Threads -> {"idle", "open", "filled"}] /\ fd' \in [Threads -> {"none", "tmp", "state"}]
         /\ fresh' \in [Threads -> BOOLEAN] /\ undone' \subseteq {"chat", "pending", "last"}
         /\ UNCHANGED <<chat, confirmed, events, runs, clashed, left>>
<1>1. tmp.last <= Len(chat) /\ state.last <= Len(chat)
  BY DEF Placed
<1>2. Content("missing") \in Contents /\ Content("missing").last <= Len(chat)
  BY ContentTyped DEF TypeOK
<1>3. PutBack(p) \subseteq {"chat", "pending", "last"}
  BY DEF PutBack
<1>4. at' \in [Threads -> {"idle", "open", "filled"}]
      /\ UNCHANGED <<chat, confirmed, events, runs, clashed, left>>
  BY DEF Rename, TypeOK
<1>5. CASE tmp.is = "missing"
  BY <1>1, <1>4, <1>5 DEF Rename, TypeOK, disk
<1>6. CASE tmp.is # "missing"
  <2>1. state' = tmp /\ tmp' = Content("missing") /\ undone' = undone \cup PutBack(p)
    BY <1>6 DEF Rename, Moved
  <2>2. fd' \in [Threads -> {"none", "tmp", "state"}]
    BY <1>6 DEF Rename, Moved, TypeOK
  <2>3. fresh' \in [Threads -> BOOLEAN]
    BY <1>6 DEF Rename
  <2> QED BY <1>1, <1>2, <1>3, <1>4, <2>1, <2>2, <2>3 DEF TypeOK
<1> QED BY <1>5, <1>6

LEMMA SavesKept ==
  ASSUME Placed, UNCHANGED at,
         Saves("loop") => UNCHANGED lp, Saves("bot") => UNCHANGED bp
  PROVE  \A p \in Threads : at'[p] # "idle" => Saves(p)'
BY DEF Placed, Saves, Threads

LEMMA RenamePlaced ==
  ASSUME TypeOK, Placed, NEW p \in Threads, Rename(p),
         p = "loop" => UNCHANGED bp, p = "bot" => UNCHANGED lp
  PROVE  \A q \in Threads : at'[q] # "idle" => Saves(q)'
BY DEF Placed, Saves, Threads, Rename, TypeOK

LEMMA ForgetTyped ==
  ASSUME TypeOK, Placed, NEW p \in Threads, Forget(p)
  PROVE  copy' \in [Threads -> States] /\ \A q \in Threads : copy'[q].last <= Len(chat)
BY ContentTyped DEF Forget, TypeOK, Placed

-----------------------------------------------------------------------------
(* The loop *)

LoopPlaces == {"down", "work", "send", "register", "begin", "wait", "remove", "clear"}

LEMMA LoopTyped ==
  ASSUME TypeOK, Placed, LoopStep
  PROVE  TypeOK' /\ Placed'
<1>1. CASE AskUnreadable \/ BeginWait \/ Answered \/ ReadOn \/ GiveUp \/ RemoveUnreadable
  <2>1. UNCHANGED <<chat, confirmed, state, tmp, events, bp, offset, upto, runs>>
        /\ UNCHANGED <<copy, at, fd, fresh, undone, clashed, left>>
    BY <1>1 DEF AskUnreadable, BeginWait, Answered, ReadOn, GiveUp, RemoveUnreadable,
                LoopSaving, disk, bot, saving, history
  <2>2. asked' \in 0..MaxQuestions /\ lp' \in LoopPlaces /\ ~Saves("loop")
    BY <1>1 DEF AskUnreadable, BeginWait, Answered, ReadOn, GiveUp, RemoveUnreadable,
                LoopAt, LoopPlaces, Saves, TypeOK
  <2>3. pos' \in 0..Len(events)
    BY <1>1 DEF AskUnreadable, BeginWait, Answered, ReadOn, GiveUp, RemoveUnreadable, Replies, TypeOK
  <2>4. expired' \in BOOLEAN
    BY <1>1 DEF AskUnreadable, BeginWait, Answered, ReadOn, GiveUp, RemoveUnreadable, TypeOK
  <2>5. TypeOK'
    BY <2>1, <2>2, <2>3, <2>4 DEF TypeOK, LoopPlaces
  <2> QED BY <2>1, <2>2, <2>5, SavesKept DEF Placed
<1>2. CASE Ask \/ Send \/ SendFails \/ Remove
  <2>1. UNCHANGED <<chat, confirmed, state, tmp, events, bp, offset, upto, runs>>
        /\ UNCHANGED <<pos, expired, at, fd, undone, clashed, left>>
    BY <1>2 DEF Ask, Send, SendFails, Remove, Load, LoopOnly, disk, bot, history
  <2>2. asked' \in 0..MaxQuestions /\ lp' \in LoopPlaces /\ ~Saves("loop")
    BY <1>2 DEF Ask, Send, SendFails, Remove, LoopAt, LoopPlaces, Saves, TypeOK
  <2>3. fresh' \in [Threads -> BOOLEAN]
    BY <1>2 DEF Ask, Send, SendFails, Remove, Load, TypeOK, history
  <2>4. PICK c \in States : c.last <= Len(chat) /\ copy' = [copy EXCEPT !["loop"] = c]
    <3>1. Loaded \in States /\ Loaded.last <= Len(chat)
      BY DEF Loaded, States, Contents, TypeOK, Placed
    <3>2. [Loaded EXCEPT !.pending = 0] \in States /\ [Loaded EXCEPT !.pending = 0].last <= Len(chat)
      BY <3>1 DEF States, Contents
    <3>3. LET c == [copy["loop"] EXCEPT !.pending = asked]
          IN  c \in States /\ c.last <= Len(chat)
      BY DEF States, Contents, TypeOK, Placed, Threads
    <3>a. Blank \in States /\ Blank.last <= Len(chat)
      BY ContentTyped DEF TypeOK
    <3>4. CASE Send
      BY <3>3, <3>4 DEF Send, TypeOK
    <3>5. CASE Ask \/ Remove
      BY <3>1, <3>2, <3>5 DEF Ask, Remove, Load
    <3>6. CASE SendFails
      BY <3>a, <3>6 DEF SendFails, Forget
    <3> QED BY <1>2, <3>4, <3>5, <3>6
  <2>5. TypeOK'
    BY <2>1, <2>2, <2>3, <2>4 DEF TypeOK, LoopPlaces
  <2>6. \A p \in Threads : copy'[p].last <= Len(chat)
    BY <2>4 DEF TypeOK, Placed
  <2> QED BY <2>1, <2>2, <2>5, <2>6, SavesKept DEF Placed
<1>3. CASE WaitFails
  <2>1. UNCHANGED <<chat, confirmed, state, tmp, events, bp, offset, upto, runs>>
        /\ UNCHANGED <<asked, pos, expired, copy, at, fd, fresh, undone, clashed>>
    BY <1>3 DEF WaitFails, LoopOnly, disk, bot, saving
  <2>2. left' \subseteq 0..MaxQuestions /\ lp' \in LoopPlaces /\ ~Saves("loop")
    BY <1>3 DEF WaitFails, LoopAt, LoopPlaces, Saves, TypeOK
  <2>3. TypeOK'
    BY <2>1, <2>2 DEF TypeOK, LoopPlaces
  <2> QED BY <2>1, <2>2, <2>3, SavesKept DEF Placed
<1>4. CASE Registered \/ Removed
  <2>1. Rename("loop") /\ Forget("loop") /\ UNCHANGED <<asked, pos, expired, bp, offset, upto>>
        /\ lp' \in LoopPlaces
    BY <1>4 DEF Registered, Removed, LoopAt, LoopPlaces, bot
  <2>2. copy' \in [Threads -> States] /\ \A p \in Threads : copy'[p].last <= Len(chat)
    BY <2>1, ForgetTyped DEF Threads
  <2>3. TypeOK'
    BY <2>1, <2>2, RenameTyped DEF TypeOK, LoopPlaces, Threads
  <2> QED BY <2>1, <2>2, <2>3, RenameTyped, RenamePlaced DEF Placed, Threads
<1>5. CASE Open("loop") \/ Fill("loop")
  BY <1>5, OpenTyped, FillTyped DEF Threads
<1> QED BY <1>1, <1>2, <1>3, <1>4, <1>5 DEF LoopStep

-----------------------------------------------------------------------------
(* The polling task *)

BotPlaces == {"down", "poll", "take"} \cup Handling

\* The message at hand.
LEMMA CurrentIsOne ==
  ASSUME TypeOK, Placed, bp \in Handling
  PROVE  Current \in 1..MaxMessages /\ Current <= Len(chat)
BY DEF TypeOK, Placed, Current

LEMMA BotTyped ==
  ASSUME TypeOK, Placed, BotStep
  PROVE  TypeOK' /\ Placed'
<1>1. CASE Poll
  <2>1. UNCHANGED <<chat, events, state, tmp, lp, asked, pos, expired, runs>>
        /\ UNCHANGED <<copy, at, fd, fresh, undone, clashed, left>> /\ ~Saves("bot") /\ bp' \in BotPlaces
    BY <1>1 DEF Poll, BotSaving, disk, loop, bot, saving, history, Saves, BotPlaces, TypeOK, Handling
  <2>2. confirmed' \in 0..MaxMessages /\ confirmed' <= Len(chat)
    BY <1>1 DEF Poll, Greater, TypeOK, Placed
  <2>3. /\ offset' \in 1..MaxMessages + 1 /\ offset' <= Len(chat) + 1
        /\ upto' \in 0..Len(chat) /\ bp' \notin Handling
    BY <1>1, <2>2 DEF Poll, bot, TypeOK, Placed, Handling
  <2>4. TypeOK'
    BY <2>1, <2>2, <2>3 DEF TypeOK, BotPlaces, Handling
  <2> QED BY <2>1, <2>2, <2>3, <2>4, SavesKept DEF Placed
<1>2. CASE BatchDone \/ Command \/ Drop
  <2>1. UNCHANGED <<chat, confirmed, events, state, tmp, lp, asked, pos, expired, runs, upto>>
        /\ UNCHANGED <<copy, at, fd, fresh, undone, clashed, left>> /\ ~Saves("bot")
        /\ bp' \in {"poll", "take"}
    BY <1>2 DEF BatchDone, Command, Drop, BotAt, BotSaving, disk, loop, saving, history, Saves
  <2>2. offset' \in 1..MaxMessages + 1 /\ offset' <= Len(chat) + 1
    BY <1>2 DEF BatchDone, Command, Drop, NextUpdate, TypeOK, Placed
  <2>3. TypeOK'
    BY <2>1, <2>2 DEF TypeOK
  <2> QED BY <2>1, <2>2, <2>3, SavesKept DEF Placed, Handling
<1>3. CASE Take
  <2>1. UNCHANGED <<chat, confirmed, events, state, tmp, lp, asked, pos, expired, runs, upto>>
        /\ UNCHANGED <<at, fd, undone, clashed, left>> /\ ~Saves("bot") /\ bp' \in {"greet", "handle"}
    BY <1>3 DEF Take, Load, BotAt, BotOnly, disk, loop, Saves
  <2>2. offset' = offset + 1 /\ offset' \in 2..MaxMessages + 1 /\ offset' <= Len(chat) + 1
    BY <1>3 DEF Take, NextUpdate, TypeOK, Placed
  <2>3. [Loaded EXCEPT !.chat = TRUE] \in States /\ [Loaded EXCEPT !.chat = TRUE].last <= Len(chat)
    BY DEF Loaded, States, Contents, TypeOK, Placed
  <2>4. copy' \in [Threads -> States] /\ \A p \in Threads : copy'[p].last <= Len(chat)
    BY <1>3, <2>3 DEF Take, Load, TypeOK, Placed
  <2>5. fresh' \in [Threads -> BOOLEAN]
    BY <1>3 DEF Take, Load, TypeOK
  <2>6. TypeOK'
    BY <2>1, <2>2, <2>4, <2>5 DEF TypeOK
  <2> QED BY <2>1, <2>2, <2>4, <2>6, SavesKept DEF Placed
<1>4. CASE Reply \/ Guidance \/ Mark
  <2>1. UNCHANGED <<chat, confirmed, state, tmp, lp, asked, pos, expired, runs, offset, upto>>
        /\ UNCHANGED <<at, fd, fresh, undone, clashed, left>> /\ ~Saves("bot")
        /\ bp \in Handling /\ bp' \in Handling
    BY <1>4 DEF Reply, Guidance, Mark, BotAt, BotOnly, disk, loop, saving, history, Saves, Handling
  <2>2. Line(Current) \in Lines
    BY <2>1, CurrentIsOne DEF Line, Lines, TypeOK, States, Contents, Threads
  <2>3. events' \in Seq(Lines) /\ Len(events) <= Len(events')
    <3>1. events' = events \/ events' = Append(events, Line(Current))
      BY <1>4 DEF Reply, Guidance, Mark
    <3>2. \A s \in Seq(Lines), e \in Lines : Append(s, e) \in Seq(Lines) /\ Len(s) <= Len(Append(s, e))
      OBVIOUS
    <3>3. events \in Seq(Lines) /\ Len(events) <= Len(events)
      BY DEF TypeOK
    <3> QED BY <2>2, <3>1, <3>2, <3>3
  <2>4. copy' \in [Threads -> States] /\ \A p \in Threads : copy'[p].last <= Len(chat)
    <3>. DEFINE c == copy["bot"]
    <3>a. c \in States /\ c.last <= Len(chat)
      BY DEF TypeOK, Placed, Threads
    <3>. HIDE DEF c
    <3>1. [c EXCEPT !.pending = 0] \in States /\ [c EXCEPT !.pending = 0].last <= Len(chat)
      BY <3>a DEF States, Contents
    <3>2. [c EXCEPT !.last = Current] \in States /\ [c EXCEPT !.last = Current].last <= Len(chat)
      BY <2>1, <3>a, CurrentIsOne DEF States, Contents
    <3>3. CASE Reply
      BY <3>1, <3>3 DEF Reply, TypeOK, Placed, c
    <3>4. CASE Mark
      BY <3>2, <3>4 DEF Mark, Marked, TypeOK, Placed, c
    <3>5. CASE Guidance
      BY <3>5 DEF Guidance, saving, TypeOK, Placed
    <3> QED BY <1>4, <3>3, <3>4, <3>5
  <2>5. TypeOK'
    BY <2>1, <2>3, <2>4 DEF TypeOK, Handling
  <2> QED BY <2>1, <2>4, <2>5, SavesKept DEF Placed
<1>5. CASE Greeted \/ ReplyRecorded \/ MarkSaved
  <2>1. Rename("bot") /\ UNCHANGED <<offset, upto, lp, asked, pos, expired>>
        /\ bp' \in BotPlaces /\ bp \in Handling
    BY <1>5 DEF Greeted, ReplyRecorded, MarkSaved, BotAt, BotPlaces, Handling, loop
  <2>2. copy' \in [Threads -> States] /\ \A p \in Threads : copy'[p].last <= Len(chat)
    BY <1>5, ForgetTyped DEF Greeted, ReplyRecorded, MarkSaved, TypeOK, Placed, Threads
  <2>3. TypeOK'
    <3>1. /\ state' \in Contents /\ tmp' \in Contents
          /\ at' \in [Threads -> {"idle", "open", "filled"}] /\ fd' \in [Threads -> {"none", "tmp", "state"}]
          /\ fresh' \in [Threads -> BOOLEAN] /\ undone' \subseteq {"chat", "pending", "last"}
          /\ UNCHANGED <<chat, confirmed, events, runs, clashed, left>>
      BY <2>1, RenameTyped DEF Threads
    <3> QED BY <2>1, <2>2, <3>1 DEF TypeOK, BotPlaces, Handling
  <2> QED BY <2>1, <2>2, <2>3, RenameTyped, RenamePlaced DEF Placed, Threads
<1>6. CASE Open("bot") \/ Fill("bot")
  BY <1>6, OpenTyped, FillTyped DEF Threads
<1> QED BY <1>1, <1>2, <1>3, <1>4, <1>5, <1>6 DEF BotStep

-----------------------------------------------------------------------------
(* The human, the clock and the process *)

LEMMA RestTyped ==
  ASSUME TypeOK, Placed, Living, Write \/ Expire \/ Exit \/ Start \/ UNCHANGED vars
  PROVE  TypeOK' /\ Placed'
<1> USE DEF disk, loop, bot, saving, history
<1>1. CASE Write
  <2>1. PICK k \in Kinds : chat' = Append(chat, k)
    BY <1>1 DEF Write
  <2>2. chat' \in Seq(Kinds) /\ Len(chat') = Len(chat) + 1 /\ Len(chat') <= MaxMessages
    BY <1>1, <2>1 DEF Write, TypeOK
  <2>3. UNCHANGED <<confirmed, disk, events, loop, bot, saving, runs, history>>
    BY <1>1 DEF Write
  <2>4. TypeOK'
    BY <2>2, <2>3 DEF TypeOK
  <2>5. \A p \in Threads : copy[p].last <= Len(chat) /\ copy[p].last \in Nat
    BY DEF TypeOK, Placed, States, Contents
  <2>6. \A p \in Threads : copy'[p].last <= Len(chat')
    BY <2>2, <2>3, <2>5 DEF TypeOK
  <2>7. state.last \in Nat /\ tmp.last \in Nat /\ confirmed \in Nat /\ offset \in Nat
    BY DEF TypeOK, Contents
  <2>8. Len(chat) \in Nat
    BY DEF TypeOK
  <2>9. \A p \in Threads : at'[p] # "idle" => Saves(p)'
    BY <2>3, SavesKept
  <2>10. UNCHANGED <<bp, offset, confirmed, state, tmp>>
    BY <2>3
  <2>11. \A m \in {offset, confirmed, state.last, tmp.last} : m \in Nat
    BY <2>7
  <2>12. /\ offset <= Len(chat) + 1 /\ confirmed <= Len(chat)
         /\ state.last <= Len(chat) /\ tmp.last <= Len(chat)
    BY DEF Placed
  <2>13. /\ offset <= Len(chat') + 1 /\ confirmed <= Len(chat')
         /\ state.last <= Len(chat') /\ tmp.last <= Len(chat')
    BY <2>2, <2>8, <2>11, <2>12
  <2>14. bp' \in Handling => offset' >= 2
    BY <2>10 DEF Placed
  <2>15. /\ offset' <= Len(chat') + 1 /\ confirmed' <= Len(chat')
         /\ state'.last <= Len(chat') /\ tmp'.last <= Len(chat')
    BY <2>10, <2>13
  <2>16. Placed'
    BY <2>6, <2>9, <2>14, <2>15 DEF Placed
  <2> QED BY <2>4, <2>16
<1>2. CASE Expire
  <2>1. TypeOK'
    BY <1>2 DEF Expire, TypeOK
  <2> QED BY <1>2, <2>1, SavesKept DEF Expire, Placed
<1>3. CASE Exit
  <2>1. copy' = [p \in Threads |-> Blank] /\ at' = [p \in Threads |-> "idle"]
        /\ fd' = [p \in Threads |-> "none"] /\ fresh' = [p \in Threads |-> FALSE]
        /\ lp' = "down" /\ bp' = "down" /\ pos' = 0 /\ expired' = FALSE /\ offset' = 1 /\ upto' = 0
    BY <1>3 DEF Exit
  <2>2. left' \subseteq 0..MaxQuestions
    BY <1>3 DEF Exit, TypeOK
  <2>3. UNCHANGED <<chat, confirmed, state, tmp, events, asked, runs, undone, clashed>>
    BY <1>3 DEF Exit
  <2>4. copy' \in [Threads -> States] /\ \A p \in Threads : copy'[p].last <= Len(chat)
    BY <2>1, ContentTyped DEF TypeOK
  <2>5. /\ at' \in [Threads -> {"idle", "open", "filled"}] /\ fd' \in [Threads -> {"none", "tmp", "state"}]
        /\ fresh' \in [Threads -> BOOLEAN]
    BY <2>1
  <2>6. pos' \in 0..Len(events) /\ expired' \in BOOLEAN /\ offset' \in 1..MaxMessages + 1 /\ upto' \in 0..Len(chat)
    <3>1. 0 \in 0..Len(events) /\ 0 \in 0..Len(chat) /\ 1 \in 1..MaxMessages + 1
      BY DEF TypeOK
    <3> QED BY <2>1, <3>1
  <2>7. TypeOK'
    BY <2>1, <2>2, <2>3, <2>4, <2>5, <2>6 DEF TypeOK
  <2> QED BY <2>1, <2>3, <2>4, <2>7 DEF Placed, TypeOK, Handling
<1>4. CASE Start
  <2>1. lp' = "work" /\ bp' = "poll" /\ runs' = runs + 1 /\ runs < MaxRuns /\ lp = "down"
        /\ UNCHANGED <<chat, confirmed, state, tmp, events, asked, pos, expired, upto, saving, history>>
    BY <1>4 DEF Start
  <2>2. offset' \in 1..MaxMessages + 1 /\ offset' <= Len(chat) + 1
    <3>1. offset' \in {state.last + 1, 1}
      BY <1>4 DEF Start
    <3>2. state.last \in 0..MaxMessages /\ state.last <= Len(chat) /\ Len(chat) \in Nat
      BY DEF TypeOK, Placed, Contents
    <3> QED BY <3>1, <3>2
  <2>3. TypeOK'
    BY <2>1, <2>2 DEF TypeOK
  <2>4. \A p \in Threads : at'[p] # "idle" => Saves(p)'
    BY <2>1 DEF Placed, Living, Saves, Threads
  <2> QED BY <2>1, <2>2, <2>3, <2>4 DEF Placed, Handling
<1>5. CASE UNCHANGED vars
  <2>1. TypeOK'
    BY <1>5 DEF vars, TypeOK
  <2> QED BY <1>5, <2>1, SavesKept DEF vars, Placed
<1> QED BY <1>1, <1>2, <1>3, <1>4, <1>5

\* Every variable keeps its type: the wait's position is within the events, the
\* task's offset within the messages and one past them.
THEOREM TypeCorrect == Spec => []TypeOK
<1>1. Init => TypeOK /\ Placed /\ Living
  BY InitTyped DEF Init, Living
<1>2. TypeOK /\ Placed /\ Living /\ [Next]_vars => TypeOK' /\ Placed' /\ Living'
  BY LoopTyped, BotTyped, RestTyped, StepLiving DEF Next
<1> QED BY <1>1, <1>2, PTL DEF Spec

-----------------------------------------------------------------------------
(* One save at a time *)

\* As long as no two saves have overlapped, the temporary file is that of the
\* one who saves, and the state is somebody's copy.
OneSaves ==
  ~clashed =>
    /\ state.is \in {"missing", "state"}
    /\ \A p \in Threads : /\ at[p] # "idle" => at[Other(p)] = "idle" /\ fd[p] = "tmp"
                          /\ at[p] = "open" => tmp.is = "empty"
                          /\ at[p] = "filled" => tmp = copy[p]

LEMMA OneSavesKept ==
  ASSUME OneSaves, UNCHANGED <<state, tmp, at, fd, clashed>>,
         \A p \in Threads : at[p] # "idle" => copy'[p] = copy[p]
  PROVE  OneSaves'
BY DEF OneSaves

\* A rename then succeeds, and makes the copy the state.
LEMMA RenameMoves ==
  ASSUME TypeOK, OneSaves, ~clashed, NEW p \in Threads, Rename(p)
  PROVE  /\ state' = copy[p] /\ tmp.is = "state" /\ ~clashed'
         /\ fresh' = [q \in Threads |-> q = p] /\ undone' = undone \cup PutBack(p)
         /\ \A q \in Threads : at'[q] = "idle"
<1>1. at[p] = "filled" /\ tmp = copy[p] /\ at[Other(p)] = "idle"
  BY DEF Rename, OneSaves
<1>2. tmp.is = "state"
  BY <1>1 DEF TypeOK, States
<1>3. \A q \in Threads : q # p => at[q] = "idle"
  BY <1>1 DEF Other, Threads
<1> QED BY <1>1, <1>2, <1>3 DEF Rename, Moved, TypeOK

LEMMA StepOneSaves ==
  ASSUME TypeOK, Placed, OneSaves, [Next]_vars
  PROVE  OneSaves'
<1> USE DEF disk, loop, bot, saving, history, LoopOnly, LoopSaving, BotOnly, BotSaving
<1>1. CASE AskUnreadable \/ BeginWait \/ Answered \/ ReadOn \/ GiveUp \/ RemoveUnreadable \/ WaitFails
  BY <1>1, OneSavesKept DEF AskUnreadable, BeginWait, Answered, ReadOn, GiveUp, RemoveUnreadable, WaitFails
<1>2. CASE Ask \/ Send \/ SendFails \/ Remove
  <2>1. ~Saves("loop") /\ UNCHANGED <<state, tmp, at, fd, clashed>>
    BY <1>2 DEF Ask, Send, SendFails, Remove, Load, LoopAt, Saves
  <2>2. copy'["bot"] = copy["bot"]
    BY <1>2 DEF Ask, Send, SendFails, Remove, Load, Forget, TypeOK, Threads
  <2>3. \A p \in Threads : at[p] # "idle" => copy'[p] = copy[p]
    BY <2>1, <2>2 DEF Placed, Threads
  <2> QED BY <2>1, <2>3, OneSavesKept
<1>3. CASE Poll \/ BatchDone \/ Command \/ Drop \/ Guidance \/ Write \/ Expire \/ Start \/ UNCHANGED vars
  BY <1>3, OneSavesKept DEF Poll, BatchDone, Command, Drop, Guidance, Write, Expire, Start, vars
<1>4. CASE Take \/ Reply \/ Mark
  <2>1. ~Saves("bot") /\ UNCHANGED <<state, tmp, at, fd, clashed>>
    BY <1>4 DEF Take, Reply, Mark, Load, BotAt, Saves
  <2>2. copy'["loop"] = copy["loop"]
    BY <1>4 DEF Take, Reply, Mark, Marked, Load, TypeOK, Threads
  <2>3. \A p \in Threads : at[p] # "idle" => copy'[p] = copy[p]
    BY <2>1, <2>2 DEF Placed, Threads
  <2> QED BY <2>1, <2>3, OneSavesKept
<1>5. ASSUME NEW p \in Threads, Open(p) PROVE OneSaves'
  <2> SUFFICES ASSUME ~clashed' PROVE OneSaves'
    BY DEF OneSaves
  <2>1. ~clashed /\ at[Other(p)] = "idle" /\ tmp'.is = "empty"
    BY <1>5 DEF Open, Content, TypeOK
  <2>2. at'[p] = "open" /\ fd'[p] = "tmp" /\ \A q \in Threads : q # p => at'[q] = "idle"
    BY <1>5, <2>1 DEF Open, TypeOK, Other, Threads
  <2>3. at'[Other(p)] = "idle"
    BY <2>2 DEF Other, Threads
  <2>4. state' = state
    BY <1>5 DEF Open
  <2> QED BY <2>1, <2>2, <2>3, <2>4 DEF OneSaves
<1>6. ASSUME NEW p \in Threads, Fill(p) PROVE OneSaves'
  <2> SUFFICES ASSUME ~clashed' PROVE OneSaves'
    BY DEF OneSaves
  <2>1. ~clashed /\ at[p] = "open" /\ UNCHANGED <<copy, fd>> /\ at' = [at EXCEPT ![p] = "filled"]
    BY <1>6 DEF Fill
  <2>2. fd[p] = "tmp" /\ tmp.is = "empty" /\ at[Other(p)] = "idle"
    BY <2>1 DEF OneSaves
  <2>3. tmp' = copy[p] /\ state' = state
    BY <1>6, <2>2 DEF Fill, Over
  <2>4. at'[p] = "filled" /\ \A q \in Threads : q # p => at'[q] = "idle"
    BY <2>1, <2>2 DEF TypeOK, Other, Threads
  <2>5. at'[Other(p)] = "idle"
    BY <2>4 DEF Other, Threads
  <2> QED BY <2>1, <2>2, <2>3, <2>4, <2>5 DEF OneSaves
<1>7. ASSUME NEW p \in Threads, Rename(p) PROVE OneSaves'
  <2> SUFFICES ASSUME ~clashed' PROVE OneSaves'
    BY DEF OneSaves
  <2>1. ~clashed
    BY <1>7 DEF Rename
  <2>2. state'.is = "state" /\ \A q \in Threads : at'[q] = "idle"
    BY <1>7, <2>1, RenameMoves DEF TypeOK, States
  <2> QED BY <2>2 DEF OneSaves
<1>8. CASE Exit
  BY <1>8 DEF Exit, OneSaves
<1> QED BY <1>1, <1>2, <1>3, <1>4, <1>5, <1>6, <1>7, <1>8
        DEF Next, LoopStep, BotStep, Registered, Removed, Greeted, ReplyRecorded, MarkSaved, Threads

-----------------------------------------------------------------------------
(* What is recorded has been handled *)

\* The updates up to which every text is in the events file.
Settled == {n \in 0..Len(chat) : \A m \in 1..n : chat[m] = "text" => m \in Written}

\* Nothing is recorded, confirmed or passed before it is in the events file.
Recorded ==
  ~clashed =>
    /\ {state.last, confirmed} \subseteq Settled
    /\ \A p \in Threads : copy[p].last \in Settled
    /\ (IF bp \in {"greet", "handle"} THEN Current - 1 ELSE Current) \in Settled
    /\ bp # "failed"

\* A change of the question leaves the rest of a state.
LEMMA FieldsApart ==
  ASSUME NEW c \in States, NEW n
  PROVE  [c EXCEPT !.pending = n].last = c.last /\ [c EXCEPT !.pending = n].pending = n
BY DEF States, Contents

LEMMA WrittenGrows ==
  ASSUME TypeOK, NEW e \in Lines, events' = Append(events, e)
  PROVE  Written' = Written \cup {e.msg}
<1>1. events \in Seq(Lines)
  BY DEF TypeOK
<1>2. /\ \A i \in DOMAIN events : i \in DOMAIN events' /\ events'[i] = events[i]
      /\ Len(events) + 1 \in DOMAIN events' /\ events'[Len(events) + 1] = e
      /\ \A i \in DOMAIN events' : i \in DOMAIN events \/ i = Len(events) + 1
  BY <1>1
<1> QED BY <1>2 DEF Written

LEMMA EventsGrow ==
  ASSUME TypeOK, Placed, [Next]_vars
  PROVE  events' = events \/ \E e \in Lines : events' = Append(events, e)
<1> USE DEF bot, loop, vars, LoopOnly, LoopSaving
<1>1. CASE Reply \/ Guidance
  <2>1. Line(Current) \in Lines
    BY <1>1, CurrentIsOne DEF Reply, Guidance, BotAt, Handling, Line, Lines, TypeOK, States, Contents, Threads
  <2> QED BY <1>1, <2>1 DEF Reply, Guidance
<1>2. CASE LoopStep
  BY <1>2 DEF LoopStep, AskUnreadable, BeginWait, Answered, ReadOn, GiveUp, RemoveUnreadable, Ask, Send,
              SendFails, Remove, WaitFails, Registered, Removed, Open, Fill, Rename
<1>3. CASE BotStep /\ ~Reply /\ ~Guidance
  BY <1>3 DEF BotStep, Poll, BatchDone, Command, Drop, Take, Mark, Greeted,
              ReplyRecorded, MarkSaved, Open, Fill, Rename
<1>4. CASE Write \/ Expire \/ Exit \/ Start \/ UNCHANGED vars
  BY <1>4 DEF Write, Expire, Exit, Start
<1> QED BY <1>1, <1>2, <1>3, <1>4 DEF Next

LEMMA ChatGrows ==
  ASSUME TypeOK, [Next]_vars
  PROVE  Len(chat') \in Nat /\ Len(chat) <= Len(chat') /\ \A n \in 1..Len(chat) : chat'[n] = chat[n]
<1> USE DEF bot, loop, vars, LoopOnly, LoopSaving, BotOnly
<1>1. UNCHANGED chat \/ \E k \in Kinds : chat' = Append(chat, k)
  <2>2. CASE LoopStep
    BY <2>2 DEF LoopStep, AskUnreadable, BeginWait, Answered, ReadOn, GiveUp, RemoveUnreadable, Ask, Send,
                SendFails, Remove, WaitFails, Registered, Removed, Open, Fill, Rename
  <2>3. CASE BotStep
    BY <2>3 DEF BotStep, Poll, BatchDone, Command, Drop, Take, Mark, Greeted, Reply, Guidance,
                ReplyRecorded, MarkSaved, Open, Fill, Rename
  <2>4. CASE Write \/ Expire \/ Exit \/ Start \/ UNCHANGED vars
    BY <2>4 DEF Write, Expire, Exit, Start
  <2> QED BY <2>2, <2>3, <2>4 DEF Next
<1>2. chat \in Seq(Kinds)
  BY DEF TypeOK
<1> QED BY <1>1, <1>2

LEMMA SettledGrows ==
  ASSUME TypeOK, Placed, [Next]_vars
  PROVE  Settled \subseteq Settled'
<1>1. Written \subseteq Written'
  <2>1. CASE events' = events
    BY <2>1 DEF Written
  <2>2. CASE \E e \in Lines : events' = Append(events, e)
    BY <2>2, WrittenGrows
  <2> QED BY <2>1, <2>2, EventsGrow
<1>2. Len(chat) \in Nat /\ Len(chat') \in Nat
  BY ChatGrows DEF TypeOK
<1>3. ASSUME NEW n \in Settled PROVE n \in Settled'
  <2>1. n \in 0..Len(chat) /\ n \in 0..Len(chat')
    BY <1>2, ChatGrows DEF Settled
  <2>2. ASSUME NEW m \in 1..n, chat'[m] = "text" PROVE m \in Written'
    <3>1. m \in 1..Len(chat)
      BY <1>2, <2>1
    <3> QED BY <1>1, <2>2, <3>1, ChatGrows DEF Settled
  <2> QED BY <2>1, <2>2 DEF Settled
<1> QED BY <1>3

LEMMA QuietBefore ==
  ASSUME [Next]_vars
  PROVE  (clashed => clashed') /\ undone \subseteq undone'
<1> USE DEF saving, history, vars, LoopOnly, LoopSaving, BotOnly, BotSaving
<1>1. CASE AskUnreadable \/ BeginWait \/ Answered \/ ReadOn \/ GiveUp \/ RemoveUnreadable \/ WaitFails
           \/ Ask \/ Send \/ SendFails \/ Remove
  <2>1. UNCHANGED <<clashed, undone>>
    BY <1>1 DEF AskUnreadable, BeginWait, Answered, ReadOn, GiveUp, RemoveUnreadable, WaitFails,
                Ask, Send, SendFails, Remove, Load
  <2> QED BY <2>1
<1>2. CASE Poll \/ BatchDone \/ Command \/ Drop \/ Take \/ Reply \/ Guidance \/ Mark
           \/ Write \/ Expire \/ Exit \/ Start \/ UNCHANGED vars
  <2>1. UNCHANGED <<clashed, undone>>
    BY <1>2 DEF Poll, BatchDone, Command, Drop, Take, Reply, Guidance, Mark, Write, Expire, Exit, Start, Load
  <2> QED BY <2>1
<1>3. ASSUME NEW p \in Threads, Open(p) \/ Fill(p)
      PROVE  (clashed => clashed') /\ undone \subseteq undone'
  <2>1. UNCHANGED undone /\ (clashed' = clashed \/ clashed' = (clashed \/ at[Other(p)] # "idle"))
    BY <1>3 DEF Open, Fill
  <2>2. clashed => clashed'
    BY <2>1, Zenon
  <2> QED BY <2>1, <2>2
<1>4. ASSUME NEW p \in Threads, Rename(p)
      PROVE  (clashed => clashed') /\ undone \subseteq undone'
  BY <1>4 DEF Rename
<1> QED BY <1>1, <1>2, <1>3, <1>4
        DEF Next, LoopStep, BotStep, Registered, Removed, Greeted, ReplyRecorded, MarkSaved, Threads

LEMMA StepRecorded ==
  ASSUME TypeOK, Placed, OneSaves, Recorded, [Next]_vars
  PROVE  Recorded'
<1> USE DEF disk, loop, bot, saving, history, LoopOnly, LoopSaving, BotOnly, BotSaving
<1> SUFFICES ASSUME ~clashed' PROVE Recorded'
  BY DEF Recorded
<1>a. ~clashed
  BY QuietBefore
<1>b. Settled \subseteq Settled'
  BY SettledGrows
<1>c. 0 \in Settled
  BY DEF Settled, TypeOK
<1> DEFINE Passed == IF bp \in {"greet", "handle"} THEN Current - 1 ELSE Current
<1>d. /\ state.last \in Settled' /\ confirmed \in Settled' /\ \A p \in Threads : copy[p].last \in Settled'
      /\ Passed \in Settled' /\ bp # "failed"
  BY <1>a, <1>b DEF Recorded
<1>1. CASE AskUnreadable \/ BeginWait \/ Answered \/ ReadOn \/ GiveUp \/ RemoveUnreadable \/ WaitFails
           \/ Expire \/ UNCHANGED vars
  <2>1. UNCHANGED <<state, confirmed, copy, bp, offset>>
    BY <1>1 DEF AskUnreadable, BeginWait, Answered, ReadOn, GiveUp, RemoveUnreadable, WaitFails, Expire, vars
  <2> QED BY <1>d, <2>1 DEF Recorded, Current
<1>2. CASE Ask \/ Send \/ SendFails \/ Remove
  <2>1. UNCHANGED <<state, confirmed, bp, offset>>
    BY <1>2 DEF Ask, Send, SendFails, Remove, Load
  <2>2. copy'["loop"].last \in {state.last, copy["loop"].last, 0} /\ copy'["bot"] = copy["bot"]
    <3>1. Loaded \in States /\ Loaded.last = state.last
      BY DEF Loaded, States, Contents, TypeOK
    <3>2. CASE Ask
      BY <3>1, <3>2 DEF Ask, Load, TypeOK, Threads
    <3>3. CASE Remove
      BY <3>1, <3>3, FieldsApart DEF Remove, Load, TypeOK, Threads
    <3>4. CASE Send
      BY <3>4, FieldsApart DEF Send, TypeOK, Threads
    <3>5. CASE SendFails
      BY <3>5, ContentTyped DEF SendFails, Forget, TypeOK, Threads
    <3> QED BY <1>2, <3>2, <3>3, <3>4, <3>5
  <2>3. \A p \in Threads : copy'[p].last \in Settled'
    BY <1>b, <1>c, <1>d, <2>2 DEF Threads
  <2> QED BY <1>d, <2>1, <2>3 DEF Recorded, Current
<1>3. CASE Write
  BY <1>3, <1>d DEF Write, Recorded, Current
<1>4. CASE Poll
  <2>1. confirmed' \in {confirmed, offset - 1} /\ bp = "poll"
    BY <1>4 DEF Poll, Greater
  <2>2. confirmed' \in Settled'
    BY <1>d, <2>1 DEF Current
  <2>3. bp' \in {"poll", "take"} /\ offset' - 1 \in {offset - 1, confirmed'}
    BY <1>4, <2>1 DEF Poll, TypeOK
  <2>4. UNCHANGED <<state, copy>>
    BY <1>4 DEF Poll
  <2> QED BY <1>d, <2>1, <2>2, <2>3, <2>4 DEF Recorded, Current
<1>5. CASE BatchDone
  BY <1>5, <1>d DEF BatchDone, BotAt, Recorded, Current
<1>6. CASE Command
  <2>1. UNCHANGED <<state, confirmed, copy, chat, events>> /\ bp = "take" /\ bp' = "take"
        /\ offset' = offset + 1 /\ offset <= upto /\ chat[offset] = "command"
    BY <1>6 DEF Command, NextUpdate, BotAt
  <2>2. offset - 1 \in Settled
    BY <1>a, <2>1 DEF Recorded, Current
  <2>3. offset \in Settled
    <3>1. offset \in 0..Len(chat)
      BY <2>1 DEF TypeOK
    <3>2. \A m \in 1..offset : m \in 1..offset - 1 \/ m = offset
      BY DEF TypeOK
    <3> QED BY <2>1, <2>2, <3>1, <3>2 DEF Settled
  <2>4. offset' - 1 = offset
    BY <2>1 DEF TypeOK
  <2> QED BY <1>b, <1>d, <2>1, <2>3, <2>4 DEF Recorded, Current
<1>7. CASE Drop
  BY <1>7, <1>a DEF Drop, Readable, OneSaves
<1>8. CASE Take
  <2>1. UNCHANGED <<state, confirmed>> /\ bp = "take" /\ bp' \in {"greet", "handle"} /\ offset' = offset + 1
    BY <1>8 DEF Take, BotAt, NextUpdate
  <2>2. copy'["bot"].last = state.last /\ copy'["loop"] = copy["loop"]
    BY <1>8 DEF Take, Load, Loaded, TypeOK, Threads, Contents
  <2>3. (offset' - 1) - 1 = offset - 1
    BY <2>1 DEF TypeOK
  <2> QED BY <1>d, <2>1, <2>2, <2>3 DEF Recorded, Current, Threads
<1>9. CASE Reply \/ Guidance
  <2>1. UNCHANGED <<state, confirmed, offset, chat>> /\ bp = "handle" /\ bp' \in {"answered", "react"}
        /\ events' = Append(events, Line(Current))
    BY <1>9 DEF Reply, Guidance, BotAt
  <2>2. \A p \in Threads : copy'[p].last = copy[p].last
    <3>1. CASE Reply
      <4>1. copy' = [copy EXCEPT !["bot"] = [copy["bot"] EXCEPT !.pending = 0]]
        BY <3>1 DEF Reply
      <4>2. [copy["bot"] EXCEPT !.pending = 0].last = copy["bot"].last
        BY FieldsApart DEF TypeOK, Threads
      <4> QED BY <4>1, <4>2 DEF TypeOK
    <3>2. CASE Guidance
      BY <3>2 DEF Guidance
    <3> QED BY <1>9, <3>1, <3>2
  <2>3. Current \in 1..Len(chat)
    BY <2>1, CurrentIsOne DEF Handling
  <2>4. Line(Current) \in Lines
    BY <2>1, CurrentIsOne DEF Handling, Line, Lines, TypeOK, States, Contents, Threads
  <2>5. Written' = Written \cup {Current}
    BY <2>1, <2>4, WrittenGrows DEF Line
  <2>6. Current \in Settled'
    <3>1. Current - 1 \in Settled
      BY <1>a, <2>1 DEF Recorded
    <3>2. Current \in 0..Len(chat)
      BY <2>3
    <3>3. \A m \in 1..Current : m \in 1..Current - 1 \/ m = Current
      BY <2>3
    <3>4. \A m \in 1..Current : chat[m] = "text" => m \in Written'
      BY <2>5, <3>1, <3>3 DEF Settled
    <3> QED BY <2>1, <3>2, <3>4 DEF Settled
  <2>7. Current' = Current
    BY <2>1 DEF Current
  <2> QED BY <1>d, <2>1, <2>2, <2>6, <2>7 DEF Recorded
<1>10. CASE Mark
  <2>1. UNCHANGED <<state, confirmed, offset>> /\ bp \in {"react", "failed"} /\ bp' = "mark"
    BY <1>10 DEF Mark
  <2>2. copy'["bot"].last = Current /\ copy'["loop"] = copy["loop"]
    BY <1>10 DEF Mark, Marked, TypeOK, Threads, States, Contents
  <2>3. Current' = Current
    BY <2>1 DEF Current
  <2> QED BY <1>d, <2>1, <2>2, <2>3 DEF Recorded, Threads
<1>11. ASSUME NEW p \in Threads, Open(p) \/ Fill(p) PROVE Recorded'
  <2>1. UNCHANGED <<confirmed, copy, bp, offset>>
    BY <1>11 DEF Open, Fill
  <2>2. state' = state
    BY <1>11, <1>a DEF Open, Fill, OneSaves
  <2> QED BY <1>d, <2>1, <2>2 DEF Recorded, Current
<1>12. CASE Registered \/ Removed
  <2>1. Rename("loop") /\ Forget("loop") /\ UNCHANGED <<offset, bp>>
    BY <1>12 DEF Registered, Removed
  <2>2. state' = copy["loop"] /\ confirmed' = confirmed
    BY <1>a, <2>1, RenameMoves DEF Rename, Threads
  <2>3. copy'["loop"].last = 0 /\ copy'["bot"] = copy["bot"]
    BY <2>1 DEF Forget, Blank, Content, TypeOK, Threads
  <2> QED BY <1>b, <1>c, <1>d, <2>1, <2>2, <2>3 DEF Recorded, Current, Threads
<1>13. CASE Greeted \/ ReplyRecorded \/ MarkSaved
  <2>1. Rename("bot") /\ UNCHANGED offset /\ (UNCHANGED copy \/ Forget("bot"))
    BY <1>13 DEF Greeted, ReplyRecorded, MarkSaved
  <2>2. state' = copy["bot"] /\ confirmed' = confirmed /\ tmp.is = "state"
    BY <1>a, <2>1, RenameMoves DEF Rename, Threads
  <2>3. copy'["bot"].last \in {0, copy["bot"].last} /\ copy'["loop"] = copy["loop"]
    BY <2>1 DEF Forget, Blank, Content, TypeOK, Threads
  <2>4. <<bp, bp'>> \in {<<"greet", "handle">>, <<"answered", "react">>, <<"mark", "take">>}
    BY <1>13, <2>2 DEF Greeted, ReplyRecorded, MarkSaved, BotAt
  <2> QED BY <1>b, <1>c, <1>d, <2>1, <2>2, <2>3, <2>4 DEF Recorded, Current, Threads
<1>14. CASE Exit
  <2>1. copy' = [p \in Threads |-> Blank] /\ bp' = "down" /\ offset' = 1 /\ UNCHANGED <<state, confirmed>>
    BY <1>14 DEF Exit
  <2>2. \A p \in Threads : copy'[p].last = 0
    BY <2>1, ContentTyped
  <2>3. Current' = 0
    BY <2>1 DEF Current
  <2> QED BY <1>b, <1>c, <1>d, <2>1, <2>2, <2>3 DEF Recorded
<1>15. CASE Start
  <2>1. bp' = "poll" /\ UNCHANGED <<state, confirmed, copy>>
    BY <1>15 DEF Start
  <2>2. offset' - 1 \in {state.last, 0}
    BY <1>15 DEF Start, TypeOK, Contents
  <2> QED BY <1>b, <1>c, <1>d, <2>1, <2>2 DEF Recorded, Current
<1> QED BY <1>1, <1>2, <1>3, <1>4, <1>5, <1>6, <1>7, <1>8, <1>9, <1>10, <1>11, <1>12, <1>13, <1>14, <1>15
        DEF Next, LoopStep, BotStep, Threads

-----------------------------------------------------------------------------
(* The question that is pending *)

Replied == {events[i].to : i \in DOMAIN events}
Quiet == ~clashed /\ "pending" \notin undone

\* What the loop saves.
LoopCopy ==
  /\ lp = "register" => copy["loop"].pending = asked
  /\ lp = "clear" => copy["loop"].pending = 0

\* What the task saves: a new copy has the question that is pending, or none
\* after the line that answers it.
BotCopy ==
  /\ bp \in {"greet", "handle", "react", "mark"} /\ fresh["bot"] => copy["bot"].pending = state.pending
  /\ bp = "answered" => copy["bot"].pending = 0 /\ (fresh["bot"] => state.pending \in Replied)

\* The question that is pending while the loop waits, and the lines it has yet
\* to read.
Waiting ==
  /\ lp \in {"begin", "wait"} =>
       state.pending \in {0, asked} /\ (state.pending = asked \/ asked \in Replied)
  /\ lp = "wait" => \A i \in pos + 1..Len(events) : events[i].to \in {0, asked} \/ events[i].old
  /\ state.pending # 0 => \/ state.pending = asked /\ lp \in {"begin", "wait", "remove", "clear"}
                          \/ state.pending \in left

Tells == Quiet => LoopCopy /\ BotCopy /\ Waiting

\* A save that puts nothing back is that of a copy that has the question.
LEMMA NothingPutBack ==
  ASSUME "pending" \notin PutBack("bot"), ~fresh["bot"]
  PROVE  copy["bot"].pending = state.pending
<1>1. copy["bot"]["pending"] = state["pending"]
  BY DEF PutBack, Own
<1> QED BY <1>1

LEMMA RepliedGrows ==
  ASSUME TypeOK, Placed, [Next]_vars PROVE Replied \subseteq Replied'
<1>1. ASSUME NEW e \in Lines, events' = Append(events, e) PROVE Replied \subseteq Replied'
  BY <1>1 DEF Replied, TypeOK
<1>2. CASE events' = events
  BY <1>2 DEF Replied
<1> QED BY <1>1, <1>2, EventsGrow

LEMMA StepTells ==
  ASSUME TypeOK, Placed, Living, OneSaves, Recorded, Tells, [Next]_vars
  PROVE  Tells'
<1> USE DEF disk, loop, bot, saving, history, LoopOnly, LoopSaving, BotOnly, BotSaving
<1> SUFFICES ASSUME Quiet' PROVE LoopCopy' /\ BotCopy' /\ Waiting'
  BY DEF Tells
<1>a. Quiet /\ LoopCopy /\ BotCopy /\ Waiting
  BY QuietBefore DEF Quiet, Tells
<1>b. Replied \subseteq Replied'
  BY RepliedGrows
<1>c. state.is \in {"missing", "state"} /\ bp # "failed"
  BY <1>a DEF Quiet, OneSaves, Recorded
<1>1. CASE AskUnreadable \/ RemoveUnreadable \/ Drop
  BY <1>1, <1>c DEF AskUnreadable, RemoveUnreadable, Drop, Readable
<1>2. CASE Ask \/ Send \/ SendFails
  <2>1. UNCHANGED <<state, bp, events, left>> /\ lp \in {"work", "send"} /\ lp' \in {"send", "register", "work"}
        /\ fresh'["bot"] = fresh["bot"] /\ copy'["bot"] = copy["bot"]
    BY <1>2 DEF Ask, Send, SendFails, LoopAt, Load, Forget, TypeOK, Threads
  <2>2. LoopCopy'
    <3>1. CASE Send
      <4>1. copy' = [copy EXCEPT !["loop"] = [copy["loop"] EXCEPT !.pending = asked]] /\ asked' = asked
        BY <3>1 DEF Send
      <4>2. [copy["loop"] EXCEPT !.pending = asked].pending = asked
        BY FieldsApart DEF TypeOK, Threads
      <4>3. copy'["loop"].pending = asked'
        BY <4>1, <4>2 DEF TypeOK, Threads
      <4> QED BY <2>1, <4>3 DEF LoopCopy
    <3>2. CASE Ask \/ SendFails
      BY <3>2 DEF Ask, SendFails, LoopAt, LoopCopy
    <3> QED BY <1>2, <3>1, <3>2
  <2> QED BY <1>a, <1>b, <2>1, <2>2 DEF BotCopy, Waiting
<1>3. CASE Registered \/ Removed
  <2>1. Rename("loop") /\ Forget("loop") /\ UNCHANGED <<asked, pos, bp>>
    BY <1>3 DEF Registered, Removed
  <2>2. state' = copy["loop"] /\ tmp.is = "state" /\ fresh' = [q \in Threads |-> q = "loop"]
        /\ UNCHANGED <<events, left>>
    BY <1>a, <2>1, RenameMoves DEF Quiet, Rename, Threads
  <2>3. \/ lp = "register" /\ lp' = "begin" /\ state'.pending = asked
        \/ lp = "clear" /\ lp' = "work" /\ state'.pending = 0
    BY <1>3, <1>a, <2>2 DEF Registered, Removed, LoopAt, LoopCopy
  <2>4. ~fresh'["bot"] /\ copy'["bot"] = copy["bot"]
    BY <2>1, <2>2 DEF Threads, Forget, TypeOK
  <2> QED BY <1>a, <1>b, <2>1, <2>2, <2>3, <2>4 DEF LoopCopy, BotCopy, Waiting
<1>4. CASE BeginWait
  <2>1. UNCHANGED <<state, bp, events, left, copy, fresh, asked>> /\ lp = "begin" /\ lp' = "wait" /\ pos' = Len(events)
    BY <1>4 DEF BeginWait, LoopAt
  <2>2. \A i \in pos' + 1..Len(events') : FALSE
    BY <2>1 DEF TypeOK
  <2> QED BY <1>a, <1>b, <2>1, <2>2 DEF LoopCopy, BotCopy, Waiting
<1>5. CASE ReadOn
  <2>1. UNCHANGED <<state, bp, events, left, copy, fresh, asked, lp>> /\ lp = "wait" /\ pos' = Len(events)
    BY <1>5 DEF ReadOn, LoopAt
  <2>2. \A i \in pos' + 1..Len(events') : FALSE
    BY <2>1 DEF TypeOK
  <2> QED BY <1>a, <1>b, <2>1, <2>2 DEF LoopCopy, BotCopy, Waiting
<1>6. CASE Answered \/ GiveUp \/ WaitFails
  <2>1. UNCHANGED <<state, bp, events, copy, fresh, asked>> /\ lp = "wait" /\ left \subseteq left'
    BY <1>6 DEF Answered, GiveUp, WaitFails, LoopAt
  <2>2. lp' = "remove" \/ (lp' = "work" /\ asked \in left')
    BY <1>6 DEF Answered, GiveUp, WaitFails, LoopAt
  <2> QED BY <1>a, <1>b, <2>1, <2>2 DEF LoopCopy, BotCopy, Waiting
<1>7. CASE Remove
  <2>1. UNCHANGED <<state, bp, events, left, asked>> /\ lp = "remove" /\ lp' = "clear"
        /\ fresh'["bot"] = fresh["bot"] /\ copy'["bot"] = copy["bot"]
        /\ copy'["loop"] = [Loaded EXCEPT !.pending = 0]
    BY <1>7 DEF Remove, LoopAt, Load, TypeOK, Threads
  <2>2. Loaded \in States
    BY DEF Loaded, States, Contents, TypeOK
  <2>3. copy'["loop"].pending = 0
    BY <2>1, <2>2, FieldsApart
  <2> QED BY <1>a, <1>b, <2>1, <2>3 DEF LoopCopy, BotCopy, Waiting
<1>8. CASE Poll \/ BatchDone \/ Command
  <2>1. UNCHANGED <<state, events, left, asked, lp, pos, copy>> /\ bp' \in {"poll", "take"}
    BY <1>8 DEF Poll, BatchDone, Command, BotAt
  <2> QED BY <1>a, <1>b, <2>1 DEF LoopCopy, BotCopy, Waiting
<1>9. CASE Write \/ Expire \/ UNCHANGED vars
  <2>1. UNCHANGED <<state, events, left, asked, lp, pos, copy, bp, fresh>>
    BY <1>9 DEF Write, Expire, vars
  <2> QED BY <1>a, <1>b, <2>1 DEF LoopCopy, BotCopy, Waiting
<1>10. CASE Take
  <2>1. UNCHANGED <<state, events, left, asked, lp, pos>> /\ bp' \in {"greet", "handle"}
        /\ copy'["loop"] = copy["loop"] /\ copy'["bot"] = [Loaded EXCEPT !.chat = TRUE]
    BY <1>10 DEF Take, Load, BotAt, TypeOK, Threads
  <2>2. copy'["bot"].pending = state.pending
    BY <2>1 DEF Loaded, TypeOK, Contents
  <2> QED BY <1>a, <1>b, <2>1, <2>2 DEF LoopCopy, BotCopy, Waiting
<1>11. CASE Reply \/ Guidance
  <2>1. UNCHANGED <<state, left, asked, lp, pos, fresh>> /\ bp = "handle"
        /\ events' = Append(events, Line(Current)) /\ copy'["loop"] = copy["loop"]
    BY <1>11 DEF Reply, Guidance, BotAt, TypeOK, Threads
  <2>2. Line(Current) \in Lines
    BY <2>1, CurrentIsOne DEF Handling, Line, Lines, TypeOK, States, Contents, Threads
  <2>3. events'[Len(events) + 1] = Line(Current) /\ Len(events') = Len(events) + 1
        /\ \A i \in 1..Len(events) : events'[i] = events[i]
    BY <2>1, <2>2 DEF TypeOK
  <2>4. fresh["bot"] => copy["bot"].pending = state.pending
    BY <1>a, <2>1 DEF BotCopy
  <2>5. Line(Current).to \in Replied'
    BY <2>3 DEF Replied, TypeOK
  <2>6. BotCopy'
    <3>1. CASE Guidance
      BY <2>1, <2>4, <3>1 DEF Guidance, BotAt, BotCopy
    <3>2. CASE Reply
      <4>1. copy' = [copy EXCEPT !["bot"] = [copy["bot"] EXCEPT !.pending = 0]] /\ bp' = "answered"
        BY <3>2 DEF Reply, BotAt
      <4>2. copy'["bot"].pending = 0
        BY <4>1, FieldsApart DEF TypeOK, Threads
      <4>3. fresh["bot"] => state.pending \in Replied'
        BY <2>4, <2>5 DEF Line
      <4> QED BY <2>1, <4>1, <4>2, <4>3 DEF BotCopy
    <3> QED BY <1>11, <3>1, <3>2
  <2>7. Waiting'
    <3>1. ASSUME lp = "wait", NEW i \in pos + 1..Len(events) + 1
          PROVE  events'[i].to \in {0, asked} \/ events'[i].old
      <4>1. CASE i = Len(events) + 1
        <5>1. events'[i].to = copy["bot"].pending /\ events'[i].old = ~fresh["bot"]
          BY <2>3, <4>1 DEF Line
        <5>2. state.pending \in {0, asked}
          BY <1>a, <3>1 DEF Waiting
        <5> QED BY <2>4, <5>1, <5>2
      <4>2. CASE i # Len(events) + 1
        <5>1. i \in pos + 1..Len(events) /\ i \in 1..Len(events)
          BY <3>1, <4>2 DEF TypeOK
        <5> QED BY <1>a, <2>3, <3>1, <5>1 DEF Waiting
      <4> QED BY <4>1, <4>2
    <3> QED BY <1>a, <1>b, <2>1, <2>3, <3>1 DEF Waiting
  <2> QED BY <1>a, <2>1, <2>6, <2>7 DEF LoopCopy
<1>12. CASE Mark
  <2>1. UNCHANGED <<state, events, left, asked, lp, pos, fresh>> /\ bp = "react" /\ bp' = "mark"
    BY <1>12, <1>c DEF Mark
  <2>2. copy'["loop"] = copy["loop"] /\ copy'["bot"].pending = copy["bot"].pending
    BY <1>12 DEF Mark, Marked, TypeOK, Threads, States, Contents
  <2> QED BY <1>a, <1>b, <2>1, <2>2 DEF LoopCopy, BotCopy, Waiting
<1>13. CASE Greeted \/ ReplyRecorded \/ MarkSaved
  <2>1. Rename("bot") /\ UNCHANGED <<lp, asked, pos>> /\ (UNCHANGED copy \/ Forget("bot"))
    BY <1>13 DEF Greeted, ReplyRecorded, MarkSaved
  <2>2. state' = copy["bot"] /\ tmp.is = "state" /\ undone' = undone \cup PutBack("bot")
        /\ UNCHANGED <<events, left>>
    BY <1>a, <2>1, RenameMoves DEF Quiet, Rename, Threads
  <2>3. \/ bp = "greet" /\ bp' = "handle" /\ UNCHANGED copy
        \/ bp = "answered" /\ bp' = "react" /\ UNCHANGED copy
        \/ bp = "mark" /\ bp' = "take"
    BY <1>13, <2>2 DEF Greeted, ReplyRecorded, MarkSaved, BotAt
  <2>4. ~fresh["bot"] => copy["bot"].pending = state.pending
    BY <2>2, NothingPutBack DEF Quiet
  <2>5. copy'["loop"] = copy["loop"]
    BY <2>1 DEF Forget, TypeOK, Threads
  <2>6. BotCopy'
    BY <2>2, <2>3 DEF BotCopy
  <2>7. CASE bp # "answered"
    <3>1. state'.pending = state.pending
      BY <1>a, <2>2, <2>3, <2>4, <2>7 DEF BotCopy
    <3> QED BY <1>a, <1>b, <2>1, <2>2, <2>5, <2>6, <3>1 DEF LoopCopy, Waiting
  <2>8. CASE bp = "answered"
    <3>1. state'.pending = 0 /\ (state.pending = 0 \/ state.pending \in Replied)
      BY <1>a, <2>2, <2>4, <2>8 DEF BotCopy, TypeOK
    <3> QED BY <1>a, <1>b, <2>1, <2>2, <2>5, <2>6, <3>1 DEF LoopCopy, Waiting
  <2> QED BY <2>7, <2>8
<1>14. CASE Exit
  <2>1. UNCHANGED <<state, events, asked>> /\ lp' = "down" /\ bp' = "down"
        /\ left' = IF lp = "work" THEN left ELSE left \cup {asked}
    BY <1>14 DEF Exit
  <2> QED BY <1>a, <2>1 DEF LoopCopy, BotCopy, Waiting
<1>15. CASE Start
  <2>1. UNCHANGED <<state, events, asked, left>> /\ lp = "down" /\ lp' = "work" /\ bp' = "poll"
    BY <1>15 DEF Start
  <2> QED BY <1>a, <2>1 DEF LoopCopy, BotCopy, Waiting
<1>16. ASSUME NEW p \in Threads, Open(p) \/ Fill(p) PROVE LoopCopy' /\ BotCopy' /\ Waiting'
  <2>1. UNCHANGED <<events, left, asked, lp, pos, copy, bp, fresh>>
    BY <1>16 DEF Open, Fill
  <2>2. state' = state
    BY <1>16, <1>a DEF Open, Fill, OneSaves, Quiet
  <2> QED BY <1>a, <1>b, <2>1, <2>2 DEF LoopCopy, BotCopy, Waiting
<1> QED BY <1>1, <1>2, <1>3, <1>4, <1>5, <1>6, <1>7, <1>8, <1>9, <1>10, <1>11, <1>12, <1>13, <1>14, <1>15, <1>16
        DEF Next, LoopStep, BotStep, Threads

-----------------------------------------------------------------------------
(* How often a message is repeated *)

Kept == ~clashed /\ "last" \notin undone

\* What is written and not recorded; and that no text comes after what is
\* recorded, up to an update.
Unsaved == {w \in Written : w > state.last}
NoText(n) == \A m \in state.last + 1..n : chat[m] # "text"

\* The last update in a copy is the one recorded: none but the task changes it,
\* and the task's mark is the message at hand.
Copies ==
  /\ lp \in {"send", "register", "clear"} /\ fresh["loop"] => copy["loop"].last = state.last
  /\ bp \in {"greet", "handle", "answered", "react"} => copy["bot"].last = state.last
  /\ bp = "mark" => copy["bot"].last = Current

\* The text written and not recorded is the first after what is recorded: the
\* one at hand, or one that the task of the next process comes to first.
Resumes ==
  /\ NoText(confirmed)
  /\ bp \in {"poll", "take"} =>
       state.last < offset /\ NoText(offset - 1) /\ \A w \in Unsaved : offset <= w
  /\ bp = "take" => confirmed < offset
  /\ bp \in Handling =>
       /\ state.last < Current /\ NoText(Current - 1) /\ chat[Current] = "text"
       /\ confirmed < Current /\ \A w \in Unsaved : w = Current
  /\ \A w \in Unsaved : w <= Len(chat) /\ chat[w] = "text" /\ NoText(w - 1) /\ confirmed < w

\* Every process but the first repeats one message at most; one that has a text
\* to repeat has yet to do so.
Counts ==
  /\ runs = 0 => events = <<>> /\ lp = "down"
  /\ Cardinality(Repeated) < Greater(runs, 1)
  /\ bp \in {"poll", "take", "greet", "handle"} /\ Unsaved # {} => Cardinality(Repeated) + 1 < runs

Resuming == Kept => Copies /\ Resumes /\ Counts

\* A save is that of the copy; the loop's has the last update that is recorded.
LEMMA SavedLast ==
  ASSUME TypeOK, Placed, OneSaves, Copies, ~clashed, "last" \notin undone', NEW p \in Threads, Rename(p)
  PROVE  /\ state' = copy[p] /\ tmp.is = "state"
         /\ p = "loop" => state'.last = state.last
<1>1. state' = copy[p] /\ tmp.is = "state" /\ undone' = undone \cup PutBack(p)
  BY RenameMoves
<1>2. ASSUME p = "loop", ~fresh["loop"] PROVE copy["loop"].last = state.last
  <2>1. copy["loop"]["last"] = state["last"]
    BY <1>1, <1>2 DEF PutBack, Own
  <2> QED BY <2>1
<1>3. p = "loop" /\ fresh["loop"] => copy["loop"].last = state.last
  BY DEF Rename, Saves, Copies
<1> QED BY <1>1, <1>2, <1>3

\* What Resumes says is kept by a step that leaves the messages, the record and
\* the lines alone.
LEMMA ResumesKept ==
  ASSUME Resumes, UNCHANGED <<chat, confirmed, events, offset>>, state'.last = state.last,
         UNCHANGED bp \/ {bp, bp'} \subseteq Handling
  PROVE  Resumes'
<1>1. Unsaved' = Unsaved /\ Current' = Current /\ \A n : NoText(n)' <=> NoText(n)
  BY DEF Unsaved, Written, Current, NoText
<1>2. CASE UNCHANGED bp
  BY <1>1, <1>2 DEF Resumes
<1>3. CASE {bp, bp'} \subseteq Handling
  BY <1>1, <1>3 DEF Resumes, Handling
<1> QED BY <1>2, <1>3

LEMMA CountsKept ==
  ASSUME Counts, UNCHANGED <<events, runs>>, state'.last = state.last, lp = "down" => UNCHANGED lp,
         bp' \in {"poll", "take", "greet", "handle"} => bp \in {"poll", "take", "greet", "handle"}
  PROVE  Counts'
<1>1. Unsaved' = Unsaved /\ Repeated' = Repeated
  BY DEF Unsaved, Written, Repeated
<1> QED BY <1>1 DEF Counts

LEMMA WrittenNumbers ==
  ASSUME TypeOK PROVE Written \subseteq Nat
<1>1. \A i \in DOMAIN events : events[i] \in Lines
  BY DEF TypeOK
<1>2. \A l \in Lines : l.msg \in Nat
  BY DEF Lines
<1> QED BY <1>1, <1>2 DEF Written

LEMMA RepeatedFinite ==
  ASSUME TypeOK PROVE IsFiniteSet(Repeated) /\ Cardinality(Repeated) \in Nat
<1>1. Repeated \in SUBSET (1..Len(events)) /\ Len(events) \in Nat
  BY DEF Repeated, TypeOK
<1>2. IsFiniteSet(1..Len(events))
  BY <1>1, FS_Interval
<1> QED BY <1>1, <1>2, FS_Subset, FS_CardinalityType

\* A new line repeats its message if the message was there before, and the lines
\* before it are what they were.
LEMMA RepeatedGrows ==
  ASSUME TypeOK, NEW e \in Lines, events' = Append(events, e)
  PROVE  /\ e.msg \notin Written => Repeated' = Repeated
         /\ Cardinality(Repeated') <= Cardinality(Repeated) + 1
         /\ Cardinality(Repeated') \in Nat
<1> DEFINE new == Len(events) + 1
<1>1. events \in Seq(Lines)
  BY DEF TypeOK
<1>2. /\ DOMAIN events = 1..Len(events) /\ DOMAIN events' = 1..new /\ Len(events) \in Nat
      /\ \A i \in 1..Len(events) : events'[i] = events[i]
      /\ events'[new] = e
  BY <1>1
<1>3. ASSUME NEW i \in 1..Len(events) PROVE i \in Repeated' <=> i \in Repeated
  <2>1. \A j \in 1..i - 1 : events'[j] = events[j]
    BY <1>2
  <2> QED BY <1>2, <1>3, <2>1 DEF Repeated
<1>4. new \in Repeated' <=> e.msg \in Written
  <2>1. new - 1 = Len(events)
    BY <1>2
  <2>2. new \in Repeated' <=> \E j \in 1..Len(events) : events[j].msg = e.msg
    BY <1>2, <2>1 DEF Repeated
  <2> QED BY <1>2, <2>2 DEF Written
<1>5. Repeated \subseteq 1..Len(events) /\ Repeated' \subseteq 1..new /\ new \notin 1..Len(events)
  BY <1>2 DEF Repeated
<1>6. \A i \in 1..new : i \in 1..Len(events) \/ i = new
  BY <1>2
<1>7. Repeated' = Repeated \/ Repeated' = Repeated \cup {new}
  BY <1>3, <1>5, <1>6
<1>8. e.msg \notin Written => Repeated' = Repeated
  BY <1>3, <1>4, <1>5, <1>6
<1>9. Cardinality(Repeated \cup {new}) <= Cardinality(Repeated) + 1
  <2>. HIDE DEF new
  <2>1. IsFiniteSet(Repeated) /\ Cardinality(Repeated) \in Nat
    BY RepeatedFinite
  <2>2. Cardinality(Repeated \cup {new})
          = IF new \in Repeated THEN Cardinality(Repeated) ELSE Cardinality(Repeated) + 1
    BY <2>1, FS_AddElement, Zenon
  <2> QED BY <2>1, <2>2
<1>10. Cardinality(Repeated) \in Nat /\ Cardinality(Repeated) <= Cardinality(Repeated) + 1
  BY RepeatedFinite
<1>11. Cardinality(Repeated \cup {new}) \in Nat
  BY RepeatedFinite, FS_AddElement, FS_CardinalityType
<1> QED BY <1>7, <1>8, <1>9, <1>10, <1>11

LEMMA StepCopies ==
  ASSUME TypeOK, Placed, OneSaves, Recorded, Copies, Kept', [Next]_vars, ~clashed
  PROVE  Copies'
<1> USE DEF disk, loop, bot, saving, history, LoopOnly, LoopSaving, BotOnly, BotSaving
<1>a. state.is \in {"missing", "state"} /\ bp # "failed"
  BY DEF OneSaves, Recorded
<1>b. Loaded \in States /\ Loaded.last = state.last /\ [Loaded EXCEPT !.chat = TRUE].last = state.last
  BY DEF Loaded, States, Contents, TypeOK
<1>1. CASE AskUnreadable \/ RemoveUnreadable \/ Drop
  BY <1>1, <1>a DEF AskUnreadable, RemoveUnreadable, Drop, Readable
<1>2. CASE Ask \/ Remove
  <2>1. /\ UNCHANGED <<state, bp, offset>> /\ copy'["bot"] = copy["bot"]
        /\ copy'["loop"] \in {Loaded, [Loaded EXCEPT !.pending = 0]}
    BY <1>2 DEF Ask, Remove, Load, TypeOK, Threads
  <2>2. [Loaded EXCEPT !.pending = 0].last = Loaded.last
    BY <1>b, FieldsApart
  <2>3. copy'["loop"].last = state.last
    BY <1>b, <2>1, <2>2
  <2> QED BY <2>1, <2>3 DEF Copies, Current
<1>3. CASE Send \/ SendFails
  <2>1. UNCHANGED <<state, bp, offset, fresh>> /\ copy'["bot"] = copy["bot"] /\ lp = "send"
    BY <1>3 DEF Send, SendFails, LoopAt, Forget, TypeOK, Threads
  <2>2. lp' = "work" \/ (lp' = "register" /\ copy'["loop"].last = copy["loop"].last)
    <3>1. CASE Send
      <4>1. copy' = [copy EXCEPT !["loop"] = [copy["loop"] EXCEPT !.pending = asked]] /\ lp' = "register"
        BY <3>1 DEF Send, LoopAt
      <4>2. [copy["loop"] EXCEPT !.pending = asked].last = copy["loop"].last
        BY FieldsApart DEF TypeOK, Threads
      <4> QED BY <4>1, <4>2 DEF TypeOK, Threads
    <3> QED BY <1>3, <3>1 DEF SendFails, LoopAt
  <2> QED BY <2>1, <2>2 DEF Copies, Current
<1>4. CASE BeginWait \/ Answered \/ ReadOn \/ GiveUp \/ WaitFails
  <2>1. UNCHANGED <<state, bp, offset, copy, fresh>> /\ lp' \in {"wait", "remove", "work"}
    BY <1>4 DEF BeginWait, Answered, ReadOn, GiveUp, WaitFails, LoopAt
  <2> QED BY <2>1 DEF Copies, Current
<1>5. CASE Registered \/ Removed
  <2>1. Rename("loop") /\ Forget("loop") /\ UNCHANGED <<bp, offset>> /\ lp' \in {"work", "begin"}
    BY <1>5 DEF Registered, Removed, LoopAt
  <2>2. state'.last = state.last
    BY <2>1, SavedLast DEF Kept, Threads
  <2>3. copy'["bot"] = copy["bot"]
    BY <2>1 DEF Forget, TypeOK, Threads
  <2> QED BY <2>1, <2>2, <2>3 DEF Copies, Current
<1>6. CASE Poll \/ BatchDone \/ Command \/ Write \/ Expire \/ Start \/ UNCHANGED vars
  <2>1. UNCHANGED <<state, copy, fresh>> /\ (UNCHANGED <<bp, offset>> \/ bp' \in {"poll", "take"})
        /\ (UNCHANGED lp \/ lp' = "work")
    BY <1>6 DEF Poll, BatchDone, Command, Write, Expire, Start, vars, BotAt
  <2> QED BY <2>1 DEF Copies, Current
<1>7. CASE Take
  <2>1. UNCHANGED <<state, lp>> /\ bp' \in {"greet", "handle"} /\ copy'["loop"] = copy["loop"]
        /\ fresh'["loop"] = fresh["loop"] /\ copy'["bot"] = [Loaded EXCEPT !.chat = TRUE]
    BY <1>7 DEF Take, Load, BotAt, TypeOK, Threads
  <2> QED BY <1>b, <2>1 DEF Copies
<1>8. CASE Reply \/ Guidance
  <2>1. UNCHANGED <<state, lp, fresh>> /\ bp = "handle" /\ bp' \in {"answered", "react"}
    BY <1>8 DEF Reply, Guidance, BotAt
  <2>2. copy'["loop"] = copy["loop"] /\ copy'["bot"].last = copy["bot"].last
    <3>1. CASE Reply
      <4>1. copy' = [copy EXCEPT !["bot"] = [copy["bot"] EXCEPT !.pending = 0]]
        BY <3>1 DEF Reply
      <4>2. [copy["bot"] EXCEPT !.pending = 0].last = copy["bot"].last
        BY FieldsApart DEF TypeOK, Threads
      <4> QED BY <4>1, <4>2 DEF TypeOK, Threads
    <3> QED BY <1>8, <3>1 DEF Guidance
  <2> QED BY <2>1, <2>2 DEF Copies
<1>9. CASE Mark
  <2>1. UNCHANGED <<state, lp, fresh, offset>> /\ bp' = "mark" /\ copy'["loop"] = copy["loop"]
        /\ copy'["bot"].last = Current
    BY <1>9 DEF Mark, Marked, TypeOK, Threads, States, Contents
  <2> QED BY <2>1 DEF Copies, Current
<1>10. CASE Greeted \/ ReplyRecorded \/ MarkSaved
  <2>1. Rename("bot") /\ UNCHANGED lp
    BY <1>10 DEF Greeted, ReplyRecorded, MarkSaved
  <2>2. state' = copy["bot"] /\ tmp.is = "state" /\ ~fresh'["loop"]
    BY <2>1, RenameMoves, SavedLast DEF Kept, Threads
  <2>3. bp' = "take" \/ (bp' \in {"handle", "react"} /\ UNCHANGED copy)
    BY <1>10, <2>2 DEF Greeted, ReplyRecorded, MarkSaved, BotAt
  <2> QED BY <2>1, <2>2, <2>3 DEF Copies
<1>11. CASE Exit
  BY <1>11 DEF Exit, Copies
<1>12. ASSUME NEW p \in Threads, Open(p) \/ Fill(p) PROVE Copies'
  <2>1. UNCHANGED <<lp, bp, offset, copy, fresh>>
    BY <1>12 DEF Open, Fill
  <2>2. state' = state
    BY <1>12 DEF Open, Fill, OneSaves
  <2> QED BY <2>1, <2>2 DEF Copies, Current
<1> QED BY <1>1, <1>2, <1>3, <1>4, <1>5, <1>6, <1>7, <1>8, <1>9, <1>10, <1>11, <1>12
        DEF Next, LoopStep, BotStep, Threads

LEMMA StepResumes ==
  ASSUME TypeOK, Placed, Living, OneSaves, Recorded, Copies, Resumes, Kept', [Next]_vars, ~clashed
  PROVE  Resumes'
<1> USE DEF disk, loop, bot, saving, history, LoopOnly, LoopSaving, BotOnly, BotSaving
<1>a. state.is \in {"missing", "state"} /\ bp # "failed"
  BY DEF OneSaves, Recorded
<1>b. state.last \in Nat /\ confirmed \in Nat /\ offset \in Nat /\ Len(chat) \in Nat
      /\ Current \in Int /\ Current + 1 = offset
  BY DEF TypeOK, Contents, Current
<1>c. Unsaved \subseteq Nat
  BY WrittenNumbers DEF Unsaved
<1>1. CASE AskUnreadable \/ RemoveUnreadable \/ Drop
  BY <1>1, <1>a DEF AskUnreadable, RemoveUnreadable, Drop, Readable
<1>2. CASE Ask \/ Remove \/ Send \/ SendFails \/ BeginWait \/ Answered \/ ReadOn \/ GiveUp \/ WaitFails
           \/ Expire \/ UNCHANGED vars
  <2>1. UNCHANGED <<chat, confirmed, events, offset, state, bp>>
    BY <1>2 DEF Ask, Remove, Send, SendFails, BeginWait, Answered, ReadOn, GiveUp, WaitFails, Expire, vars
  <2> QED BY <2>1, ResumesKept
<1>3. CASE Registered \/ Removed
  <2>1. Rename("loop") /\ UNCHANGED <<chat, confirmed, events, offset, bp>>
    BY <1>3 DEF Registered, Removed, Rename
  <2>2. state'.last = state.last
    BY <2>1, SavedLast DEF Kept, Threads
  <2> QED BY <2>1, <2>2, ResumesKept
<1>4. CASE Greeted \/ ReplyRecorded
  <2>1. Rename("bot") /\ UNCHANGED <<chat, confirmed, events, offset>>
        /\ {bp, bp'} \subseteq Handling /\ bp \in {"greet", "answered"}
    BY <1>4 DEF Greeted, ReplyRecorded, BotAt, Rename, Handling
  <2>2. state'.last = state.last
    BY <2>1, SavedLast DEF Kept, Threads, Copies
  <2> QED BY <2>1, <2>2, ResumesKept
<1>5. CASE Mark
  <2>1. UNCHANGED <<chat, confirmed, events, offset, state>> /\ {bp, bp'} \subseteq Handling
    BY <1>5 DEF Mark, Handling
  <2> QED BY <2>1, ResumesKept
<1>6. ASSUME NEW p \in Threads, Open(p) \/ Fill(p) PROVE Resumes'
  <2>1. UNCHANGED <<chat, confirmed, events, offset, bp>>
    BY <1>6 DEF Open, Fill
  <2>2. state' = state
    BY <1>6 DEF Open, Fill, OneSaves
  <2> QED BY <2>1, <2>2, ResumesKept
<1>7. CASE Write
  <2>1. UNCHANGED <<confirmed, events, offset, state, bp>> /\ \E k \in Kinds : chat' = Append(chat, k)
    BY <1>7 DEF Write
  <2>2. Len(chat') \in Nat /\ Len(chat) <= Len(chat') /\ \A n \in 1..Len(chat) : chat'[n] = chat[n]
    BY ChatGrows
  <2>3. ASSUME NEW n \in Nat, n <= Len(chat), NoText(n) PROVE NoText(n)'
    <3>1. \A m \in state.last + 1..n : m \in 1..Len(chat)
      BY <1>b, <2>3
    <3> QED BY <2>1, <2>2, <2>3, <3>1 DEF NoText
  <2>4. Unsaved' = Unsaved /\ Current' = Current
    BY <2>1 DEF Unsaved, Written, Current
  <2>5. NoText(confirmed)'
    BY <1>b, <2>1, <2>3 DEF Resumes, Placed
  <2>6. \A w \in Unsaved : w <= Len(chat') /\ chat'[w] = "text" /\ NoText(w - 1)' /\ confirmed < w
    <3>1. SUFFICES ASSUME NEW w \in Unsaved
                   PROVE  w <= Len(chat') /\ chat'[w] = "text" /\ NoText(w - 1)' /\ confirmed < w
      OBVIOUS
    <3>2. w \in 1..Len(chat) /\ chat[w] = "text" /\ NoText(w - 1) /\ confirmed < w
      BY <1>b, <1>c DEF Resumes
    <3>3. w - 1 \in Nat /\ w - 1 <= Len(chat)
      BY <1>b, <3>2
    <3> QED BY <1>b, <2>2, <2>3, <3>2, <3>3
  <2>7. bp \in {"poll", "take"} => NoText(offset - 1)'
    <3>1. PICK n \in Nat : n = offset - 1 /\ n = offset' - 1 /\ n <= Len(chat)
      BY <1>b, <2>1 DEF TypeOK, Placed
    <3> QED BY <2>3, <3>1 DEF Resumes
  <2>8. bp \in Handling => NoText(Current - 1)' /\ chat'[Current] = "text"
    <3>1. SUFFICES ASSUME bp \in Handling PROVE NoText(Current - 1)' /\ chat'[Current] = "text"
      OBVIOUS
    <3>2. Current \in 1..Len(chat)
      BY <1>b, <3>1, CurrentIsOne
    <3>3. PICK n \in Nat : n = Current - 1 /\ n = Current' - 1 /\ n <= Len(chat)
      BY <1>b, <2>4, <3>2
    <3> QED BY <2>2, <2>3, <3>1, <3>2, <3>3 DEF Resumes
  <2> QED BY <2>1, <2>4, <2>5, <2>6, <2>7, <2>8 DEF Resumes
<1>8. CASE Poll
  <2>1. UNCHANGED <<chat, events, state>> /\ bp = "poll" /\ confirmed' \in {confirmed, offset - 1}
    BY <1>8, <1>b DEF Poll, Greater
  <2>a. offset - 1 <= confirmed' /\ confirmed' \in Int /\ confirmed' + 1 \in Int
        /\ confirmed' < confirmed' + 1 /\ (confirmed' + 1) - 1 = confirmed' /\ offset <= confirmed' + 1
    BY <1>8, <1>b DEF Poll, Greater
  <2>2. \/ bp' = "poll" /\ offset' = offset
        \/ bp' = "take" /\ offset' = confirmed' + 1
    BY <1>8, <2>1 DEF Poll
  <2>3. Unsaved' = Unsaved /\ \A n : NoText(n)' <=> NoText(n)
    BY <2>1 DEF Unsaved, Written, NoText
  <2>4. state.last < offset /\ NoText(offset - 1) /\ NoText(confirmed)
        /\ \A w \in Unsaved : offset <= w /\ confirmed < w
    BY <2>1 DEF Resumes
  <2>5. NoText(confirmed') /\ \A w \in Unsaved : confirmed' < w
    BY <1>b, <1>c, <2>1, <2>4
  <2>6. state.last < offset' /\ NoText(offset' - 1) /\ \A w \in Unsaved : offset' <= w
    <3>1. CASE offset' = offset
      BY <2>4, <3>1
    <3>2. CASE offset' = confirmed' + 1
      <4>1. PICK c \in Int : c = confirmed'
        BY <2>a
      <4>2. offset <= c + 1 /\ NoText(c) /\ \A w \in Unsaved : c < w
        BY <2>a, <2>5, <4>1
      <4>3. state.last < c + 1 /\ (c + 1) - 1 = c /\ \A w \in Unsaved : c + 1 <= w
        BY <1>b, <1>c, <2>4, <4>2
      <4>4. NoText((c + 1) - 1)
        BY <4>2, <4>3, Zenon
      <4> QED BY <3>2, <4>1, <4>3, <4>4
    <3> QED BY <2>2, <3>1, <3>2
  <2>7. bp' = "take" => confirmed' < offset'
    BY <2>a, <2>2
  <2>8. bp' \notin Handling
    BY <2>2 DEF Handling
  <2>9. \A w \in Unsaved : w <= Len(chat) /\ chat[w] = "text" /\ NoText(w - 1)
    BY DEF Resumes
  <2> QED BY <2>1, <2>3, <2>5, <2>6, <2>7, <2>8, <2>9 DEF Resumes
<1>9. CASE BatchDone
  <2>1. UNCHANGED <<chat, confirmed, events, state, offset>> /\ bp = "take" /\ bp' = "poll"
    BY <1>9 DEF BatchDone, BotAt
  <2>2. Unsaved' = Unsaved /\ \A n : NoText(n)' <=> NoText(n)
    BY <2>1 DEF Unsaved, Written, NoText
  <2> QED BY <2>1, <2>2 DEF Resumes, Handling
<1>10. CASE Command
  <2>1. UNCHANGED <<chat, confirmed, events, state>> /\ bp = "take" /\ bp' = "take"
        /\ offset' = offset + 1 /\ chat[offset] = "command"
    BY <1>10 DEF Command, NextUpdate, BotAt
  <2>2. Unsaved' = Unsaved /\ \A n : NoText(n)' <=> NoText(n)
    BY <2>1 DEF Unsaved, Written, NoText
  <2>3. offset' - 1 = offset /\ NoText(offset)
    <3>1. \A m \in state.last + 1..offset : m \in state.last + 1..offset - 1 \/ m = offset
      BY <1>b
    <3> QED BY <1>b, <2>1, <3>1 DEF Resumes, NoText
  <2>4. \A w \in Unsaved : offset' <= w
    <3>1. \A w \in Unsaved : offset <= w /\ chat[w] = "text"
      BY <2>1 DEF Resumes
    <3> QED BY <1>b, <1>c, <2>1, <3>1
  <2>5. state.last < offset' /\ confirmed < offset'
    BY <1>b, <2>1 DEF Resumes
  <2> QED BY <2>1, <2>2, <2>3, <2>4, <2>5 DEF Resumes, Handling
<1>11. CASE Take
  <2>1. UNCHANGED <<chat, confirmed, events, state>> /\ bp = "take" /\ bp' \in Handling
        /\ offset' = offset + 1 /\ chat[offset] = "text"
    BY <1>11 DEF Take, NextUpdate, BotAt, Handling
  <2>2. Unsaved' = Unsaved /\ \A n : NoText(n)' <=> NoText(n)
    BY <2>1 DEF Unsaved, Written, NoText
  <2>3. Current' = offset
    BY <1>b, <2>1 DEF Current
  <2>4. \A w \in Unsaved : w = offset
    <3>1. SUFFICES ASSUME NEW w \in Unsaved, w # offset PROVE FALSE
      OBVIOUS
    <3>2. offset <= w /\ NoText(w - 1) /\ state.last < offset /\ w \in Nat
      BY <1>c, <2>1, <3>1 DEF Resumes
    <3>3. offset \in state.last + 1..w - 1
      BY <1>b, <3>1, <3>2
    <3> QED BY <2>1, <3>2, <3>3 DEF NoText
  <2>5. state.last < offset /\ NoText(offset - 1) /\ confirmed < offset
    BY <2>1 DEF Resumes
  <2>6. NoText(confirmed) /\ \A w \in Unsaved : w <= Len(chat) /\ chat[w] = "text" /\ NoText(w - 1) /\ confirmed < w
    BY DEF Resumes
  <2>7. bp' \notin {"poll", "take"}
    BY <2>1 DEF Handling
  <2> QED BY <2>1, <2>2, <2>3, <2>4, <2>5, <2>6, <2>7 DEF Resumes
<1>12. CASE Reply \/ Guidance
  <2>1. UNCHANGED <<chat, confirmed, state, offset>> /\ bp = "handle" /\ bp' \in Handling
        /\ events' = Append(events, Line(Current))
    BY <1>12 DEF Reply, Guidance, BotAt, Handling
  <2>2. Line(Current) \in Lines /\ Line(Current).msg = Current
    BY <2>1, CurrentIsOne DEF Handling, Line, Lines, TypeOK, States, Contents, Threads
  <2>3. Written' = Written \cup {Current}
    BY <2>1, <2>2, WrittenGrows
  <2>4. /\ state.last < Current /\ NoText(Current - 1) /\ chat[Current] = "text"
        /\ confirmed < Current /\ \A w \in Unsaved : w = Current
    BY <2>1 DEF Resumes, Handling
  <2>5. Current' = Current /\ \A n : NoText(n)' <=> NoText(n)
    BY <2>1 DEF NoText, Current
  <2>6. \A w \in Unsaved' : w = Current
    BY <2>1, <2>3, <2>4 DEF Unsaved
  <2>7. Current <= Len(chat)
    BY <2>1, CurrentIsOne DEF Handling
  <2>8. bp' \notin {"poll", "take"} /\ NoText(confirmed)
    BY <2>1 DEF Handling, Resumes
  <2> QED BY <2>1, <2>4, <2>5, <2>6, <2>7, <2>8 DEF Resumes
<1>13. CASE MarkSaved
  <2>1. Rename("bot") /\ UNCHANGED <<chat, confirmed, events, offset>> /\ bp = "mark" /\ bp' = "take"
    BY <1>13 DEF MarkSaved, BotAt, Rename
  <2>2. state'.last = Current
    BY <2>1, SavedLast DEF Kept, Threads, Copies
  <2>3. confirmed < Current /\ \A w \in Unsaved : w = Current
    BY <2>1 DEF Resumes, Handling
  <2>4. Unsaved' = {}
    <3>1. \A w \in Written : w > Current => w > state.last
      <4>1. state.last < Current /\ Current \in Int
        BY <1>b, <2>1 DEF Resumes, Handling, Current
      <4>2. Written \subseteq Nat
        BY WrittenNumbers
      <4> QED BY <1>b, <4>1, <4>2
    <3>2. Written' = Written
      BY <2>1 DEF Written
    <3>3. ~(Current > Current)
      BY <1>b, <2>1 DEF Current
    <3> QED BY <2>2, <2>3, <3>1, <3>2, <3>3 DEF Unsaved
  <2>5. state'.last < offset /\ NoText(offset - 1)' /\ NoText(confirmed)'
    <3>1. \A n \in {offset - 1, confirmed} : \A m \in Current + 1..n : FALSE
      BY <1>b, <2>3 DEF Current
    <3> QED BY <1>b, <2>1, <2>2, <3>1 DEF NoText, Current
  <2>6. confirmed < offset
    BY <1>b, <2>3
  <2> QED BY <2>1, <2>4, <2>5, <2>6 DEF Resumes, Handling
<1>14. CASE Exit
  <2>1. UNCHANGED <<chat, confirmed, events, state>> /\ bp' = "down"
    BY <1>14 DEF Exit
  <2>2. Unsaved' = Unsaved /\ \A n : NoText(n)' <=> NoText(n)
    BY <2>1 DEF Unsaved, Written, NoText
  <2> QED BY <2>1, <2>2 DEF Resumes, Handling
<1>15. CASE Start
  <2>1. UNCHANGED <<chat, confirmed, events, state>> /\ bp' = "poll" /\ offset' = state.last + 1
    BY <1>15, <1>a DEF Start, Readable
  <2>2. Unsaved' = Unsaved /\ \A n : NoText(n)' <=> NoText(n)
    BY <2>1 DEF Unsaved, Written, NoText
  <2>3. state.last < offset' /\ NoText(offset' - 1) /\ \A w \in Unsaved : offset' <= w
    <3>1. offset' - 1 = state.last /\ \A m \in state.last + 1..state.last : FALSE
      BY <1>b, <2>1
    <3>2. \A w \in Unsaved : state.last < w
      BY <1>b, <1>c DEF Unsaved
    <3> QED BY <1>b, <1>c, <2>1, <3>1, <3>2 DEF NoText
  <2> QED BY <2>1, <2>2, <2>3 DEF Resumes, Handling
<1> QED BY <1>1, <1>2, <1>3, <1>4, <1>5, <1>6, <1>7, <1>8, <1>9, <1>10, <1>11, <1>12, <1>13, <1>14, <1>15
        DEF Next, LoopStep, BotStep, Threads

LEMMA StepCounts ==
  ASSUME TypeOK, Placed, Living, OneSaves, Recorded, Copies, Resumes, Counts, Kept', [Next]_vars, ~clashed
  PROVE  Counts'
<1> USE DEF disk, loop, bot, saving, history, LoopOnly, LoopSaving, BotOnly, BotSaving
<1> DEFINE Before == {"poll", "take", "greet", "handle"}
<1>a. state.is \in {"missing", "state"}
  BY DEF OneSaves
<1>b. Cardinality(Repeated) \in Nat /\ runs \in Nat
  BY RepeatedFinite DEF TypeOK
<1>1. CASE LoopStep
  <2>1. UNCHANGED <<events, runs, bp>> /\ lp # "down"
    BY <1>1 DEF LoopStep, AskUnreadable, BeginWait, Answered, ReadOn, GiveUp, RemoveUnreadable, Ask, Send,
                SendFails, Remove, WaitFails, Registered, Removed, Open, Fill, Rename, LoopAt, Saves
  <2>2. state'.last = state.last
    <3>1. CASE Registered \/ Removed
      BY <3>1, SavedLast DEF Registered, Removed, Kept, Threads
    <3>2. CASE Open("loop") \/ Fill("loop")
      BY <3>2 DEF Open, Fill, OneSaves, Threads
    <3>3. CASE ~Registered /\ ~Removed /\ ~Open("loop") /\ ~Fill("loop")
      <4>1. state' = state
        BY <1>1, <3>3 DEF LoopStep, AskUnreadable, BeginWait, Answered, ReadOn, GiveUp, RemoveUnreadable, Ask,
                  Send, SendFails, Remove, WaitFails
      <4> QED BY <4>1
    <3> QED BY <3>1, <3>2, <3>3
  <2> QED BY <2>1, <2>2, CountsKept
<1>2. CASE Poll \/ BatchDone \/ Command \/ Take \/ Mark \/ Write \/ Expire \/ UNCHANGED vars
  <2>1. UNCHANGED <<events, runs, state, lp>> /\ (bp' \in Before => bp \in Before)
    BY <1>2 DEF Poll, BatchDone, Command, Take, Mark, Write, Expire, vars, BotAt
  <2> QED BY <2>1, CountsKept
<1>3. CASE Drop
  BY <1>3, <1>a DEF Drop, Readable
<1>4. CASE Open("bot") \/ Fill("bot")
  <2>1. UNCHANGED <<events, runs, lp, bp>>
    BY <1>4 DEF Open, Fill
  <2>2. state' = state
    BY <1>4 DEF Open, Fill, OneSaves, Threads
  <2> QED BY <2>1, <2>2, CountsKept
<1>5. CASE Greeted \/ ReplyRecorded
  <2>1. Rename("bot") /\ UNCHANGED <<events, runs, lp>> /\ bp \in {"greet", "answered"}
        /\ (bp = "answered" => bp' \in {"failed", "react"})
    BY <1>5 DEF Greeted, ReplyRecorded, BotAt, Rename
  <2>2. state'.last = state.last
    BY <2>1, SavedLast DEF Kept, Threads, Copies
  <2> QED BY <2>1, <2>2, CountsKept
<1>6. CASE Reply \/ Guidance
  <2>1. UNCHANGED <<runs, lp, bot>> \/ UNCHANGED <<runs, lp>>
    BY <1>6 DEF Reply, Guidance
  <2>2. UNCHANGED runs /\ bp = "handle" /\ bp' \in {"answered", "react"}
        /\ events' = Append(events, Line(Current))
    BY <1>6 DEF Reply, Guidance, BotAt
  <2>3. Line(Current) \in Lines /\ Line(Current).msg = Current
    BY <2>2, CurrentIsOne DEF Handling, Line, Lines, TypeOK, States, Contents, Threads
  <2>4. runs # 0
    BY <2>2 DEF Counts, Living
  <2>5. Cardinality(Repeated') < runs
    <3>1. CASE Current \in Written
      <4>1. Current \in Unsaved
        BY <2>2, <3>1 DEF Resumes, Handling, Unsaved, TypeOK, Contents, Current
      <4>2. Cardinality(Repeated) + 1 < runs
        BY <2>2, <4>1 DEF Counts
      <4>3. Cardinality(Repeated') <= Cardinality(Repeated) + 1
        BY <2>2, <2>3, RepeatedGrows
      <4>4. Cardinality(Repeated') \in Nat
        BY <2>2, <2>3, RepeatedGrows
      <4> QED BY <1>b, <4>2, <4>3, <4>4
    <3>2. CASE Current \notin Written
      <4>1. Repeated' = Repeated
        BY <2>2, <2>3, <3>2, RepeatedGrows
      <4> QED BY <1>b, <2>4, <4>1 DEF Counts, Greater
    <3> QED BY <3>1, <3>2
  <2> QED BY <1>b, <2>2, <2>4, <2>5 DEF Counts, Greater
<1>7. CASE MarkSaved
  <2>1. Rename("bot") /\ UNCHANGED <<events, runs, lp, offset>> /\ bp = "mark"
    BY <1>7 DEF MarkSaved, BotAt, Rename
  <2>2. state'.last = Current
    BY <2>1, SavedLast DEF Kept, Threads, Copies
  <2>3. Unsaved' = {}
    <3>1. \A w \in Unsaved : w = Current
      BY <2>1 DEF Resumes, Handling
    <3>2. \A w \in Written : w > Current => w > state.last
      <4>1. state.last < Current /\ Current \in Int /\ state.last \in Nat
        BY <2>1 DEF Resumes, Handling, Current, TypeOK, Contents
      <4>2. Written \subseteq Nat
        BY WrittenNumbers
      <4> QED BY <4>1, <4>2
    <3>3. ~(Current > Current) /\ Written' = Written
      BY <2>1 DEF Current, Written, TypeOK
    <3> QED BY <2>2, <3>1, <3>2, <3>3 DEF Unsaved
  <2>4. Repeated' = Repeated
    BY <2>1 DEF Repeated
  <2> QED BY <2>1, <2>3, <2>4 DEF Counts
<1>8. CASE Exit
  <2>1. UNCHANGED <<events, runs>> /\ bp' = "down" /\ lp' = "down"
    BY <1>8 DEF Exit
  <2>2. Repeated' = Repeated
    BY <2>1 DEF Repeated
  <2> QED BY <2>1, <2>2 DEF Counts
<1>9. CASE Start
  <2>1. UNCHANGED <<events, state>> /\ runs' = runs + 1
    BY <1>9 DEF Start
  <2>2. Unsaved' = Unsaved /\ Repeated' = Repeated /\ Written' = Written
    BY <2>1 DEF Unsaved, Written, Repeated
  <2>3. Unsaved # {} => runs # 0
    BY DEF Unsaved, Written, Counts
  <2>4. Cardinality(Repeated) < runs + 1 /\ (runs # 0 => Cardinality(Repeated) + 1 < runs + 1)
    BY <1>b DEF Counts, Greater
  <2> QED BY <1>b, <2>1, <2>2, <2>3, <2>4 DEF Counts, Greater
<1> QED BY <1>1, <1>2, <1>3, <1>4, <1>5, <1>6, <1>7, <1>8, <1>9 DEF Next, BotStep

LEMMA InitQuiet == Init => TypeOK /\ Placed /\ Living /\ OneSaves /\ Recorded /\ Tells
<1> SUFFICES ASSUME Init PROVE Living /\ OneSaves /\ Recorded /\ Tells
  BY InitTyped
<1>1. state.is \in {"missing", "state"} /\ state.last = 0 /\ state.pending = 0
  BY DEF Init, Content, Known
<1>2. confirmed = 0 /\ lp = "down" /\ bp = "down" /\ Current = 0 /\ \A p \in Threads : at[p] = "idle"
  BY DEF Init, Current
<1>3. \A p \in Threads : copy[p].last = 0
  BY ContentTyped DEF Init
<1>4. 0 \in Settled
  BY DEF Init, Settled
<1>5. Living /\ OneSaves /\ Recorded
  BY <1>1, <1>2, <1>3, <1>4 DEF Living, OneSaves, Recorded
<1>6. Tells
  BY <1>1, <1>2 DEF Tells, LoopCopy, BotCopy, Waiting
<1> QED BY <1>5, <1>6

LEMMA StepQuiet ==
  TypeOK /\ Placed /\ Living /\ OneSaves /\ Recorded /\ Tells /\ [Next]_vars
    => TypeOK' /\ Placed' /\ Living' /\ OneSaves' /\ Recorded' /\ Tells'
BY LoopTyped, BotTyped, RestTyped, StepLiving, StepOneSaves, StepRecorded, StepTells DEF Next

\* Unless two saves have overlapped, the state can be read, and every text the
\* task has passed is in the events file, or is the one at hand: none is lost by
\* the end of a process, wherever it comes.
THEOREM NoMessageLost == Spec => []NothingLost
<1>1. TypeOK /\ Placed /\ OneSaves /\ Recorded => NothingLost
  <2> SUFFICES ASSUME TypeOK, OneSaves, Recorded, ~clashed PROVE NothingLost
    BY DEF NothingLost
  <2>1. Readable(state)
    BY DEF OneSaves, Readable
  <2>2. ASSUME NEW n \in Handled, ~(n = Current /\ bp \in {"greet", "handle"}) PROVE n \in Written
    <3>1. n \in 1..Current /\ chat[n] = "text"
      BY DEF Handled, Current
    <3>2. n \in 1..(IF bp \in {"greet", "handle"} THEN Current - 1 ELSE Current)
      BY <2>2, <3>1 DEF Current, TypeOK
    <3> QED BY <3>1, <3>2 DEF Recorded, Settled
  <2> QED BY <2>1, <2>2 DEF NothingLost
<1> QED BY <1>1, InitQuiet, StepQuiet, PTL DEF Spec

\* Unless two saves have overlapped, no message is lost, and each process that
\* ends has at most one message repeated by those after it, unless a save of an
\* old copy has put back which messages are recorded.
THEOREM MessagesAreHandled == Spec => []MessagesHandled
<1>1. Init => Resuming
  <2> SUFFICES ASSUME Init PROVE Copies /\ Resumes /\ Counts
    BY DEF Resuming
  <2>1. chat = <<>> /\ confirmed = 0 /\ events = <<>> /\ state.last = 0 /\ lp = "down" /\ bp = "down" /\ runs = 0
    BY DEF Init, Content, Known
  <2>2. Unsaved = {} /\ Repeated = {}
    BY <2>1 DEF Unsaved, Written, Repeated
  <2>3. Cardinality(Repeated) = 0
    BY <2>2, FS_EmptySet
  <2>4. Counts
    BY <2>1, <2>2, <2>3 DEF Counts, Greater
  <2> QED BY <2>1, <2>2, <2>4 DEF Copies, Resumes, NoText, Handling
<1>2. TypeOK /\ Placed /\ Living /\ OneSaves /\ Recorded /\ Resuming /\ [Next]_vars => Resuming'
  <2> SUFFICES ASSUME TypeOK, Placed, Living, OneSaves, Recorded, Resuming, [Next]_vars, Kept'
               PROVE  Copies' /\ Resumes' /\ Counts'
    BY DEF Resuming
  <2>1. Kept
    BY QuietBefore DEF Kept
  <2> QED BY <2>1, StepCopies, StepResumes, StepCounts DEF Resuming, Kept
<1>3. NothingLost /\ Resuming => MessagesHandled
  BY DEF MessagesHandled, Resuming, Kept, Counts
<1> QED BY <1>1, <1>2, <1>3, InitQuiet, StepQuiet, NoMessageLost, PTL DEF Spec

\* While the loop waits its question is pending or has been answered, and a
\* question that is pending is the one asked, or was left by a wait that ended
\* abruptly: for as long as no two saves overlap and none puts a question back.
THEOREM PendingIsTheWaits == Spec => []PendingTellsTheWait
<1>1. TypeOK /\ Tells => PendingTellsTheWait
  BY DEF Tells, Quiet, Waiting, PendingTellsTheWait, Replied
<1> QED BY <1>1, InitQuiet, StepQuiet, PTL DEF Spec

\* A wait ends with a line that was taken for the reply to its question, or by
\* a copy that was no longer the state.
THEOREM AnswersAreForTheirQuestions == Spec => AnswersFit
<1>1. ASSUME TypeOK, Tells, [Next]_vars, lp = "wait", pos' > pos, lp' = "remove"
      PROVE  events[pos'].to = asked \/ events[pos'].old \/ clashed \/ "pending" \in undone
  <2> USE DEF bot, loop, vars, LoopAt, LoopOnly, LoopSaving, BotOnly, BotSaving
  <2>1. Answered \/ GiveUp
    <3>1. CASE LoopStep
      BY <1>1, <3>1 DEF LoopStep, AskUnreadable, BeginWait, ReadOn, RemoveUnreadable, Ask, Send,
                  SendFails, Remove, WaitFails, Registered, Removed, Open, Fill
    <3>2. CASE BotStep
      BY <1>1, <3>2 DEF BotStep, Poll, BatchDone, Command, Drop, Take, Mark, Greeted, Reply, Guidance,
                  ReplyRecorded, MarkSaved, Open, Fill
    <3>3. CASE Write \/ Expire \/ Exit \/ Start \/ UNCHANGED vars
      BY <1>1, <3>3 DEF Write, Expire, Exit, Start
    <3> QED BY <1>1, <3>1, <3>2, <3>3 DEF Next
  <2>2. ~GiveUp
    <3>1. ~(pos > pos)
      BY <1>1 DEF TypeOK
    <3> QED BY <1>1, <3>1 DEF GiveUp
  <2>3. PICK i \in Replies : pos' = i
    BY <2>1, <2>2 DEF Answered
  <2>4. i \in pos + 1..Len(events) /\ events[i].to # 0
    BY <2>3 DEF Replies
  <2> QED BY <1>1, <2>3, <2>4 DEF Tells, Quiet, Waiting
<1>2. TypeOK /\ Tells /\ [Next]_vars
        => [lp = "wait" /\ pos' > pos /\ lp' = "remove"
              => \/ events[pos'].to = asked \/ events[pos'].old
                 \/ clashed \/ "pending" \in undone]_vars
  BY <1>1
<1> QED BY <1>2, InitQuiet, StepQuiet, PTL DEF Spec, AnswersFit
=============================================================================

------------------------------ MODULE EventsFile ------------------------------
(***************************************************************************)
(* The events file of a run, .ralph/events-<run>.jsonl: the channel from   *)
(* the agents to the loop.  Agents and their children append to it with    *)
(* `ralph emit' (ralph-cli/src/main.rs), the robot service appends what    *)
(* people say (ralph-telegram/src/handler.rs), the loop and the merges     *)
(* append their history (event_logger.rs); one EventReader reads it        *)
(* (event_reader.rs), and remembers how far it got as a byte offset.       *)
(*                                                                         *)
(* No lock is taken.  A line is written in one call, or, by a writeln! on  *)
(* an unbuffered file, as two: the JSON text, then the newline.  Another   *)
(* append may fall between them, and so may any step of a read: a read     *)
(* takes line after line until it meets the end of the file, and a line    *)
(* ends where the file does, at that moment, if it has no newline yet.     *)
(*                                                                         *)
(* The file is its bytes, as far as they matter: a text is TextLen of      *)
(* them, which parse only together and alone.                              *)
(***************************************************************************)
EXTENDS Naturals, Sequences

CONSTANTS
  Writers,    \* processes that append
  TextLen,    \* the bytes of a JSON text
  MaxEvents,  \* bound on the events written
  MaxKills    \* bound on the writers killed

ASSUME BoundsAssumption ==
  MaxEvents \in Nat /\ MaxKills \in Nat /\ TextLen \in Nat /\ TextLen > 1

VARIABLES
  file,       \* the bytes in the file
  written,    \* the number of events written; the n-th is event n
  between,    \* writers between the two writes of a line
  kills,      \* writers killed so far
  synced,     \* whether the loop has skipped what the file held at its start
  cursor,     \* the bytes before the next line to read
  position,   \* EventReader.position, and current_pos during a read
  skipped,    \* history: events skipped at the start
  delivered,  \* history: events read
  reported,   \* history: events with their text in a line reported as malformed
  raced,      \* history: whether a read went on after a line without newline
  disturbed   \* history: whether anything happened between two writes of a line

writers == <<file, written, between, kills>>
results == <<skipped, delivered, reported>>
reader == <<synced, cursor, position, results, raced>>
vars == <<writers, reader, disturbed>>

Byte(e, k) == [event |-> e, part |-> k]
Newline == Byte(0, 0)
Bytes == [event : 0..MaxEvents, part : 0..TextLen]

Text(e) == [k \in 1..TextLen |-> Byte(e, k)]
IsNewline(i) == file[i].part = 0

\* The events whose text ends at one of the bytes I.
EndingIn(I) == {file[i].event : i \in {j \in I : file[j].part = TextLen}}

Init ==
  /\ file = <<>> /\ written = 0 /\ between = {} /\ kills = 0
  /\ synced = FALSE /\ cursor = 0 /\ position = 0
  /\ skipped = {} /\ delivered = {} /\ reported = {}
  /\ raced = FALSE /\ disturbed = FALSE

-----------------------------------------------------------------------------
(* Writing *)

\* EventLogger::log, write_wave_events and the loop's own guidance: the line
\* and its newline in one write_all.
AppendLine(w) ==
  /\ w \notin between
  /\ written < MaxEvents
  /\ written' = written + 1
  /\ file' = Append(file \o Text(written'), Newline)
  /\ UNCHANGED <<between, kills>>

\* `ralph emit' and the robot's append_event: writeln! writes the text ...
AppendText(w) ==
  /\ w \notin between
  /\ written < MaxEvents
  /\ written' = written + 1
  /\ file' = file \o Text(written')
  /\ between' = between \cup {w}
  /\ UNCHANGED kills

\* ... and then the newline ...
AppendNewline(w) ==
  /\ w \in between
  /\ file' = Append(file, Newline)
  /\ between' = between \ {w}
  /\ UNCHANGED <<written, kills>>

\* ... unless the process is killed.
Kill(w) ==
  /\ w \in between
  /\ kills < MaxKills
  /\ kills' = kills + 1
  /\ between' = between \ {w}
  /\ UNCHANGED <<file, written>>

-----------------------------------------------------------------------------
(* Reading *)

\* sync_event_reader_to_file_end, once, before the first iteration: the loop
\* has logged its start event, which is on the bus already, and a resumed run
\* goes on with the file of the one before.
Sync ==
  /\ ~synced
  /\ synced' = TRUE
  /\ cursor' = Len(file) /\ position' = Len(file)
  /\ skipped' = EndingIn(1..Len(file))
  /\ UNCHANGED <<delivered, reported, raced>>

\* The line at the cursor has its last byte at end: a newline follows, or
\* nothing yet.
IsLine(end) ==
  /\ end \in cursor..Len(file)
  /\ \A i \in cursor + 1..end : ~IsNewline(i)
  /\ end < Len(file) => IsNewline(end + 1)

InLine(end) == cursor + 1..end

\* serde_json accepts a line that is one whole event.
Parses(end, e) ==
  /\ end = cursor + TextLen
  /\ \A k \in 1..TextLen : file[cursor + k] = Byte(e, k)

\* Mutant: a line that does not begin with an object is taken for a blank one.
MalformedObjectsOnly(end) ==
  /\ InLine(end) # {}
  /\ file[cursor + 1].part = 1
  /\ \A e \in 1..written : ~Parses(end, e)

\* Any other line that is not blank.
Malformed(end) ==
  /\ InLine(end) # {}
  /\ \A e \in 1..written : ~Parses(end, e)

\* Mutant: the newline is not counted.
LineBytesBare(end) == end - cursor

\* Mutant: an unfinished line is left for the next read, after its event has
\* been taken.
LineBytesWaits(end) == IF end < Len(file) THEN end - cursor + 1 ELSE 0

\* Mutant: a line ends with two bytes.
LineBytesCrLf(end) == end - cursor + 2

\* By how much read_new_events moves its offset for a line: it counts a newline
\* whether or not there is one.
LineBytes(end) == end - cursor + 1

\* The body of the loop over lines().  (The bound on the unfinished lines that
\* one read meets: fewer than a text has bytes.)
ReadLine ==
  /\ synced
  /\ cursor < Len(file)
  /\ \E end \in cursor..Len(file) :
       /\ IsLine(end)
       /\ end = Len(file) => position + 1 < cursor + TextLen
       /\ cursor' = IF end < Len(file) THEN end + 1 ELSE end
       /\ position' = position + LineBytes(end)
       /\ delivered' = delivered \cup {e \in 1..written : Parses(end, e)}
       /\ reported' = reported \cup (IF Malformed(end) THEN EndingIn(InLine(end)) ELSE {})
  /\ raced' = (raced \/ position # cursor)
  /\ UNCHANGED <<synced, skipped>>

\* lines() ends where the file does, and the next read seeks to the offset.
EndRead ==
  /\ synced
  /\ cursor >= Len(file)
  /\ cursor' = position
  /\ UNCHANGED <<synced, position, results, raced>>

\* An event is written, or its text is.
Write(w) == AppendLine(w) \/ AppendText(w)

Next ==
  \/ \E w \in Writers : AppendNewline(w) /\ UNCHANGED <<reader, disturbed>>
  \/ EndRead /\ UNCHANGED <<writers, disturbed>>
  \/ /\ \/ (\E w \in Writers : Write(w) \/ Kill(w)) /\ UNCHANGED reader
        \/ (Sync \/ ReadLine) /\ UNCHANGED writers
     /\ disturbed' = (disturbed \/ between # {})

Spec == Init /\ [][Next]_vars

-----------------------------------------------------------------------------
(* Properties *)

\* The offset is less than a text ahead of what was read, so that of a text yet
\* to be written the end at least will be read.
TypeOK ==
  /\ file \in Seq(Bytes)
  /\ written \in 0..MaxEvents
  /\ between \subseteq Writers
  /\ kills \in 0..MaxKills
  /\ synced \in BOOLEAN /\ raced \in BOOLEAN /\ disturbed \in BOOLEAN
  /\ cursor \in 0..Len(file) + TextLen - 1
  /\ position \in cursor..cursor + TextLen - 1
  /\ skipped \subseteq 1..written
  /\ delivered \subseteq 1..written /\ reported \subseteq 1..written

\* Whatever is in the file, the next line gives only an event that comes after
\* all those read before: none is read twice, none out of order, although the
\* offset may be past the end of the file, or inside the next text.
ReadsGoForward ==
  \A end \in cursor..Len(file), e \in 1..written :
    synced /\ IsLine(end) /\ Parses(end, e) => \A d \in delivered \cup skipped : d < e

\* An event whose line is its own, from its first byte to its newline, is not
\* lost, whatever happened to the lines around it, unless a read met an
\* unfinished line and then found that the file had grown.
Whole(i) ==
  /\ file[i].part = 1
  /\ i = 1 \/ IsNewline(i - 1)
  /\ i + TextLen <= Len(file) => IsNewline(i + TextLen)

IntactIsDelivered ==
  ~raced => \A i \in 1..Len(file) :
    Whole(i) /\ i + TextLen <= cursor + 1 => file[i].event \in delivered \cup skipped

\* An event the reader has passed was read, or its text ended in a line that the
\* loop was told of (event.malformed): no event disappears unnoticed.
LossIsReported ==
  \A i \in 1..Len(file) :
    file[i].part = TextLen /\ i <= cursor
      => file[i].event \in delivered \cup skipped \cup reported

\* As long as nothing happens between the two writes of a line, the file is the
\* channel: every step puts an event or hands over the next one.
Channel == INSTANCE EventChannel WITH
  sent <- written, taken <- delivered \cup skipped

ChannelUntilDisturbed ==
  [][~disturbed' => [Channel!Next]_<<written, delivered \cup skipped>>]_vars
=============================================================================

--------------------------- MODULE EventsFileProofs ---------------------------
(***************************************************************************)
(* Theorems about EventsFile, for any number of writers, events and kills  *)
(* and any length of a text.                                               *)
(*                                                                         *)
(* Everything rests on where a byte can stand in the file (Shape) and on   *)
(* where the reader can be (Place).  Before any read has raced with a      *)
(* writer the reader stands between lines, at the end of an unfinished     *)
(* text, or one byte past it (Near), and as long as nothing has disturbed  *)
(* a line it stands between the events it has read and the next (Even).    *)
(***************************************************************************)
EXTENDS EventsFile, TLAPS

\* A byte that is no newline belongs to a text that is in the file from its
\* first to its last byte, and the texts are in order.
Shape ==
  /\ \A i \in 1..Len(file) : file[i].part # 0 =>
       /\ file[i].event \in 1..written
       /\ i >= file[i].part /\ i - file[i].part + TextLen <= Len(file)
       /\ \A k \in 1..TextLen : file[i - file[i].part + k] = Byte(file[i].event, k)
  /\ \A i, j \in 1..Len(file) :
       i < j /\ file[i].part = TextLen /\ file[j].part = TextLen
         => file[i].event < file[j].event

\* What was read ends before the cursor; the offset is ahead of the cursor only
\* in the middle of a read.
Place ==
  /\ ~synced => cursor = 0 /\ position = 0 /\ delivered = {} /\ skipped = {} /\ ~raced
  /\ position # cursor => cursor <= Len(file)
  /\ \A d \in delivered \cup skipped :
       \E i \in 1..Len(file) : i <= cursor /\ file[i] = Byte(d, TextLen)

\* Where the reader can be when no read has raced with a writer.
Near ==
  ~raced =>
    /\ position # cursor =>
         position = cursor + 1 /\ cursor > 0 /\ file[cursor].part = TextLen
    /\ cursor > Len(file) =>
         cursor = Len(file) + 1 /\ Len(file) > 0 /\ file[Len(file)].part = TextLen
    /\ cursor \in 1..Len(file) =>
         \/ file[cursor].part \in {0, TextLen}
         \/ /\ file[cursor].part = 1
            /\ cursor > 1 /\ file[cursor - 1].part = TextLen

-----------------------------------------------------------------------------
(* The writers *)

\* What the steps of the writers have in common: the file grows at its end by
\* whole texts and newlines.
Grows ==
  /\ file' \in Seq(Bytes)
  /\ Len(file') >= Len(file)
  /\ \A i \in 1..Len(file) : file'[i] = file[i]
  /\ Len(file') > Len(file) => file'[Len(file) + 1].part \in {0, 1}
  /\ \A i \in 1..Len(file') : i > Len(file) /\ file'[i].part = TextLen => i >= Len(file) + TextLen
  /\ written' \in written..MaxEvents
  /\ between' \subseteq Writers
  /\ kills' \in 0..MaxKills

LEMMA Parts ==
  ASSUME NEW e, NEW k
  PROVE  Byte(e, k).part = k /\ Byte(e, k).event = e
  BY DEF Byte

LEMMA ByteType ==
  ASSUME NEW e \in 0..MaxEvents, NEW k \in 0..TextLen
  PROVE  Byte(e, k) \in Bytes
  BY DEF Byte, Bytes

LEMMA NewlineType == Newline \in Bytes /\ Newline.part = 0
  BY BoundsAssumption DEF Byte, Bytes, Newline

LEMMA TextType ==
  ASSUME NEW e \in 1..MaxEvents
  PROVE  /\ Text(e) \in Seq(Bytes) /\ Len(Text(e)) = TextLen
         /\ \A k \in 1..TextLen : Text(e)[k] = Byte(e, k)
<1>1. \A k \in 1..TextLen : Byte(e, k) \in Bytes
  BY BoundsAssumption, ByteType
<1>2. Text(e) \in [1..TextLen -> Bytes]
  BY <1>1 DEF Text
<1>3. Text(e) \in Seq(Bytes)
  BY <1>2, BoundsAssumption
<1>4. Len(Text(e)) = TextLen
  BY <1>2, BoundsAssumption
<1> QED BY <1>3, <1>4 DEF Text

LEMMA ByteAt ==
  ASSUME TypeOK, NEW i \in 1..Len(file)
  PROVE  /\ file[i].part \in 0..TextLen /\ file[i].event \in 0..MaxEvents
         /\ file[i] = Byte(file[i].event, file[i].part)
<1>1. file[i] \in Bytes
  BY DEF TypeOK
<1> QED BY <1>1 DEF Bytes, Byte

\* A line or a text is appended: what is where, afterwards.
LEMMA TextAppended ==
  ASSUME TypeOK, NEW w \in Writers, Write(w)
  PROVE  /\ Grows /\ written' = written + 1
         /\ Len(file') \in {Len(file) + TextLen, Len(file) + TextLen + 1}
         /\ \A k \in 1..TextLen : file'[Len(file) + k] = Byte(written', k)
         /\ Len(file') = Len(file) + TextLen + 1 => file'[Len(file) + TextLen + 1] = Newline
<1> DEFINE n == Len(file)  t == Text(written')
<1>1. written' \in 1..MaxEvents /\ written' = written + 1 /\ written' \in written..MaxEvents
  BY BoundsAssumption DEF TypeOK, Write, AppendLine, AppendText
<1>2. /\ t \in Seq(Bytes) /\ Len(t) = TextLen
      /\ \A k \in 1..TextLen : t[k] = Byte(written', k)
  BY <1>1, TextType
<1>3. n \in Nat /\ file \in Seq(Bytes) /\ TextLen \in Nat /\ TextLen > 1
  BY BoundsAssumption DEF TypeOK
<1>4. kills' \in 0..MaxKills
  BY DEF TypeOK, Write, AppendLine, AppendText
<1>5. between' \subseteq Writers
  <2>1. between' = between \/ between' = between \cup {w}
    BY DEF Write, AppendLine, AppendText
  <2> QED BY <2>1 DEF TypeOK
<1>6. file' = Append(file \o t, Newline) \/ file' = file \o t
  BY DEF Write, AppendLine, AppendText
<1> HIDE DEF t
<1>7. /\ file' \in Seq(Bytes)
      /\ Len(file') \in {n + TextLen, n + TextLen + 1}
      /\ \A i \in 1..n : file'[i] = file[i]
      /\ \A k \in 1..TextLen : file'[n + k] = t[k]
      /\ Len(file') = n + TextLen + 1 => file'[n + TextLen + 1] = Newline
  <2>1. /\ file \o t \in Seq(Bytes) /\ Len(file \o t) = n + TextLen
        /\ \A i \in 1..n : (file \o t)[i] = file[i]
        /\ \A k \in 1..TextLen : (file \o t)[n + k] = t[k]
    BY <1>2, <1>3
  <2>2. CASE file' = file \o t
    BY <2>1, <2>2, <1>3
  <2>3. CASE file' = Append(file \o t, Newline)
    <3> DEFINE u == file \o t
    <3>1. u \in Seq(Bytes) /\ Len(u) = n + TextLen /\ Newline \in Bytes
      BY <2>1, NewlineType
    <3> HIDE DEF u
    <3>2. /\ Append(u, Newline) \in Seq(Bytes)
          /\ Len(Append(u, Newline)) = n + TextLen + 1
          /\ \A i \in 1..n + TextLen : Append(u, Newline)[i] = u[i]
          /\ Append(u, Newline)[n + TextLen + 1] = Newline
      BY <3>1, <1>3
    <3>3. file' = Append(u, Newline)
      BY <2>3 DEF u
    <3>4. \A i \in 1..n : i \in 1..n + TextLen
      BY <1>3
    <3>5. \A k \in 1..TextLen : n + k \in 1..n + TextLen
      BY <1>3
    <3>6. \A i \in 1..n : u[i] = file[i]
      BY <2>1 DEF u
    <3>7. \A k \in 1..TextLen : u[n + k] = t[k]
      BY <2>1 DEF u
    <3> QED BY <3>2, <3>3, <3>4, <3>5, <3>6, <3>7
  <2> QED BY <1>6, <2>2, <2>3
<1>8. \A k \in 1..TextLen : file'[n + k] = Byte(written', k) /\ file'[n + k].part = k
  <2>1. \A k \in 1..TextLen : file'[n + k] = Byte(written', k)
    BY <1>2, <1>7
  <2> SUFFICES ASSUME NEW k \in 1..TextLen PROVE file'[n + k].part = k
    BY <2>1
  <2>2. file'[n + k] = Byte(written', k)
    BY <2>1
  <2> QED BY <2>2 DEF Byte
<1>9. file'[n + 1].part = 1
  BY <1>3, <1>8
<1>10. \A i \in 1..Len(file') : i > n /\ file'[i].part = TextLen => i >= n + TextLen
  <2> SUFFICES ASSUME NEW i \in 1..Len(file'), i > n, file'[i].part = TextLen, i < n + TextLen
               PROVE  FALSE
    BY <1>3
  <2>1. i - n \in 1..TextLen /\ n + (i - n) = i
    BY <1>3
  <2>2. file'[i].part = i - n
    BY <2>1, <1>8
  <2> QED BY <2>2, <1>3
<1>11. Len(file') >= n
  BY <1>3, <1>7
<1>12. Grows
  BY <1>1, <1>4, <1>5, <1>7, <1>9, <1>10, <1>11 DEF Grows
<1> QED BY <1>1, <1>7, <1>8, <1>12

LEMMA NewlineAppended ==
  ASSUME TypeOK, NEW w \in Writers, AppendNewline(w)
  PROVE  /\ Grows /\ written' = written
         /\ Len(file') = Len(file) + 1
         /\ file'[Len(file) + 1] = Newline
<1>1. Newline \in Bytes /\ Newline.part = 0
  BY NewlineType
<1>2. /\ file' \in Seq(Bytes) /\ Len(file') = Len(file) + 1 /\ Len(file) \in Nat
      /\ \A i \in 1..Len(file) : file'[i] = file[i]
      /\ file'[Len(file) + 1] = Newline
  BY <1>1 DEF TypeOK, AppendNewline
<1>3. written' = written /\ between' \subseteq Writers /\ kills' \in 0..MaxKills
  BY DEF AppendNewline, TypeOK
<1>4. \A i \in 1..Len(file') : i > Len(file) => file'[i].part # TextLen
  BY <1>1, <1>2, BoundsAssumption
<1>5. written' \in written..MaxEvents
  BY <1>3, BoundsAssumption DEF TypeOK
<1> QED BY <1>1, <1>2, <1>3, <1>4, <1>5 DEF Grows

LEMMA KillChanges ==
  ASSUME TypeOK, NEW w \in Writers, Kill(w)
  PROVE  Grows /\ written' = written /\ file' = file
<1>1. kills' \in 0..MaxKills
  BY BoundsAssumption DEF Kill, TypeOK
<1>2. written' \in written..MaxEvents
  BY BoundsAssumption DEF Kill, TypeOK
<1>3. between' \subseteq Writers
  BY DEF Kill, TypeOK
<1>4. file' = file /\ file \in Seq(Bytes) /\ Len(file) \in Nat
  BY DEF Kill, TypeOK
<1> QED BY <1>1, <1>2, <1>3, <1>4 DEF Kill, Grows

\* The steps of the writers, all of them.
Writing == \E w \in Writers : Write(w) \/ AppendNewline(w) \/ Kill(w)

LEMMA WriteGrows == ASSUME TypeOK, Writing PROVE Grows
  BY TextAppended, NewlineAppended, KillChanges DEF Writing

LEMMA WriteShape ==
  ASSUME TypeOK, Shape, Writing
  PROVE  Shape'
<1> DEFINE n == Len(file)
<1>0. n \in Nat /\ written \in Nat /\ TextLen \in Nat /\ TextLen > 1
  BY BoundsAssumption DEF TypeOK
<1>1. ASSUME NEW w \in Writers, Write(w) PROVE Shape'
  <2>1. /\ Grows /\ written' = written + 1
        /\ Len(file') \in {n + TextLen, n + TextLen + 1}
        /\ \A k \in 1..TextLen : file'[n + k] = Byte(written', k)
        /\ Len(file') = n + TextLen + 1 => file'[n + TextLen + 1] = Newline
    BY <1>1, TextAppended
  <2>2. \A i \in 1..n : file'[i] = file[i] /\ i \in 1..Len(file')
    BY <1>0, <2>1 DEF Grows
  <2>3. \A k \in 1..TextLen : file'[n + k].part = k /\ file'[n + k].event = written'
    <3> SUFFICES ASSUME NEW k \in 1..TextLen
                 PROVE  file'[n + k].part = k /\ file'[n + k].event = written'
      OBVIOUS
    <3>1. file'[n + k] = Byte(written', k)
      BY <2>1
    <3> QED BY <3>1 DEF Byte
  <2>4. Len(file') = n + TextLen + 1 => file'[n + TextLen + 1].part = 0
    BY <2>1, NewlineType
  <2>5. \A i \in 1..Len(file') :
          \/ i \in 1..n
          \/ i - n \in 1..TextLen /\ n + (i - n) = i
          \/ i = n + TextLen + 1 /\ Len(file') = n + TextLen + 1
    BY <1>0, <2>1
  <2> HIDE DEF n
  <2>6. ASSUME NEW i \in 1..Len(file'), file'[i].part # 0
        PROVE  /\ file'[i].event \in 1..written'
               /\ i >= file'[i].part /\ i - file'[i].part + TextLen <= Len(file')
               /\ \A k \in 1..TextLen :
                    file'[i - file'[i].part + k] = Byte(file'[i].event, k)
    <3>1. CASE i \in 1..n
      <4> DEFINE b == i - file[i].part
      <4>1. file'[i] = file[i] /\ file[i].part # 0
        BY <2>2, <2>6, <3>1
      <4>2. /\ file[i].event \in 1..written /\ i >= file[i].part /\ b + TextLen <= n
            /\ \A k \in 1..TextLen : file[b + k] = Byte(file[i].event, k)
        BY <3>1, <4>1 DEF Shape, n
      <4>3. file[i].part \in Nat
        BY <3>1, ByteAt, <1>0 DEF n
      <4>4. b \in Nat
        BY <4>2, <4>3, <3>1
      <4> HIDE DEF b
      <4>5. \A k \in 1..TextLen : b + k \in 1..n
        BY <4>2, <4>4, <1>0
      <4>6. \A k \in 1..TextLen : file'[b + k] = Byte(file[i].event, k)
        BY <4>2, <4>5, <2>2
      <4>7. n <= Len(file') /\ Len(file') \in Nat
        BY <2>1, <1>0
      <4>8. b + TextLen <= Len(file')
        BY <4>2, <4>4, <4>7, <1>0
      <4>9. file[i].event \in 1..written'
        BY <4>2, <2>1, <1>0
      <4> QED BY <4>1, <4>2, <4>6, <4>8, <4>9 DEF b
    <3>2. CASE i - n \in 1..TextLen /\ n + (i - n) = i
      <4>1. file'[i].part = i - n /\ file'[i].event = written'
        BY <3>2, <2>3
      <4>2. i - file'[i].part = n
        BY <4>1, <1>0
      <4>3. i >= file'[i].part /\ n + TextLen <= Len(file')
        BY <4>1, <1>0, <2>1
      <4>4. written' \in 1..written'
        BY <2>1, <1>0
      <4> QED BY <4>1, <4>2, <4>3, <4>4, <2>1
    <3>3. ~(i = n + TextLen + 1 /\ Len(file') = n + TextLen + 1)
      BY <2>4, <2>6
    <3> QED BY <3>1, <3>2, <3>3, <2>5
  <2>7. ASSUME NEW i \in 1..Len(file'), NEW j \in 1..Len(file'), i < j,
               file'[i].part = TextLen, file'[j].part = TextLen
        PROVE  file'[i].event < file'[j].event
    <3>0. \A k \in 1..Len(file') : file'[k].part = TextLen => k \in 1..n \/ k = n + TextLen
      <4> SUFFICES ASSUME NEW k \in 1..Len(file'), file'[k].part = TextLen, k \notin 1..n
                   PROVE  k = n + TextLen
        OBVIOUS
      <4>1. k # n + TextLen + 1 \/ Len(file') # n + TextLen + 1
        BY <2>4, <1>0
      <4>2. k - n \in 1..TextLen /\ n + (k - n) = k
        BY <4>1, <2>5
      <4>3. file'[k].part = k - n
        BY <4>2, <2>3
      <4> QED BY <4>2, <4>3, <1>0
    <3>1. CASE j \in 1..n
      <4>1. i \in 1..n
        BY <3>1, <2>7, <1>0
      <4> QED BY <4>1, <3>1, <2>2, <2>7 DEF Shape, n
    <3>2. CASE j = n + TextLen
      <4>1. i \in 1..n
        BY <3>2, <3>0, <2>7, <1>0
      <4>2. file[i].event \in 1..written /\ file'[i] = file[i]
        BY <4>1, <2>2, <2>7, <1>0 DEF Shape, n
      <4>3. file'[j].event = written'
        BY <3>2, <2>3, <1>0
      <4> QED BY <4>2, <4>3, <2>1, <1>0
    <3> QED BY <3>0, <3>1, <3>2, <2>7
  <2> QED BY <2>6, <2>7 DEF Shape
<1>2. ASSUME NEW w \in Writers, AppendNewline(w) PROVE Shape'
  <2>1. /\ Grows /\ written' = written /\ Len(file') = n + 1
        /\ file'[n + 1].part = 0
    BY <1>2, NewlineAppended, NewlineType
  <2>2. \A i \in 1..n : file'[i] = file[i] /\ i \in 1..Len(file')
    BY <1>0, <2>1 DEF Grows
  <2>3. \A i \in 1..Len(file') : file'[i].part # 0 => i \in 1..n
    BY <1>0, <2>1
  <2> HIDE DEF n
  <2>4. ASSUME NEW i \in 1..Len(file'), file'[i].part # 0
        PROVE  /\ file'[i].event \in 1..written'
               /\ i >= file'[i].part /\ i - file'[i].part + TextLen <= Len(file')
               /\ \A k \in 1..TextLen :
                    file'[i - file'[i].part + k] = Byte(file'[i].event, k)
    <3> DEFINE b == i - file[i].part
    <3>1. i \in 1..n /\ file'[i] = file[i] /\ file[i].part # 0
      BY <2>2, <2>3, <2>4
    <3>2. /\ file[i].event \in 1..written /\ i >= file[i].part /\ b + TextLen <= n
          /\ \A k \in 1..TextLen : file[b + k] = Byte(file[i].event, k)
      BY <3>1 DEF Shape, n
    <3>3. file[i].part \in Nat
      BY <3>1, ByteAt, <1>0 DEF n
    <3>4. b \in Nat
      BY <3>2, <3>3, <3>1
    <3> HIDE DEF b
    <3>5. \A k \in 1..TextLen : b + k \in 1..n
      BY <3>2, <3>4, <1>0
    <3>6. \A k \in 1..TextLen : file'[b + k] = Byte(file[i].event, k)
      BY <3>2, <3>5, <2>2
    <3>7. b + TextLen <= Len(file')
      BY <3>2, <3>4, <2>1, <1>0
    <3> QED BY <3>1, <3>2, <3>6, <3>7, <2>1 DEF b
  <2>5. ASSUME NEW i \in 1..Len(file'), NEW j \in 1..Len(file'), i < j,
               file'[i].part = TextLen, file'[j].part = TextLen
        PROVE  file'[i].event < file'[j].event
    <3>1. i \in 1..n /\ j \in 1..n
      BY <2>3, <2>5, <1>0
    <3> QED BY <3>1, <2>2, <2>5 DEF Shape, n
  <2> QED BY <2>4, <2>5 DEF Shape
<1>3. ASSUME NEW w \in Writers, Kill(w) PROVE Shape'
  BY <1>3, KillChanges DEF Shape
<1> QED BY <1>1, <1>2, <1>3 DEF Writing

\* The reader's facts are not disturbed by a writer.
LEMMA GrowsKeeps ==
  ASSUME TypeOK, Shape, Place, Near, Grows, UNCHANGED reader, disturbed' \in BOOLEAN
  PROVE  /\ TypeOK' /\ Place' /\ Near'
         /\ IntactIsDelivered => IntactIsDelivered'
         /\ LossIsReported => LossIsReported'
<1> DEFINE n == Len(file)
<1>1. /\ n \in Nat /\ Len(file') \in Nat /\ Len(file') >= n
      /\ TextLen \in Nat /\ TextLen > 1
      /\ cursor \in 0..n + TextLen - 1 /\ cursor' = cursor
      /\ position \in cursor..cursor + TextLen - 1 /\ position' = position
      /\ \A i \in 1..n : i \in 1..Len(file') /\ file'[i] = file[i]
      /\ synced' = synced /\ raced' = raced /\ skipped' = skipped
      /\ delivered' = delivered /\ reported' = reported
  BY BoundsAssumption DEF TypeOK, Grows, reader, results
<1>2. cursor' \in 0..Len(file') + TextLen - 1 /\ position' \in cursor'..cursor' + TextLen - 1
  BY <1>1
<1>3. TypeOK'
  <2>1. file' \in Seq(Bytes) /\ between' \subseteq Writers /\ kills' \in 0..MaxKills
    BY DEF Grows
  <2>2. written' \in 0..MaxEvents /\ written \in Nat /\ 1..written \subseteq 1..written'
    <3>1. written \in 0..MaxEvents /\ written' \in written..MaxEvents /\ MaxEvents \in Nat
      BY BoundsAssumption DEF TypeOK, Grows
    <3> QED BY <3>1
  <2>3. /\ skipped' \subseteq 1..written'
        /\ delivered' \subseteq 1..written' /\ reported' \subseteq 1..written'
    BY <1>1, <2>2 DEF TypeOK
  <2>4. synced' \in BOOLEAN /\ raced' \in BOOLEAN
    BY <1>1 DEF TypeOK
  <2> QED BY <2>1, <2>2, <2>3, <2>4, <1>2 DEF TypeOK
<1>4. Place'
  <2>1. \A d \in delivered' \cup skipped' :
          \E i \in 1..Len(file') : i <= cursor' /\ file'[i] = Byte(d, TextLen)
    BY <1>1 DEF Place
  <2>2. ~synced' => /\ cursor' = 0 /\ position' = 0
                    /\ delivered' = {} /\ skipped' = {} /\ ~raced'
    BY <1>1 DEF Place
  <2>3. position' # cursor' => cursor' <= Len(file')
    BY <1>1 DEF Place
  <2> QED BY <2>1, <2>2, <2>3 DEF Place
<1>5. Near'
  <2> SUFFICES ASSUME ~raced
               PROVE  /\ position # cursor =>
                           position = cursor + 1 /\ cursor > 0 /\ file'[cursor].part = TextLen
                      /\ cursor > Len(file') =>
                           /\ cursor = Len(file') + 1 /\ Len(file') > 0
                           /\ file'[Len(file')].part = TextLen
                      /\ cursor \in 1..Len(file') =>
                           \/ file'[cursor].part \in {0, TextLen}
                           \/ /\ file'[cursor].part = 1
                              /\ cursor > 1 /\ file'[cursor - 1].part = TextLen
    BY <1>1 DEF Near
  <2>1. position # cursor =>
          position = cursor + 1 /\ cursor > 0 /\ file'[cursor].part = TextLen
    <3> SUFFICES ASSUME position # cursor
                 PROVE  position = cursor + 1 /\ cursor > 0 /\ file'[cursor].part = TextLen
      OBVIOUS
    <3>1. position = cursor + 1 /\ cursor > 0 /\ file[cursor].part = TextLen /\ cursor <= n
      BY DEF Near, Place
    <3>2. cursor \in 1..n
      BY <3>1, <1>1
    <3> QED BY <3>1, <3>2, <1>1
  <2>2. CASE cursor \in 0..n
    <3>1. cursor \in 1..n => file'[cursor] = file[cursor]
      BY <1>1
    <3>2. cursor \in 1..n /\ cursor > 1 => file'[cursor - 1] = file[cursor - 1]
      <4>1. cursor > 1 => cursor - 1 \in 1..n
        BY <2>2, <1>1
      <4> QED BY <4>1, <1>1
    <3>3. ~(cursor > Len(file')) /\ (cursor \in 1..Len(file') => cursor \in 1..n)
      BY <2>2, <1>1
    <3>4. cursor \in 1..n =>
            \/ file[cursor].part \in {0, TextLen}
            \/ /\ file[cursor].part = 1
               /\ cursor > 1 /\ file[cursor - 1].part = TextLen
      BY DEF Near
    <3> QED BY <2>1, <3>1, <3>2, <3>3, <3>4
  <2>3. CASE cursor > n
    <3>1. cursor = n + 1 /\ n > 0 /\ file[n].part = TextLen
      BY <2>3 DEF Near
    <3>2. n \in 1..n /\ file'[n] = file[n] /\ cursor - 1 = n /\ cursor > 1
      BY <3>1, <1>1
    <3>3. CASE Len(file') = n
      <4>1. ~(cursor \in 1..Len(file'))
        BY <3>1, <3>3, <1>1
      <4> QED BY <2>1, <3>1, <3>2, <3>3, <4>1
    <3>4. CASE Len(file') > n
      <4>1. file'[cursor].part \in {0, 1}
        BY <3>1, <3>4 DEF Grows
      <4>2. file'[cursor - 1].part = TextLen
        BY <3>1, <3>2
      <4>3. ~(cursor > Len(file'))
        BY <3>1, <3>4, <1>1
      <4> QED BY <2>1, <3>2, <4>1, <4>2, <4>3
    <3> QED BY <3>3, <3>4, <1>1
  <2> QED BY <2>2, <2>3, <1>1
<1>6. ASSUME IntactIsDelivered PROVE IntactIsDelivered'
  <2> SUFFICES ASSUME ~raced, NEW i \in 1..Len(file'), Whole(i)', i + TextLen <= cursor + 1
               PROVE  file'[i].event \in delivered \cup skipped
    BY <1>1 DEF IntactIsDelivered
  <2>1. i \in 1..n
    <3>1. cursor <= n + 1
      BY <1>1 DEF Near
    <3>2. i <= n
      BY <3>1, <1>1
    <3> QED BY <3>2, <1>1
  <2>2. Whole(i)
    <3>1. file[i].part = 1
      BY <2>1, <1>1 DEF Whole
    <3>2. i = 1 \/ IsNewline(i - 1)
      <4>1. i # 1 => i - 1 \in 1..n
        BY <2>1, <1>1
      <4> QED BY <4>1, <1>1 DEF Whole, IsNewline
    <3>3. i + TextLen <= n => IsNewline(i + TextLen)
      <4>1. i + TextLen <= n => i + TextLen \in 1..n /\ i + TextLen <= Len(file')
        BY <2>1, <1>1
      <4> QED BY <4>1, <1>1 DEF Whole, IsNewline
    <3> QED BY <3>1, <3>2, <3>3 DEF Whole
  <2> QED BY <2>1, <2>2, <1>1, <1>6 DEF IntactIsDelivered
<1>7. ASSUME LossIsReported PROVE LossIsReported'
  <2> SUFFICES ASSUME NEW i \in 1..Len(file'), file'[i].part = TextLen, i <= cursor
               PROVE  file'[i].event \in delivered \cup skipped \cup reported
    BY <1>1 DEF LossIsReported
  <2>1. CASE i \in 1..n
    BY <2>1, <1>1, <1>7 DEF LossIsReported
  <2>2. CASE i \notin 1..n
    <3>1. i > n
      BY <2>2, <1>1
    <3>2. i >= n + TextLen
      BY <3>1 DEF Grows
    <3> QED BY <3>2, <1>1
  <2> QED BY <2>1, <2>2
<1> QED BY <1>3, <1>4, <1>5, <1>6, <1>7

-----------------------------------------------------------------------------
(* The reader *)

\* A text is where its bytes are.
LEMMA TextAt ==
  ASSUME TypeOK, Shape, NEW i \in 1..Len(file), file[i].part = 1
  PROVE  /\ i + TextLen - 1 \in 1..Len(file) /\ file[i].event \in 1..written
         /\ \A k \in 1..TextLen : file[i - 1 + k] = Byte(file[i].event, k)
         /\ \A k \in 1..TextLen : file[i - 1 + k].part = k
<1>1. TextLen \in Nat /\ TextLen > 1 /\ Len(file) \in Nat
  BY BoundsAssumption DEF TypeOK
<1>2. /\ file[i].event \in 1..written /\ i - 1 + TextLen <= Len(file)
      /\ \A k \in 1..TextLen : file[i - 1 + k] = Byte(file[i].event, k)
  BY DEF Shape
<1>3. \A k \in 1..TextLen : file[i - 1 + k].part = k
  <2> SUFFICES ASSUME NEW k \in 1..TextLen PROVE file[i - 1 + k].part = k
    OBVIOUS
  <2>1. file[i - 1 + k] = Byte(file[i].event, k)
    BY <1>2
  <2> QED BY <2>1 DEF Byte
<1> QED BY <1>1, <1>2, <1>3

\* The file ends with a newline or a whole text.
LEMMA LastByte ==
  ASSUME TypeOK, Shape, Len(file) > 0
  PROVE  Len(file) \in 1..Len(file) /\ file[Len(file)].part \in {0, TextLen}
<1> DEFINE n == Len(file)
<1>1. TextLen \in Nat /\ n \in Nat /\ n \in 1..n
  BY BoundsAssumption DEF TypeOK
<1>2. file[n].part \in 0..TextLen
  BY <1>1, ByteAt
<1>3. file[n].part # 0 => n - file[n].part + TextLen <= n
  BY <1>1 DEF Shape
<1> QED BY <1>1, <1>2, <1>3

LEMMA EndingInType ==
  ASSUME TypeOK, Shape, NEW I \in SUBSET (1..Len(file))
  PROVE  EndingIn(I) \subseteq 1..written
<1> SUFFICES ASSUME NEW i \in I, file[i].part = TextLen PROVE file[i].event \in 1..written
  BY DEF EndingIn
<1>1. file[i].part # 0
  BY BoundsAssumption
<1> QED BY <1>1 DEF Shape

LEMMA ReadKeeps ==
  ASSUME TypeOK, Shape, Place, Near, IntactIsDelivered, LossIsReported,
         ReadLine, UNCHANGED writers, disturbed' \in BOOLEAN
  PROVE  TypeOK' /\ Place' /\ Near' /\ IntactIsDelivered' /\ LossIsReported'
<1> DEFINE n == Len(file)
<1>1. PICK end \in cursor..n :
        /\ IsLine(end)
        /\ end = n => position + 1 < cursor + TextLen
        /\ cursor' = IF end < n THEN end + 1 ELSE end
        /\ position' = position + LineBytes(end)
        /\ delivered' = delivered \cup {e \in 1..written : Parses(end, e)}
        /\ reported' = reported \cup (IF Malformed(end) THEN EndingIn(InLine(end)) ELSE {})
  BY DEF ReadLine
<1>2. /\ n \in Nat /\ cursor \in Nat /\ cursor < n /\ end \in Nat /\ cursor <= end /\ end <= n
      /\ position \in cursor..cursor + TextLen - 1
      /\ TextLen \in Nat /\ TextLen > 1
  BY <1>1, BoundsAssumption DEF ReadLine, TypeOK
<1>3. /\ synced /\ synced' = synced /\ raced' = (raced \/ position # cursor)
      /\ skipped' = skipped /\ file' = file /\ written' = written
      /\ between' = between /\ kills' = kills
  BY DEF ReadLine, writers
<1>4. /\ \A i \in cursor + 1..end : ~IsNewline(i)
      /\ end < n => IsNewline(end + 1)
  BY <1>1 DEF IsLine
<1>5. /\ end < n => cursor' = end + 1
      /\ end = n => cursor' = n
      /\ position' = position + (end - cursor + 1)
      /\ end < n \/ end = n
  BY <1>1, <1>2 DEF LineBytes
<1>6. cursor' \in end..n /\ position' \in cursor'..cursor' + TextLen - 1
  <2>1. CASE end < n
    BY <2>1, <1>2, <1>5
  <2>2. CASE end = n
    BY <2>2, <1>1, <1>2, <1>5
  <2> QED BY <2>1, <2>2, <1>5
<1>7. end = n => n \in 1..n /\ file[n].part = TextLen
  <2>1. end = n => n \in cursor + 1..end /\ ~IsNewline(n)
    BY <1>2, <1>4
  <2> QED BY <2>1, <1>2, LastByte DEF IsNewline
<1>8. TypeOK'
  <2>1. InLine(end) \in SUBSET (1..n)
    BY <1>2 DEF InLine
  <2>2. reported' \subseteq 1..written
    BY <1>1, <2>1, EndingInType DEF TypeOK
  <2>3. delivered' \subseteq 1..written /\ skipped' \subseteq 1..written
    BY <1>1, <1>3 DEF TypeOK
  <2>4. synced' \in BOOLEAN /\ raced' \in BOOLEAN
    BY <1>3 DEF TypeOK
  <2>5. cursor' \in 0..n + TextLen - 1
    BY <1>2, <1>6
  <2>6. /\ file' \in Seq(Bytes) /\ written' \in 0..MaxEvents
        /\ between' \subseteq Writers /\ kills' \in 0..MaxKills
    BY <1>3 DEF TypeOK
  <2> QED BY <1>3, <1>6, <2>2, <2>3, <2>4, <2>5, <2>6 DEF TypeOK
<1>9. Place'
  <2>1. \A d \in delivered' \cup skipped' :
          \E i \in 1..n : i <= cursor' /\ file[i] = Byte(d, TextLen)
    <3> SUFFICES ASSUME NEW d \in delivered' \cup skipped'
                 PROVE  \E i \in 1..n : i <= cursor' /\ file[i] = Byte(d, TextLen)
      OBVIOUS
    <3>1. CASE d \in delivered \cup skipped
      <4>1. PICK i \in 1..n : i <= cursor /\ file[i] = Byte(d, TextLen)
        BY <3>1 DEF Place
      <4>2. i <= cursor'
        BY <4>1, <1>2, <1>6
      <4> QED BY <4>1, <4>2
    <3>2. CASE Parses(end, d)
      <4>1. end = cursor + TextLen /\ file[end] = Byte(d, TextLen)
        BY <3>2, <1>2 DEF Parses
      <4>2. end \in 1..n /\ end <= cursor'
        BY <4>1, <1>2, <1>6
      <4> QED BY <4>1, <4>2
    <3> QED BY <3>1, <3>2, <1>1, <1>3
  <2>2. cursor' <= n
    BY <1>2, <1>6
  <2> QED BY <2>1, <2>2, <1>3 DEF Place
<1>10. Near'
  <2> SUFFICES ASSUME ~raced'
               PROVE  /\ position' # cursor' =>
                           position' = cursor' + 1 /\ cursor' > 0 /\ file[cursor'].part = TextLen
                      /\ ~(cursor' > n)
                      /\ file[cursor'].part \in {0, TextLen}
    BY <1>3 DEF Near
  <2>1. position = cursor
    BY <1>3
  <2>2. CASE end < n
    <3>1. cursor' = end + 1 /\ position' = cursor' /\ file[end + 1].part = 0
      BY <2>1, <2>2, <1>2, <1>4, <1>5 DEF IsNewline
    <3> QED BY <3>1, <2>2, <1>2
  <2>3. CASE end = n
    <3>1. cursor' = n /\ position' = n + 1 /\ file[n].part = TextLen
      BY <2>1, <2>3, <1>2, <1>5, <1>7
    <3> QED BY <3>1, <1>2
  <2> QED BY <2>2, <2>3, <1>5
<1>11. \A i \in 1..n : file[i].part = TextLen /\ i <= cursor' /\ ~(i <= cursor)
                         => i \in cursor + 1..end
  <2> SUFFICES ASSUME NEW i \in 1..n, file[i].part = TextLen, i <= cursor', ~(i <= cursor)
               PROVE  i <= end
    BY <1>2
  <2>1. CASE end < n
    <3>1. file[end + 1].part = 0
      BY <2>1, <1>4 DEF IsNewline
    <3>2. i # end + 1
      BY <3>1, <1>2
    <3> QED BY <3>2, <2>1, <1>2, <1>5
  <2>2. CASE end = n
    BY <2>2
  <2> QED BY <2>1, <2>2, <1>5
<1>12. IntactIsDelivered'
  <2> SUFFICES ASSUME ~raced', NEW i \in 1..n, Whole(i), i + TextLen <= cursor' + 1
               PROVE  file[i].event \in delivered' \cup skipped'
    BY <1>3 DEF IntactIsDelivered, Whole, IsNewline
  <2>1. ~raced /\ position = cursor
    BY <1>3
  <2>2. /\ i + TextLen - 1 \in 1..n /\ file[i].event \in 1..written
        /\ \A k \in 1..TextLen : file[i - 1 + k] = Byte(file[i].event, k)
        /\ \A k \in 1..TextLen : file[i - 1 + k].part = k
    BY TextAt DEF Whole
  <2>3. CASE i + TextLen <= cursor + 1
    <3>1. file[i].event \in delivered \cup skipped
      BY <2>1, <2>3 DEF IntactIsDelivered
    <3> QED BY <3>1, <1>1, <1>3
  <2>4. CASE ~(i + TextLen <= cursor + 1)
    <3>1. file[i - 1 + TextLen].part = TextLen
      BY <2>2, <1>2
    <3>2. i + TextLen - 1 \in cursor + 1..end
      <4>1. i - 1 + TextLen = i + TextLen - 1
        BY <1>2
      <4>0. cursor' \in Nat /\ i \in Nat
        BY <1>2, <1>6
      <4>2. i + TextLen - 1 <= cursor'
        <5>1. \A c \in Nat : i + TextLen <= c + 1 => i + TextLen - 1 <= c
          BY <4>0, <1>2
        <5> QED BY <4>0, <5>1
      <4>3. ~(i + TextLen - 1 <= cursor)
        BY <4>0, <2>4, <1>2
      <4> QED BY <3>1, <4>1, <4>2, <4>3, <2>2, <1>11
    <3>3. CASE cursor < i - 1
      <4>1. i # 1 /\ i - 1 \in cursor + 1..end
        BY <3>2, <3>3, <1>2
      <4> QED BY <4>1, <1>4 DEF Whole
    <3>4. CASE cursor = i - 1
      <4>1. end = cursor + TextLen
        <5>1. end >= cursor + TextLen
          BY <3>2, <3>4, <1>2
        <5>2. ASSUME end > cursor + TextLen PROVE FALSE
          <6>1. i + TextLen <= n /\ i + TextLen \in cursor + 1..end
            BY <5>2, <3>4, <1>2
          <6> QED BY <6>1, <1>4 DEF Whole
        <5> QED BY <5>1, <5>2, <1>2
      <4>2. Parses(end, file[i].event)
        BY <4>1, <3>4, <2>2 DEF Parses
      <4> QED BY <4>2, <2>2, <1>1
    <3>5. CASE cursor >= i
      <4>1. cursor - i + 1 \in 1..TextLen - 1 /\ i - 1 + (cursor - i + 1) = cursor
        BY <2>4, <3>5, <1>2
      <4>2. file[cursor].part = cursor - i + 1
        <5>1. cursor - i + 1 \in 1..TextLen
          BY <4>1, <1>2
        <5> QED BY <5>1, <4>1, <2>2
      <4>3. cursor \in 1..n /\ file[cursor].part \notin {0, TextLen}
        <5>1. cursor \in 1..n
          BY <3>5, <1>2
        <5>2. cursor - i + 1 # 0 /\ cursor - i + 1 # TextLen
          BY <4>1, <1>2
        <5> QED BY <5>1, <5>2, <4>2
      <4>4. file[cursor].part = 1 /\ cursor > 1 /\ file[cursor - 1].part = TextLen
        BY <4>3, <2>1 DEF Near
      <4>5. cursor = i
        BY <4>2, <4>4, <1>2
      <4> QED BY <4>4, <4>5, <1>2 DEF Whole, IsNewline
    <3> QED BY <3>3, <3>4, <3>5, <1>2
  <2> QED BY <2>3, <2>4
<1>13. LossIsReported'
  <2> SUFFICES ASSUME NEW i \in 1..n, file[i].part = TextLen, i <= cursor'
               PROVE  file[i].event \in delivered' \cup skipped' \cup reported'
    BY <1>3 DEF LossIsReported
  <2>1. CASE i <= cursor
    <3>1. file[i].event \in delivered \cup skipped \cup reported
      BY <2>1 DEF LossIsReported
    <3> QED BY <3>1, <1>1, <1>3
  <2>2. CASE ~(i <= cursor)
    <3>1. i \in InLine(end)
      BY <2>2, <1>11 DEF InLine
    <3>2. CASE Malformed(end)
      BY <3>1, <3>2, <1>1 DEF EndingIn
    <3>3. CASE ~Malformed(end)
      <4>1. PICK e \in 1..written : Parses(end, e)
        BY <3>1, <3>3 DEF Malformed
      <4>2. i - cursor \in 1..TextLen /\ cursor + (i - cursor) = i
        BY <3>1, <4>1, <1>2 DEF InLine, Parses
      <4>3. file[i] = Byte(e, i - cursor)
        BY <4>1, <4>2 DEF Parses
      <4>4. file[i].event = e
        BY <4>3 DEF Byte
      <4> QED BY <4>1, <4>4, <1>1
    <3> QED BY <3>2, <3>3
  <2> QED BY <2>1, <2>2
<1> QED BY <1>8, <1>9, <1>10, <1>12, <1>13

LEMMA SyncKeeps ==
  ASSUME TypeOK, Shape, Place, Sync, UNCHANGED writers, disturbed' \in BOOLEAN
  PROVE  TypeOK' /\ Place' /\ Near' /\ IntactIsDelivered' /\ LossIsReported'
<1> DEFINE n == Len(file)
<1>1. /\ n \in Nat /\ TextLen \in Nat /\ TextLen > 1
      /\ cursor' = n /\ position' = n /\ synced' = TRUE
      /\ skipped' = EndingIn(1..n) /\ delivered' = delivered /\ reported' = reported
      /\ raced' = raced /\ delivered = {}
      /\ file' = file /\ written' = written /\ between' = between /\ kills' = kills
  BY BoundsAssumption DEF Sync, writers, Place, TypeOK
<1>2. skipped' \subseteq 1..written
  BY <1>1, EndingInType
<1>3. TypeOK'
  <2>1. cursor' \in 0..n + TextLen - 1 /\ position' \in cursor'..cursor' + TextLen - 1
    BY <1>1
  <2>2. /\ delivered' \subseteq 1..written /\ reported' \subseteq 1..written
        /\ synced' \in BOOLEAN /\ raced' \in BOOLEAN
        /\ file' \in Seq(Bytes) /\ written' \in 0..MaxEvents
        /\ between' \subseteq Writers /\ kills' \in 0..MaxKills
    BY <1>1 DEF TypeOK
  <2> QED BY <1>1, <1>2, <2>1, <2>2 DEF TypeOK
<1>4. Place'
  <2>1. \A d \in skipped' : \E i \in 1..n : i <= cursor' /\ file[i] = Byte(d, TextLen)
    <3> SUFFICES ASSUME NEW i \in 1..n, file[i].part = TextLen
                 PROVE  i <= n /\ file[i] = Byte(file[i].event, TextLen)
      BY <1>1 DEF EndingIn
    <3> QED BY ByteAt, <1>1
  <2> QED BY <2>1, <1>1 DEF Place
<1>5. Near'
  BY <1>1, LastByte DEF Near
<1>6. IntactIsDelivered'
  <2> SUFFICES ASSUME NEW i \in 1..n, file[i].part = 1 PROVE file[i].event \in skipped'
    BY <1>1 DEF IntactIsDelivered, Whole
  <2>1. /\ i + TextLen - 1 \in 1..n /\ i - 1 + TextLen = i + TextLen - 1
        /\ file[i - 1 + TextLen] = Byte(file[i].event, TextLen)
    <3>1. TextLen \in 1..TextLen /\ i - 1 + TextLen = i + TextLen - 1
      BY <1>1
    <3>2. i + TextLen - 1 \in 1..n
      BY TextAt
    <3>3. \A k \in 1..TextLen : file[i - 1 + k] = Byte(file[i].event, k)
      BY TextAt
    <3> QED BY <3>1, <3>2, <3>3
  <2>2. file[i + TextLen - 1].part = TextLen /\ file[i + TextLen - 1].event = file[i].event
    BY <2>1 DEF Byte
  <2> QED BY <2>1, <2>2, <1>1 DEF EndingIn
<1>7. LossIsReported'
  BY <1>1 DEF LossIsReported, EndingIn
<1> QED BY <1>3, <1>4, <1>5, <1>6, <1>7

LEMMA EndKeeps ==
  ASSUME TypeOK, Shape, Place, Near, IntactIsDelivered, LossIsReported,
         EndRead, UNCHANGED <<writers, disturbed>>
  PROVE  TypeOK' /\ Place' /\ Near' /\ IntactIsDelivered' /\ LossIsReported'
<1> DEFINE n == Len(file)
<1>1. /\ n \in Nat /\ TextLen \in Nat /\ TextLen > 1
      /\ cursor \in 0..n + TextLen - 1 /\ position \in cursor..cursor + TextLen - 1
      /\ cursor >= n /\ cursor' = position /\ position' = position
      /\ synced /\ synced' = synced /\ raced' = raced /\ skipped' = skipped
      /\ delivered' = delivered /\ reported' = reported /\ disturbed' = disturbed
      /\ file' = file /\ written' = written /\ between' = between /\ kills' = kills
  BY BoundsAssumption DEF EndRead, writers, results, TypeOK
<1>2. position # cursor => cursor = n
  BY <1>1 DEF Place
<1>3. cursor' \in 0..n + TextLen - 1 /\ position' \in cursor'..cursor' + TextLen - 1
  BY <1>1, <1>2
<1>4. TypeOK'
  <2>1. /\ skipped' \subseteq 1..written'
        /\ delivered' \subseteq 1..written' /\ reported' \subseteq 1..written'
        /\ synced' \in BOOLEAN /\ raced' \in BOOLEAN /\ disturbed' \in BOOLEAN
        /\ file' \in Seq(Bytes) /\ written' \in 0..MaxEvents
        /\ between' \subseteq Writers /\ kills' \in 0..MaxKills
    BY <1>1 DEF TypeOK
  <2> QED BY <1>1, <1>3, <2>1 DEF TypeOK
<1>5. Place'
  <2> SUFFICES ASSUME NEW d \in delivered \cup skipped
               PROVE  \E i \in 1..n : i <= cursor' /\ file[i] = Byte(d, TextLen)
    BY <1>1 DEF Place
  <2>1. PICK i \in 1..n : i <= cursor /\ file[i] = Byte(d, TextLen)
    BY DEF Place
  <2>2. i <= cursor'
    BY <2>1, <1>1
  <2> QED BY <2>1, <2>2
<1>6. Near'
  <2>1. CASE position = cursor
    BY <2>1, <1>1 DEF Near
  <2>2. CASE position # cursor
    <3> SUFFICES ASSUME ~raced
                 PROVE  /\ cursor' = n + 1 /\ n > 0 /\ file[n].part = TextLen
                        /\ ~(cursor' \in 1..n)
      BY <1>1 DEF Near
    <3>1. position = cursor + 1 /\ cursor > 0 /\ file[cursor].part = TextLen
      BY <2>2 DEF Near
    <3> QED BY <3>1, <2>2, <1>1, <1>2
  <2> QED BY <2>1, <2>2
<1>7. IntactIsDelivered'
  <2> SUFFICES ASSUME ~raced, NEW i \in 1..n, Whole(i)
               PROVE  file[i].event \in delivered \cup skipped
    BY <1>1 DEF IntactIsDelivered, Whole, IsNewline
  <2>1. i + TextLen - 1 \in 1..n
    BY TextAt DEF Whole
  <2>2. i + TextLen <= cursor + 1
    BY <2>1, <1>1
  <2> QED BY <2>2 DEF IntactIsDelivered
<1>8. LossIsReported'
  <2> SUFFICES ASSUME NEW i \in 1..n, file[i].part = TextLen
               PROVE  file[i].event \in delivered \cup skipped \cup reported
    BY <1>1 DEF LossIsReported
  <2>1. i <= cursor
    BY <1>1
  <2> QED BY <2>1 DEF LossIsReported
<1> QED BY <1>4, <1>5, <1>6, <1>7, <1>8

-----------------------------------------------------------------------------
(* Safety *)

IInv == TypeOK /\ Shape /\ Place /\ Near /\ IntactIsDelivered /\ LossIsReported

\* Next, by who acts.
LEMMA Steps ==
  ASSUME Next, TypeOK
  PROVE  /\ \/ Writing /\ UNCHANGED reader
            \/ EndRead /\ UNCHANGED <<writers, disturbed>>
            \/ Sync /\ UNCHANGED writers
            \/ ReadLine /\ UNCHANGED writers
         /\ disturbed' \in BOOLEAN
         /\ disturbed => disturbed'
<1>1. CASE \E w \in Writers : AppendNewline(w) /\ UNCHANGED <<reader, disturbed>>
  BY <1>1 DEF Writing, TypeOK
<1>2. CASE EndRead /\ UNCHANGED <<writers, disturbed>>
  BY <1>2 DEF TypeOK
<1>3. CASE /\ \/ (\E w \in Writers : Write(w) \/ Kill(w)) /\ UNCHANGED reader
              \/ (Sync \/ ReadLine) /\ UNCHANGED writers
           /\ disturbed' = (disturbed \/ between # {})
  <2>1. disturbed' \in BOOLEAN /\ (disturbed => disturbed')
    BY <1>3 DEF TypeOK
  <2> QED BY <1>3, <2>1 DEF Writing
<1> QED BY <1>1, <1>2, <1>3 DEF Next

LEMMA Inductive == IInv /\ [Next]_vars => IInv'
<1> SUFFICES ASSUME IInv, [Next]_vars PROVE IInv'
  OBVIOUS
<1>1. CASE Next
  <2>1. disturbed' \in BOOLEAN
    BY <1>1, Steps DEF IInv
  <2>2. CASE Writing /\ UNCHANGED reader
    <3>1. Grows /\ Shape'
      BY <2>2, WriteGrows, WriteShape DEF IInv
    <3> QED BY <2>1, <2>2, <3>1, GrowsKeeps DEF IInv
  <2>3. CASE EndRead /\ UNCHANGED <<writers, disturbed>>
    <3>1. Shape'
      BY <2>3 DEF IInv, Shape, writers
    <3> QED BY <2>3, <3>1, EndKeeps DEF IInv
  <2>4. CASE Sync /\ UNCHANGED writers
    <3>1. Shape'
      BY <2>4 DEF IInv, Shape, writers
    <3> QED BY <2>1, <2>4, <3>1, SyncKeeps DEF IInv
  <2>5. CASE ReadLine /\ UNCHANGED writers
    <3>1. Shape'
      BY <2>5 DEF IInv, Shape, writers
    <3> QED BY <2>1, <2>5, <3>1, ReadKeeps DEF IInv
  <2> QED BY <1>1, <2>2, <2>3, <2>4, <2>5, Steps DEF IInv
<1>2. CASE UNCHANGED vars
  <2>1. UNCHANGED <<file, written, between, kills, synced, cursor, position,
                    skipped, delivered, reported, raced, disturbed>>
    BY <1>2 DEF vars, writers, reader, results
  <2>2. TypeOK' /\ Shape'
    BY <2>1 DEF IInv, TypeOK, Shape
  <2>3. Place' /\ Near'
    BY <2>1 DEF IInv, Place, Near
  <2>4. IntactIsDelivered' /\ LossIsReported'
    BY <2>1 DEF IInv, IntactIsDelivered, LossIsReported, Whole, IsNewline
  <2> QED BY <2>2, <2>3, <2>4 DEF IInv
<1> QED BY <1>1, <1>2

LEMMA Initial == Init => IInv
<1> SUFFICES ASSUME Init PROVE IInv
  OBVIOUS
<1>1. /\ file = <<>> /\ Len(file) = 0 /\ cursor = 0 /\ position = 0
      /\ TextLen \in Nat /\ TextLen > 1
  BY BoundsAssumption DEF Init
<1>2. TypeOK
  <2>1. file \in Seq(Bytes)
    BY <1>1
  <2>2. 0 \in 0..MaxEvents /\ 0 \in 0..MaxKills
    BY BoundsAssumption
  <2>3. /\ written \in 0..MaxEvents /\ kills \in 0..MaxKills
        /\ synced \in BOOLEAN /\ raced \in BOOLEAN /\ disturbed \in BOOLEAN
    BY <2>2 DEF Init
  <2>4. between = {} /\ skipped = {} /\ delivered = {} /\ reported = {}
    BY DEF Init
  <2>5. cursor \in 0..Len(file) + TextLen - 1 /\ position \in cursor..cursor + TextLen - 1
    BY <1>1
  <2> QED BY <2>1, <2>3, <2>4, <2>5 DEF TypeOK
<1>3. Shape /\ Place /\ Near
  BY <1>1 DEF Init, Shape, Place, Near
<1>4. IntactIsDelivered /\ LossIsReported
  BY <1>1 DEF IntactIsDelivered, LossIsReported
<1> QED BY <1>2, <1>3, <1>4 DEF IInv

LEMMA AlwaysIInv == Spec => []IInv
<1> QED BY Initial, Inductive, PTL DEF Spec

\* What the next line gives comes after all that was read, or skipped.
LEMMA Forward == IInv => ReadsGoForward
<1> SUFFICES ASSUME IInv, NEW end \in cursor..Len(file), NEW e \in 1..written,
                    Parses(end, e), NEW d \in delivered \cup skipped
             PROVE  d < e
  BY DEF ReadsGoForward
<1>1. cursor \in Nat /\ Len(file) \in Nat /\ TextLen \in Nat /\ TextLen > 1
  BY BoundsAssumption DEF IInv, TypeOK
<1>2. PICK i \in 1..Len(file) : i <= cursor /\ file[i] = Byte(d, TextLen)
  BY DEF IInv, Place
<1>3. end \in 1..Len(file) /\ i < end /\ file[end] = Byte(e, TextLen)
  BY <1>1, <1>2 DEF Parses
<1>4. file[i].part = TextLen /\ file[i].event = d
  BY <1>2 DEF Byte
<1>5. file[end].part = TextLen /\ file[end].event = e
  BY <1>3 DEF Byte
<1> QED BY <1>3, <1>4, <1>5 DEF IInv, Shape

\* The file, the offset and the sets of events keep their types: the offset is
\* always less than a text ahead of the end of the file.
THEOREM TypeCorrect == Spec => []TypeOK
<1>1. IInv => TypeOK
  BY DEF IInv
<1> QED BY <1>1, AlwaysIInv, PTL

\* No event is read twice or after a later one, whoever appends, however the
\* two writes of a line are interleaved with reads and other appends, and
\* whoever is killed between them.
THEOREM NothingReadTwice == Spec => []ReadsGoForward
<1> QED BY Forward, AlwaysIInv, PTL

\* An event alone on its line reaches the loop, whatever happens around it, if
\* no read went on after an unfinished line.
THEOREM IntactReachesLoop == Spec => []IntactIsDelivered
<1>1. IInv => IntactIsDelivered
  BY DEF IInv
<1> QED BY <1>1, AlwaysIInv, PTL

\* An event that is lost was in a line reported as malformed.
THEOREM NoSilentLoss == Spec => []LossIsReported
<1>1. IInv => LossIsReported
  BY DEF IInv
<1> QED BY <1>1, AlwaysIInv, PTL

-----------------------------------------------------------------------------
(* Lines that are not disturbed *)

\* The events up to c were taken, and the cursor is just after them.
TakenTo(c) ==
  /\ delivered \cup skipped = 1..c
  /\ \A i \in 1..Len(file) :
       file[i].part = TextLen => (i <= cursor <=> file[i].event <= c)

\* Every text but the last is followed by its newline, and the last one too
\* unless its writer is about to write it; every event is in the file; and the
\* reader is between two lines.
Even ==
  ~disturbed =>
    /\ \A i \in 1..Len(file) : file[i].part = TextLen =>
         IF i = Len(file) THEN between # {} ELSE IsNewline(i + 1)
    /\ \A e \in 1..written : \E i \in 1..Len(file) :
         file[i].part = TextLen /\ file[i].event = e
    /\ position = cursor /\ cursor \in 0..Len(file)
    /\ cursor > 0 => IsNewline(cursor)
    /\ \E c \in 0..written : TakenTo(c)

LEMMA EvenAtFirst == Init => Even
<1> SUFFICES ASSUME Init PROVE Even
  OBVIOUS
<1>1. /\ file = <<>> /\ Len(file) = 0 /\ cursor = 0 /\ position = 0 /\ written = 0
      /\ delivered \cup skipped = {}
  BY DEF Init
<1>2. TakenTo(0)
  BY <1>1 DEF TakenTo
<1> QED BY <1>1, <1>2 DEF Even

LEMMA EvenWrite ==
  ASSUME IInv, Even, NEW w \in Writers, Write(w), UNCHANGED reader,
         disturbed' = (disturbed \/ between # {})
  PROVE  Even'
<1> DEFINE n == Len(file)
<1> SUFFICES ASSUME ~disturbed'
             PROVE  Even'
  BY DEF Even
<1>0. ~disturbed /\ between = {}
  BY Zenon
<1>1. /\ n \in Nat /\ written \in Nat /\ TextLen \in Nat /\ TextLen > 1
      /\ cursor' = cursor /\ position' = position
      /\ delivered' = delivered /\ skipped' = skipped
      /\ ~disturbed /\ between = {}
  BY <1>0, BoundsAssumption DEF IInv, TypeOK, reader, results
<1>2. /\ Grows /\ written' = written + 1
      /\ Len(file') \in {n + TextLen, n + TextLen + 1}
      /\ \A k \in 1..TextLen : file'[n + k] = Byte(written', k)
      /\ Len(file') = n + TextLen + 1 => file'[n + TextLen + 1] = Newline
  BY TextAppended DEF IInv
<1>3. \A i \in 1..n : i \in 1..Len(file') /\ file'[i] = file[i]
  BY <1>1, <1>2 DEF Grows
<1>4. n + TextLen \in 1..Len(file')
  BY <1>1, <1>2
<1>5. file'[n + TextLen].part = TextLen /\ file'[n + TextLen].event = written + 1
  <2>1. TextLen \in 1..TextLen
    BY <1>1
  <2>2. file'[n + TextLen] = Byte(written', TextLen)
    BY <1>2, <2>1
  <2> QED BY <2>2, <1>2 DEF Byte
<1>6. \A i \in 1..Len(file') : file'[i].part = TextLen => i \in 1..n \/ i = n + TextLen
  <2> SUFFICES ASSUME NEW i \in 1..Len(file'), file'[i].part = TextLen, i \notin 1..n
               PROVE  i = n + TextLen
    OBVIOUS
  <2>1. i >= n + TextLen
    <3>1. i > n
      BY <1>1
    <3> QED BY <1>2, <3>1 DEF Grows
  <2>2. i # n + TextLen + 1 \/ Len(file') # n + TextLen + 1
    BY <1>1, <1>2, NewlineType
  <2> QED BY <2>1, <2>2, <1>1, <1>2
<1>7. Len(file') = n + TextLen => between' # {}
  <2>1. CASE AppendText(w)
    BY <2>1 DEF AppendText
  <2>2. CASE AppendLine(w)
    <3> DEFINE t == Text(written')
    <3>1. written' \in 1..MaxEvents
      BY <1>1, <1>2 DEF Grows
    <3>2. t \in Seq(Bytes) /\ Len(t) = TextLen /\ Newline \in Bytes
      BY <3>1, TextType, NewlineType
    <3>3. file' = Append(file \o t, Newline)
      BY <2>2 DEF AppendLine
    <3> HIDE DEF t
    <3>4. file \o t \in Seq(Bytes) /\ Len(file \o t) = n + TextLen
      BY <3>2, <1>1 DEF IInv, TypeOK
    <3>5. Len(file') = n + TextLen + 1
      BY <3>2, <3>3, <3>4
    <3> QED BY <3>5, <1>1
  <2> QED BY <2>1, <2>2 DEF Write
<1>8. ASSUME NEW i \in 1..Len(file'), file'[i].part = TextLen
      PROVE  IF i = Len(file') THEN between' # {} ELSE file'[i + 1].part = 0
  <2>1. CASE i \in 1..n
    <3>1. i # n /\ file[i + 1].part = 0
      BY <2>1, <1>1, <1>3, <1>8 DEF Even, IsNewline
    <3>2. i + 1 \in 1..n /\ i # Len(file')
      BY <2>1, <3>1, <1>1, <1>2
    <3> QED BY <3>1, <3>2, <1>3
  <2>2. CASE i = n + TextLen
    <3>1. CASE Len(file') = n + TextLen
      BY <2>2, <3>1, <1>7
    <3>2. CASE Len(file') = n + TextLen + 1
      BY <2>2, <3>2, <1>1, <1>2, NewlineType
    <3> QED BY <3>1, <3>2, <1>2
  <2> QED BY <2>1, <2>2, <1>6, <1>8
<1>9. ASSUME NEW e \in 1..written'
      PROVE  \E i \in 1..Len(file') : file'[i].part = TextLen /\ file'[i].event = e
  <2>1. CASE e = written + 1
    BY <2>1, <1>4, <1>5
  <2>2. CASE e \in 1..written
    <3>1. PICK i \in 1..n : file[i].part = TextLen /\ file[i].event = e
      BY <2>2, <1>1 DEF Even
    <3> QED BY <3>1, <1>3
  <2> QED BY <2>1, <2>2, <1>1, <1>2
<1>10. position' = cursor' /\ cursor' \in 0..n /\ cursor' \in 0..Len(file')
  <2>1. position = cursor /\ cursor \in 0..n
    BY <1>1 DEF Even
  <2> QED BY <2>1, <1>1, <1>2
<1>11. cursor' > 0 => file'[cursor'].part = 0
  <2>1. cursor > 0 => cursor \in 1..n /\ file[cursor].part = 0
    BY <1>1, <1>10 DEF Even, IsNewline
  <2> QED BY <2>1, <1>1, <1>3
<1>12. \E c \in 0..written' : TakenTo(c)'
  <2>1. PICK c \in 0..written : TakenTo(c)
    BY <1>1 DEF Even
  <2>2. c \in 0..written'
    BY <1>1, <1>2
  <2>3. ASSUME NEW i \in 1..Len(file'), file'[i].part = TextLen
        PROVE  i <= cursor' <=> file'[i].event <= c
    <3>1. CASE i \in 1..n
      BY <3>1, <2>1, <2>3, <1>1, <1>3 DEF TakenTo
    <3>2. CASE i = n + TextLen
      <4>1. ~(i <= cursor')
        BY <3>2, <1>1, <1>10
      <4>2. ~(file'[i].event <= c)
        BY <3>2, <1>1, <1>5
      <4> QED BY <4>1, <4>2
    <3> QED BY <3>1, <3>2, <2>3, <1>6
  <2>4. delivered' \cup skipped' = 1..c
    BY <2>1, <1>1 DEF TakenTo
  <2> QED BY <2>2, <2>3, <2>4 DEF TakenTo
<1> QED BY <1>8, <1>9, <1>10, <1>11, <1>12 DEF Even, IsNewline

\* A newline, or nothing, is appended.
LEMMA EvenNewline ==
  ASSUME IInv, Even, NEW w \in Writers, AppendNewline(w), UNCHANGED <<reader, disturbed>>
  PROVE  Even'
<1> DEFINE n == Len(file)
<1> SUFFICES ASSUME ~disturbed'
             PROVE  Even'
  BY DEF Even
<1>1. /\ n \in Nat /\ written \in Nat /\ TextLen \in Nat /\ TextLen > 1
      /\ cursor' = cursor /\ position' = position
      /\ delivered' = delivered /\ skipped' = skipped /\ ~disturbed
  BY BoundsAssumption DEF IInv, TypeOK, reader, results
<1>2. /\ Grows /\ written' = written /\ Len(file') = n + 1 /\ file'[n + 1].part = 0
  BY NewlineAppended, NewlineType DEF IInv
<1>3. \A i \in 1..n : i \in 1..Len(file') /\ file'[i] = file[i]
  BY <1>1, <1>2 DEF Grows
<1>4. \A i \in 1..Len(file') : file'[i].part = TextLen => i \in 1..n /\ i # Len(file')
  BY <1>1, <1>2
<1>5. ASSUME NEW i \in 1..Len(file'), file'[i].part = TextLen
      PROVE  IF i = Len(file') THEN between' # {} ELSE file'[i + 1].part = 0
  <2>1. i \in 1..n /\ i # Len(file')
    BY <1>4, <1>5
  <2>2. CASE i = n
    BY <2>1, <2>2, <1>2
  <2>3. CASE i # n
    <3>1. file[i + 1].part = 0 /\ i + 1 \in 1..n
      BY <2>1, <2>3, <1>1, <1>3, <1>5 DEF Even, IsNewline
    <3> QED BY <2>1, <3>1, <1>3
  <2> QED BY <2>2, <2>3
<1>6. \A e \in 1..written' : \E i \in 1..Len(file') :
        file'[i].part = TextLen /\ file'[i].event = e
  BY <1>1, <1>2, <1>3 DEF Even
<1>7. position' = cursor' /\ cursor' \in 0..n /\ cursor' \in 0..Len(file')
  <2>1. position = cursor /\ cursor \in 0..n
    BY <1>1 DEF Even
  <2> QED BY <2>1, <1>1, <1>2
<1>8. cursor' > 0 => file'[cursor'].part = 0
  <2>1. cursor > 0 => cursor \in 1..n /\ file[cursor].part = 0
    BY <1>1, <1>7 DEF Even, IsNewline
  <2> QED BY <2>1, <1>1, <1>3
<1>9. \E c \in 0..written' : TakenTo(c)'
  <2>1. PICK c \in 0..written : TakenTo(c)
    BY <1>1 DEF Even
  <2>2. \A i \in 1..Len(file') :
          file'[i].part = TextLen => (i <= cursor' <=> file'[i].event <= c)
    BY <2>1, <1>1, <1>3, <1>4 DEF TakenTo
  <2>3. delivered' \cup skipped' = 1..c
    BY <2>1, <1>1 DEF TakenTo
  <2> QED BY <2>2, <2>3, <1>2 DEF TakenTo
<1> QED BY <1>5, <1>6, <1>7, <1>8, <1>9 DEF Even, IsNewline

\* A file without unfinished text ends with a newline.
LEMMA EndsWithNewline ==
  ASSUME IInv, Even, ~disturbed, between = {}, Len(file) > 0
  PROVE  file[Len(file)].part = 0
<1>1. Len(file) \in 1..Len(file) /\ file[Len(file)].part \in {0, TextLen}
  BY LastByte DEF IInv
<1> QED BY <1>1 DEF Even

LEMMA EvenSync ==
  ASSUME IInv, Even, Sync, UNCHANGED writers, disturbed' = (disturbed \/ between # {})
  PROVE  Even'
<1> DEFINE n == Len(file)
<1> SUFFICES ASSUME ~disturbed'
             PROVE  Even'
  BY DEF Even
<1>0. ~disturbed /\ between = {}
  BY Zenon
<1>1. /\ n \in Nat /\ written \in Nat
      /\ cursor' = n /\ position' = n /\ skipped' = EndingIn(1..n) /\ delivered' = {}
      /\ file' = file /\ written' = written /\ between' = between
      /\ ~disturbed /\ between = {}
  BY <1>0 DEF Sync, IInv, TypeOK, Place, writers
<1>2. skipped' = 1..written
  <2>1. skipped' \subseteq 1..written
    BY <1>1, EndingInType DEF IInv
  <2>2. 1..written \subseteq skipped'
    BY <1>1 DEF Even, EndingIn
  <2> QED BY <2>1, <2>2
<1>3. TakenTo(written)'
  <2>1. \A i \in 1..n : file[i].part = TextLen => i <= n /\ file[i].event <= written
    <3> SUFFICES ASSUME NEW i \in 1..n, file[i].part = TextLen
                 PROVE  i <= n /\ file[i].event <= written
      OBVIOUS
    <3>1. file[i].part # 0
      BY BoundsAssumption
    <3> QED BY <3>1, <1>1 DEF IInv, Shape
  <2> QED BY <2>1, <1>1, <1>2 DEF TakenTo
<1>4. cursor' > 0 => file'[cursor'].part = 0
  BY <1>1, EndsWithNewline
<1>5. written \in 0..written'
  BY <1>1
<1> QED BY <1>1, <1>3, <1>4, <1>5 DEF Even, IsNewline

LEMMA EvenRead ==
  ASSUME IInv, Even, ReadLine, UNCHANGED writers, disturbed' = (disturbed \/ between # {})
  PROVE  Even'
<1> DEFINE n == Len(file)
<1> SUFFICES ASSUME ~disturbed'
             PROVE  Even'
  BY DEF Even
<1>1. PICK end \in cursor..n :
        /\ IsLine(end)
        /\ cursor' = IF end < n THEN end + 1 ELSE end
        /\ position' = position + LineBytes(end)
        /\ delivered' = delivered \cup {e \in 1..written : Parses(end, e)}
  BY DEF ReadLine
<1>0. ~disturbed /\ between = {}
  BY Zenon
<1>2. /\ n \in Nat /\ cursor \in Nat /\ cursor < n /\ end \in Nat /\ cursor <= end /\ end <= n
      /\ written \in Nat /\ TextLen \in Nat /\ TextLen > 1
      /\ ~disturbed /\ between = {} /\ between' = between
      /\ file' = file /\ written' = written /\ skipped' = skipped
  <2>1. /\ n \in Nat /\ cursor \in Nat /\ cursor < n /\ written \in Nat
        /\ TextLen \in Nat /\ TextLen > 1
    BY BoundsAssumption DEF ReadLine, IInv, TypeOK
  <2>2. end \in Nat /\ cursor <= end /\ end <= n
    BY <2>1
  <2>3. /\ between' = between /\ file' = file /\ written' = written
        /\ skipped' = skipped
    BY DEF ReadLine, writers
  <2> QED BY <1>0, <2>1, <2>2, <2>3
<1>3. /\ \A i \in cursor + 1..end : ~IsNewline(i)
      /\ end < n => IsNewline(end + 1)
  BY <1>1 DEF IsLine
<1>4. end < n
  <2>1. file[n].part = 0
    BY <1>2, EndsWithNewline
  <2>2. end = n => n \in cursor + 1..end
    BY <1>2
  <2> QED BY <2>1, <2>2, <1>2, <1>3 DEF IsNewline
<1>5. cursor' = end + 1 /\ position' = cursor' /\ file[end + 1].part = 0
  <2>1. position = cursor
    BY <1>2 DEF Even
  <2> QED BY <2>1, <1>1, <1>2, <1>3, <1>4 DEF LineBytes, IsNewline
<1>6. PICK c \in 0..written : TakenTo(c)
  BY <1>2 DEF Even
<1>7. CASE end = cursor
  <2>1. \A e \in 1..written : ~Parses(end, e)
    BY <1>2, <1>7 DEF Parses
  <2>2. delivered' = delivered
    BY <1>1, <2>1
  <2>3. ASSUME NEW i \in 1..n, file[i].part = TextLen
        PROVE  i <= cursor' <=> file[i].event <= c
    <3>1. i # end + 1
      BY <2>3, <1>2, <1>5
    <3>2. i <= cursor' <=> i <= cursor
      BY <3>1, <1>2, <1>5, <1>7
    <3> QED BY <3>2, <2>3, <1>6 DEF TakenTo
  <2>4. TakenTo(c)'
    BY <2>2, <2>3, <1>2, <1>6 DEF TakenTo
  <2>5. cursor' \in 0..n
    BY <1>2, <1>4, <1>5
  <2> QED BY <2>4, <2>5, <1>2, <1>5 DEF Even, IsNewline
<1>8. CASE end # cursor
  <2> DEFINE s == cursor + 1
  <2>1. s \in 1..n /\ s \in cursor + 1..end /\ file[s].part # 0
    <3>1. s \in 1..n /\ s \in cursor + 1..end
      BY <1>2, <1>8
    <3> QED BY <3>1, <1>3 DEF IsNewline
  <2>2. file[s].part = 1
    <3>1. file[s].part \in 1..TextLen
      BY <2>1, <1>2, ByteAt DEF IInv
    <3>2. ASSUME file[s].part > 1 PROVE FALSE
      <4> DEFINE b == s - file[s].part
      <4>1. s >= file[s].part /\ \A k \in 1..TextLen : file[b + k] = Byte(file[s].event, k)
        BY <2>1 DEF IInv, Shape
      <4>2. PICK p \in 1..TextLen : p = file[s].part
        BY <3>1
      <4>3. p - 1 \in 1..TextLen /\ b + (p - 1) = cursor
        <5>1. p \in Nat /\ p > 1 /\ p <= TextLen /\ b = s - p
          BY <4>2, <3>2, <1>2
        <5>2. s - p + (p - 1) = cursor
          BY <5>1, <1>2
        <5> QED BY <5>1, <5>2, <1>2
      <4>4. file[cursor] = Byte(file[s].event, p - 1)
        BY <4>1, <4>3
      <4>5. file[cursor].part # 0
        BY <4>3, <4>4 DEF Byte
      <4>6. cursor > 0
        BY <4>1, <4>2, <3>2, <1>2
      <4> QED BY <4>5, <4>6, <1>2 DEF Even, IsNewline
    <3> QED BY <3>1, <3>2
  <2> DEFINE e == file[s].event  z == cursor + TextLen
  <2>3. /\ z \in 1..n /\ e \in 1..written
        /\ \A k \in 1..TextLen : file[cursor + k] = Byte(e, k)
        /\ \A k \in 1..TextLen : file[cursor + k].part = k
    <3>1. s - 1 = cursor /\ s + TextLen - 1 = z
      BY <1>2
    <3> QED BY <3>1, <2>1, <2>2, TextAt DEF IInv
  <2>4. file[z].part = TextLen /\ file[z].event = e
    <3>1. TextLen \in 1..TextLen
      BY <1>2
    <3>2. file[z] = Byte(e, TextLen)
      BY <2>3, <3>1
    <3> QED BY <3>2 DEF Byte
  <2>5. IsNewline(z + 1) /\ z < n
    <3>1. z # n
      BY <2>3, <2>4, <1>2 DEF Even
    <3>2. z < n
      BY <3>1, <2>3, <1>2
    <3>3. z \in 1..Len(file) /\ z # Len(file)
      BY <3>1, <2>3, <1>2
    <3>4. IsNewline(z + 1)
      BY <3>3, <2>4, <1>2 DEF Even
    <3> QED BY <3>2, <3>4
  <2>6. end = z
    <3>1. ASSUME end > z PROVE FALSE
      <4>1. z + 1 \in cursor + 1..end
        BY <3>1, <1>2
      <4> QED BY <4>1, <2>5, <1>3
    <3>2. ASSUME end < z PROVE FALSE
      <4>1. end + 1 - cursor \in 1..TextLen /\ cursor + (end + 1 - cursor) = end + 1
        BY <3>2, <1>2
      <4>2. file[end + 1].part = end + 1 - cursor
        BY <4>1, <2>3
      <4> QED BY <4>1, <4>2, <1>5
    <3> QED BY <3>1, <3>2, <1>2
  <2>7. {d \in 1..written : Parses(end, d)} = {e}
    <3>1. Parses(end, e)
      BY <2>3, <2>6 DEF Parses
    <3>2. ASSUME NEW d \in 1..written, Parses(end, d) PROVE d = e
      <4>1. 1 \in 1..TextLen
        BY <1>2
      <4>2. file[s] = Byte(d, 1)
        BY <3>2, <4>1 DEF Parses
      <4> QED BY <4>2 DEF Byte
    <3> QED BY <3>1, <3>2, <2>3
  <2>8. \A i \in 1..n : file[i].part = TextLen =>
          i <= cursor \/ i = z \/ i > z
    <3> SUFFICES ASSUME NEW i \in 1..n, file[i].part = TextLen, cursor < i, i < z
                 PROVE  FALSE
      BY <1>2
    <3>1. i - cursor \in 1..TextLen /\ cursor + (i - cursor) = i /\ i - cursor # TextLen
      BY <1>2
    <3>2. file[i].part = i - cursor
      BY <3>1, <2>3
    <3> QED BY <3>1, <3>2
  <2>9. e = c + 1
    <3>0. c \in Nat /\ e \in Nat
      BY <1>2, <2>3
    <3>1. e > c
      <4>1. ~(z <= cursor)
        BY <1>2
      <4>2. ~(e <= c)
        BY <4>1, <2>3, <2>4, <1>6 DEF TakenTo
      <4> QED BY <4>2, <3>0
    <3>2. ASSUME e > c + 1 PROVE FALSE
      <4>1. c + 1 \in 1..written
        BY <3>0, <3>2, <2>3, <1>2
      <4>2. PICK i \in 1..n : file[i].part = TextLen /\ file[i].event = c + 1
        BY <4>1, <1>2 DEF Even
      <4>3. ~(i <= cursor)
        BY <4>2, <1>6 DEF TakenTo
      <4>4. i # z
        BY <4>2, <3>2, <2>4
      <4>5. i > z
        BY <4>2, <4>3, <4>4, <2>8
      <4>6. e < c + 1
        BY <4>2, <4>5, <2>3, <2>4 DEF IInv, Shape
      <4> QED BY <4>6, <3>0, <3>2
    <3> QED BY <3>0, <3>1, <3>2
  <2>10. ASSUME NEW i \in 1..n, file[i].part = TextLen
         PROVE  i <= cursor' <=> file[i].event <= e
    <3>0. cursor' = z + 1 /\ file[z + 1].part = 0 /\ i # z + 1
      BY <2>5, <2>6, <2>10, <1>2, <1>5 DEF IsNewline
    <3>1. CASE i <= cursor
      <4>1. file[i].event <= c
        BY <3>1, <2>10, <1>6 DEF TakenTo
      <4>2. file[i].event \in Nat
        BY <2>10, ByteAt, BoundsAssumption DEF IInv
      <4> QED BY <3>0, <3>1, <4>1, <4>2, <2>9, <1>2
    <3>2. CASE i = z
      BY <3>0, <3>2, <2>3, <2>4, <1>2
    <3>3. CASE i > z
      <4>1. e < file[i].event
        BY <3>3, <2>3, <2>4, <2>10 DEF IInv, Shape
      <4>2. file[i].event \in Nat
        BY <2>10, ByteAt, BoundsAssumption DEF IInv
      <4>3. ~(i <= cursor')
        BY <3>0, <3>3, <1>2
      <4> QED BY <4>1, <4>2, <4>3, <2>3
    <3> QED BY <3>1, <3>2, <3>3, <2>8, <2>10
  <2>11. delivered' \cup skipped' = 1..e
    <3>1. delivered' \cup skipped' = (1..c) \cup {e}
      <4>1. delivered' = delivered \cup {e}
        BY <1>1, <2>7
      <4> QED BY <4>1, <1>2, <1>6 DEF TakenTo
    <3>2. c \in Nat /\ e \in Nat
      BY <1>2, <2>3
    <3> QED BY <3>1, <3>2, <2>9
  <2>12. TakenTo(c + 1)'
    <3>1. \A i \in 1..n : file[i].part = TextLen =>
            (i <= cursor' <=> file[i].event <= c + 1)
      BY <2>9, <2>10
    <3>2. delivered' \cup skipped' = 1..c + 1
      BY <2>9, <2>11
    <3> QED BY <3>1, <3>2, <1>2 DEF TakenTo
  <2>13. c + 1 \in 0..written' /\ cursor' \in 0..n
    BY <2>3, <2>9, <1>2, <1>4, <1>5
  <2> QED BY <2>12, <2>13, <1>2, <1>5 DEF Even, IsNewline
<1> QED BY <1>7, <1>8

LEMMA EvenKill ==
  ASSUME IInv, Even, NEW w \in Writers, Kill(w), disturbed' = (disturbed \/ between # {})
  PROVE  disturbed'
  BY DEF Kill

LEMMA EvenEnd ==
  ASSUME IInv, Even, EndRead, UNCHANGED <<writers, disturbed>>
  PROVE  Even'
<1> SUFFICES ASSUME ~disturbed PROVE Even'
  BY DEF Even
<1>1. /\ cursor' = cursor /\ position' = position
      /\ delivered' = delivered /\ skipped' = skipped /\ disturbed' = disturbed
      /\ file' = file /\ written' = written /\ between' = between
  BY DEF EndRead, writers, results, Even
<1> QED BY <1>1 DEF Even, TakenTo, IsNewline

LEMMA EvenAlways == IInv /\ Even /\ [Next]_vars => Even'
<1> SUFFICES ASSUME IInv, Even, [Next]_vars PROVE Even'
  OBVIOUS
<1>1. CASE \E w \in Writers : AppendNewline(w) /\ UNCHANGED <<reader, disturbed>>
  BY <1>1, EvenNewline
<1>2. CASE EndRead /\ UNCHANGED <<writers, disturbed>>
  BY <1>2, EvenEnd
<1>3. CASE /\ \/ (\E w \in Writers : Write(w) \/ Kill(w)) /\ UNCHANGED reader
              \/ (Sync \/ ReadLine) /\ UNCHANGED writers
           /\ disturbed' = (disturbed \/ between # {})
  <2>1. CASE \E w \in Writers : Write(w) /\ UNCHANGED reader
    BY <1>3, <2>1, EvenWrite
  <2>2. CASE \E w \in Writers : Kill(w)
    <3>1. disturbed'
      BY <1>3, <2>2, EvenKill
    <3> QED BY <3>1 DEF Even
  <2>3. CASE Sync /\ UNCHANGED writers
    BY <1>3, <2>3, EvenSync
  <2>4. CASE ReadLine /\ UNCHANGED writers
    BY <1>3, <2>4, EvenRead
  <2> QED BY <1>3, <2>1, <2>2, <2>3, <2>4
<1>4. CASE UNCHANGED vars
  <2>1. UNCHANGED <<file, written, between, cursor, position, skipped, delivered, disturbed>>
    BY <1>4 DEF vars, writers, reader, results
  <2> QED BY <2>1 DEF Even, TakenTo, IsNewline
<1> QED BY <1>1, <1>2, <1>3, <1>4 DEF Next

\* Until something happens between the two writes of a line, every step of the
\* file is a step of the abstract channel: an event is appended, or the next
\* ones are handed over.
THEOREM UndisturbedIsChannel == Spec => ChannelUntilDisturbed
<1>1. IInv /\ IInv' /\ Even' /\ [Next]_vars
        => [~disturbed' => [Channel!Next]_<<written, delivered \cup skipped>>]_vars
  <2> SUFFICES ASSUME IInv, IInv', Even', Next, ~disturbed'
               PROVE  Channel!Next \/ UNCHANGED <<written, delivered \cup skipped>>
    BY DEF Channel!Next
  <2>1. PICK c \in 0..written' : delivered' \cup skipped' = 1..c
    BY DEF Even, TakenTo
  <2>2. CASE Writing /\ UNCHANGED reader
    <3>1. delivered' \cup skipped' = delivered \cup skipped
      BY <2>2 DEF reader, results
    <3>2. written' = written \/ written' = written + 1
      BY <2>2, TextAppended, NewlineAppended, KillChanges DEF Writing, IInv
    <3> QED BY <3>1, <3>2 DEF Channel!Next, Channel!Put
  <2>3. CASE EndRead /\ UNCHANGED <<writers, disturbed>>
    <3>1. delivered' = delivered /\ skipped' = skipped /\ written' = written
      BY <2>3 DEF EndRead, writers, results
    <3> QED BY <3>1
  <2>4. CASE (Sync \/ ReadLine) /\ UNCHANGED writers
    <3>1. written' = written
      BY <2>4 DEF writers
    <3>2. delivered \cup skipped \subseteq delivered' \cup skipped'
      <4>1. CASE Sync
        <5>1. delivered \cup skipped = {}
          BY <4>1 DEF Sync, IInv, Place
        <5> QED BY <5>1
      <4>2. CASE ReadLine
        <5>1. delivered \subseteq delivered' /\ skipped' = skipped
          BY <4>2 DEF ReadLine
        <5> QED BY <5>1
      <4> QED BY <2>4, <4>1, <4>2
    <3>3. Channel!Take
      BY <2>1, <3>1, <3>2 DEF Channel!Take
    <3> QED BY <3>3 DEF Channel!Next
  <2> QED BY <2>2, <2>3, <2>4, Steps DEF IInv
<1> QED BY <1>1, Initial, Inductive, EvenAtFirst, EvenAlways, PTL
    DEF Spec, ChannelUntilDisturbed
=============================================================================

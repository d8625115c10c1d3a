-------------------------- MODULE LogBuffer_proofs --------------------------
(***************************************************************************)
(* Theorems about the log, for every buffer, threshold and file size, any  *)
(* number of lines, either core logging, flushing and cutting at any       *)
(* moment, resets and files that do not open.                              *)
(***************************************************************************)
EXTENDS LogBuffer, Integers, SequenceTheorems, TLAPS

-----------------------------------------------------------------------------
(* The inductive invariant.  Its first part holds also while the cores are *)
(* in each other's way.                                                    *)

FlushPlaces == {"flush", "empty", "size", "trim", "rewrite", "print"}

PlaceTypes ==
    /\ lines \in 0 .. MaxLines
    /\ overlapped \in BOOLEAN /\ lost \in BOOLEAN /\ uncut \in BOOLEAN
    /\ pc \in [Cores -> Places]
    /\ back \in [Cores -> {"away", "room"}]
    /\ \A c \in Cores : back[c] = "room" => pc[c] \in FlushPlaces

(* A line is kept until it is in the buffer, or was left out.              *)
LineTypes ==
    /\ msg \in [Cores -> 0 .. MaxLines]
    /\ \A c \in Cores : msg[c] > 0 => pc[c] \in {"check", "room", "copy", "threshold"}
                                              \/ back[c] = "room"

DataTypes ==
    /\ log_buffer \in [0 .. LOG_BUFFER_SIZE - 1 -> 0 .. MaxLines]
    /\ file \in Seq(0 .. MaxLines)
    /\ kept \in [Cores -> Seq(0 .. MaxLines)]
    /\ \A c \in Cores : Len(kept[c]) < LOG_TRUNCATE_SIZE

(* The core is adding a line, which may yet lengthen the buffer.           *)
Adds(c) ==
    \/ pc[c] \in {"check", "room", "copy", "load", "grow"}
    \/ back[c] = "room"

Due(c) == IF c \in Cores /\ Adds(c) THEN 1 ELSE 0
DueLines == Due(0) + Due(1)

(* No length, in memory or loaded by a core, is ever more than what was    *)
(* logged and is not still to be added, however the loads and stores of    *)
(* the two cores mix.                                                      *)
LengthInv ==
    /\ log_buffer_len \in Nat
    /\ log_buffer_len + DueLines <= lines
    /\ loaded \in [Cores -> Nat]
    /\ \A c \in Cores : loaded[c] + DueLines <= lines

RacyInv == PlaceTypes /\ LineTypes /\ DataTypes /\ LengthInv

-----------------------------------------------------------------------------
(* The second part is about one core that has the log for itself.          *)

Alone(c) == \A d \in Cores \ {c} : pc[d] = "away"

(* The lines up to this one, each once and in order.                       *)
EndsAt(s, last) == \A i \in 1 .. Len(s) : s[i] = last - (Len(s) - i)

BufferEnds(last) ==
    \A i \in 1 .. log_buffer_len : log_buffer[i - 1] = last - (log_buffer_len - i)

LogEnds(last) == BufferEnds(last) /\ EndsAt(file, last - log_buffer_len)

(* What the log holds at each place of that core.                          *)
Contents(c) ==
    /\ pc[c] \in {"away", "threshold", "flush"} => LogEnds(lines)
    /\ pc[c] \in {"check", "room", "copy"} => LogEnds(lines - 1) /\ msg[c] = lines
    /\ pc[c] \in {"load", "grow"} => LogEnds(lines - 1) /\ log_buffer[log_buffer_len] = lines
    /\ pc[c] \in {"empty", "size", "trim", "rewrite"} => EndsAt(file, lines)
    /\ pc[c] \in {"rewrite", "print"} => EndsAt(kept[c], lines)

(* How long buffer and file are there: every flush leaves the buffer       *)
(* empty, so that no line finds it full.                                   *)
Lengths(c) ==
    /\ back[c] = "away"
    /\ pc[c] = "grow" => loaded[c] = log_buffer_len
    /\ pc[c] \in {"away", "check", "room", "copy", "load", "grow"}
            => log_buffer_len < LOG_FLUSH_THRESHOLD
    /\ pc[c] \in {"threshold", "flush", "empty"} => log_buffer_len <= LOG_FLUSH_THRESHOLD
    /\ pc[c] \in {"size", "trim", "rewrite", "print"} => log_buffer_len = 0
    /\ pc[c] = "print" => file = <<>>
    /\ pc[c] \notin {"empty", "size", "trim", "rewrite"}
            => uncut \/ Len(file) <= MAX_LOG_FILE_SIZE

CalmInv ==
    ~overlapped => \E c \in Cores : Alone(c) /\ Lengths(c) /\ (~lost => Contents(c))

LogInv == RacyInv /\ CalmInv

(* Nothing was logged yet.                                                 *)
LEMMA InitLogInv == Init => LogInv
  <1> SUFFICES ASSUME Init PROVE LogInv  OBVIOUS
  <1> USE DEF Init
  <1>0. /\ {LOG_BUFFER_SIZE, LOG_FLUSH_THRESHOLD, MAX_LOG_FILE_SIZE, LOG_TRUNCATE_SIZE,
            MaxLines} \subseteq Nat \ {0}
        /\ 1 \in Cores
    BY LogAssumption
  <1>1. PlaceTypes
    <2>1. lines \in 0 .. MaxLines  BY <1>0
    <2>3. overlapped \in BOOLEAN /\ lost \in BOOLEAN /\ uncut \in BOOLEAN  BY Zenon
    <2>2. /\ pc \in [Cores -> Places] /\ back \in [Cores -> {"away", "room"}]
          /\ \A c \in Cores : back[c] = "away"
      BY DEF Places
    <2> QED  BY <2>1, <2>2, <2>3 DEF PlaceTypes
  <1>2. LineTypes  BY <1>0 DEF LineTypes
  <1>3. DataTypes  BY <1>0 DEF DataTypes
  <1>4. DueLines = 0  BY DEF DueLines, Due, Adds
  <1>5. LengthInv  BY <1>4 DEF LengthInv
  <1>6. Alone(1) /\ Contents(1) /\ Lengths(1)
    BY <1>0 DEF Alone, Contents, Lengths, LogEnds, BufferEnds, EndsAt
  <1> QED  BY <1>0, <1>1, <1>2, <1>3, <1>5, <1>6 DEF LogInv, RacyInv, CalmInv

-----------------------------------------------------------------------------
(* What holds while the cores are in each other's way.                     *)

(* A core that goes to another place takes only itself there.              *)
LEMMA Moves ==
    ASSUME PlaceTypes, NEW c \in Cores, NEW from, NEW to \in Places, Goes(c, from, to)
    PROVE  /\ pc[c] = from /\ pc'[c] = to
           /\ pc' \in [Cores -> Places]
           /\ \A d \in Cores \ {c} : pc'[d] = pc[d]
  BY DEF PlaceTypes, Goes

(* How many lines are due before and after a step of one core.             *)
LEMMA DueSum ==
    ASSUME NEW c \in Cores,
           \A d \in Cores \ {c} : pc'[d] = pc[d] /\ back'[d] = back[d]
    PROVE  /\ DueLines \in Nat /\ DueLines' \in Nat
           /\ (Adds(c)' => Adds(c)) => DueLines' <= DueLines
           /\ Adds(c) /\ ~Adds(c)' => DueLines' = DueLines - 1
           /\ DueLines' <= DueLines + 1
  <1>1. c \in {0, 1}  BY LogAssumption
  <1>2. \A d \in Cores \ {c} : Adds(d)' = Adds(d)  BY DEF Adds
  <1>3. CASE c = 0
    <2>1. Due(1)' = Due(1)  BY <1>2, <1>3 DEF Due
    <2>2. Due(0) = (IF Adds(0) THEN 1 ELSE 0) /\ Due(0)' = (IF Adds(0)' THEN 1 ELSE 0)
      BY <1>3 DEF Due
    <2>3. Due(1) \in {0, 1}  BY DEF Due
    <2> QED  BY <1>3, <2>1, <2>2, <2>3 DEF DueLines
  <1>4. CASE c = 1
    <2>1. Due(0)' = Due(0)  BY <1>2, <1>4 DEF Due
    <2>2. Due(1) = (IF Adds(1) THEN 1 ELSE 0) /\ Due(1)' = (IF Adds(1)' THEN 1 ELSE 0)
      BY <1>4 DEF Due
    <2>3. Due(0) \in {0, 1}  BY DEF Due
    <2> QED  BY <1>4, <2>1, <2>2, <2>3 DEF DueLines
  <1> QED  BY <1>1, <1>3, <1>4

(* Every step of a core, by where it takes it.                             *)
LEMMA StepOutline ==
    ASSUME PlaceTypes, NEW c \in Cores, Step(c)
    PROVE  /\ PlaceTypes'
           /\ \A d \in Cores \ {c} : pc'[d] = pc[d] /\ back'[d] = back[d]
           /\ Adds(c)' => Adds(c) \/ logMessage(c)
  <1>0. /\ pc \in [Cores -> Places] /\ back \in [Cores -> {"away", "room"}]
        /\ \A d \in Cores : back[d] = "room" => pc[d] \in FlushPlaces
        /\ lines \in 0 .. MaxLines /\ MaxLines \in Nat
        /\ overlapped \in BOOLEAN /\ lost \in BOOLEAN /\ uncut \in BOOLEAN
    BY LogAssumption DEF PlaceTypes
  <1>1. ASSUME NEW p \in Places, NEW q \in Places, Goes(c, p, q), back' = back,
               lines' \in 0 .. MaxLines, overlapped' \in BOOLEAN, lost' \in BOOLEAN,
               uncut' \in BOOLEAN,
               p \in FlushPlaces => q \in FlushPlaces,
               q \in {"check", "room", "copy", "load", "grow"}
                    => p \in {"check", "room", "copy", "load", "grow"} \/ logMessage(c)
        PROVE  /\ PlaceTypes'
               /\ \A d \in Cores \ {c} : pc'[d] = pc[d] /\ back'[d] = back[d]
               /\ Adds(c)' => Adds(c) \/ logMessage(c)
    BY <1>0, <1>1 DEF Goes, PlaceTypes, Adds
  <1>2. ASSUME NEW p \in Places, NEW b \in {"away", "room"}, Flushes(c, p, b),
               UNCHANGED <<lines, lost, uncut>>, overlapped' \in BOOLEAN,
               b = "room" => p = "check"
        PROVE  /\ PlaceTypes'
               /\ \A d \in Cores \ {c} : pc'[d] = pc[d] /\ back'[d] = back[d]
               /\ Adds(c)' => Adds(c) \/ logMessage(c)
    BY <1>0, <1>2 DEF Flushes, Goes, PlaceTypes, Adds, FlushPlaces, Places
  <1>3. ASSUME NEW p \in FlushPlaces, Returns(c, p),
               UNCHANGED <<lines, overlapped>>, lost' \in BOOLEAN, uncut' \in BOOLEAN
        PROVE  /\ PlaceTypes'
               /\ \A d \in Cores \ {c} : pc'[d] = pc[d] /\ back'[d] = back[d]
               /\ Adds(c)' => Adds(c) \/ logMessage(c)
    BY <1>0, <1>3 DEF Returns, Goes, PlaceTypes, Adds, FlushPlaces, Places
  <1> USE <1>0 DEF Places, FlushPlaces, history
  <1>4. CASE logMessage(c)
    BY <1>1, <1>4 DEF logMessage, Enters
  <1>5. CASE CheckSpace(c)
    BY <1>1, <1>2, <1>5 DEF CheckSpace
  <1>6. CASE CheckRoom(c) \/ CopyText(c) \/ LoadLength(c) \/ GrowLength(c)
    BY <1>1, <1>6 DEF CheckRoom, CopyText, LoadLength, GrowLength
  <1>7. CASE CheckThreshold(c)
    BY <1>1, <1>2, <1>7 DEF CheckThreshold
  <1>8. CASE \/ FlushNothing(c) \/ FlushFails(c) \/ TrimWrite(c)
             \/ CheckSizeFails(c) \/ TrimReadFails(c) \/ TrimOpenFails(c)
    BY <1>3, <1>8 DEF FlushNothing, FlushFails, TrimWrite, CheckSizeFails, TrimReadFails,
                      TrimOpenFails, Leaves
  <1>9. CASE FlushWrite(c) \/ FlushEmpty(c) \/ TrimOpen(c)
    BY <1>1, <1>9 DEF FlushWrite, FlushEmpty, TrimOpen
  <1>10. CASE CheckSize(c)
    BY <1>1, <1>3, <1>10 DEF CheckSize
  <1>11. CASE TrimRead(c)
    BY <1>1, <1>3, <1>11 DEF TrimRead
  <1>12. CASE flush_log_buffer_if_due(c)
    BY <1>2, <1>12 DEF flush_log_buffer_if_due, Enters
  <1> QED
    BY <1>4, <1>5, <1>6, <1>7, <1>8, <1>9, <1>10, <1>11, <1>12 DEF Step

(* No step adds a line twice to a length.                                  *)
LEMMA StepLengthInv ==
    ASSUME PlaceTypes, LengthInv, NEW c \in Cores, Step(c)
    PROVE  LengthInv'
  <1>0. /\ PlaceTypes'
        /\ \A d \in Cores \ {c} : pc'[d] = pc[d] /\ back'[d] = back[d]
        /\ Adds(c)' => Adds(c) \/ logMessage(c)
        /\ lines \in Nat
    BY StepOutline DEF PlaceTypes
  <1>1. /\ DueLines \in Nat /\ DueLines' \in Nat
        /\ (Adds(c)' => Adds(c)) => DueLines' <= DueLines
        /\ Adds(c) /\ ~Adds(c)' => DueLines' = DueLines - 1
        /\ DueLines' <= DueLines + 1
    BY <1>0, DueSum
  <1>2. PICK n \in Nat : n = DueLines  BY <1>1
  <1>3. PICK m \in Nat : m = DueLines'  BY <1>1
  <1>4. /\ log_buffer_len \in Nat /\ log_buffer_len + n <= lines
        /\ loaded \in [Cores -> Nat]
        /\ \A d \in Cores : loaded[d] + n <= lines
    BY <1>2, Zenon DEF LengthInv
  <1>5. ASSUME log_buffer_len' \in Nat, log_buffer_len' + m <= lines',
               loaded' \in [Cores -> Nat], \A d \in Cores : loaded'[d] + m <= lines'
        PROVE  LengthInv'
    BY <1>3, <1>5, Zenon DEF LengthInv
  <1>6. CASE logMessage(c)
    <2>1. UNCHANGED <<log_buffer_len, loaded>> /\ lines' = lines + 1
      BY <1>6 DEF logMessage, bufferVars
    <2>2. m <= n + 1  BY <1>1, <1>2, <1>3
    <2> QED  BY <1>0, <1>4, <1>5, <2>1, <2>2
  <1>7. CASE GrowLength(c)
    <2>1. Adds(c) /\ ~Adds(c)'
      BY <1>7, LogAssumption DEF GrowLength, Goes, Adds, PlaceTypes, FlushPlaces, coreVars
    <2>2. /\ log_buffer_len' = loaded[c] + 1 /\ lines' = lines
          /\ loaded' = [loaded EXCEPT ![c] = 0]
      BY <1>7 DEF GrowLength, history
    <2>3. m = n - 1  BY <1>1, <1>2, <1>3, <2>1
    <2> QED  BY <1>0, <1>4, <1>5, <2>2, <2>3
  <1>8. CASE ~logMessage(c) /\ ~GrowLength(c)
    <2>1. m <= n  BY <1>0, <1>1, <1>2, <1>3, <1>8
    <2> USE DEF Step, CheckSpace, CheckRoom, CopyText, LoadLength, CheckThreshold,
                FlushNothing, FlushFails, FlushWrite, FlushEmpty, CheckSize, TrimRead,
                TrimOpen, TrimWrite, flush_log_buffer_if_due, CheckSizeFails, TrimReadFails,
                TrimOpenFails, Leaves, bufferVars, history
    <2>2. lines' = lines /\ (log_buffer_len' = log_buffer_len \/ log_buffer_len' = 0)
      BY <1>8
    <2>3. \/ loaded' = loaded
          \/ loaded' = [loaded EXCEPT ![c] = log_buffer_len]
      BY <1>8
    <2> HIDE DEF Step
    <2>4. log_buffer_len' \in Nat /\ log_buffer_len' <= log_buffer_len  BY <1>4, <2>2
    <2>5. log_buffer_len' + m <= lines'
      <3>1. PICK h \in Nat : h = log_buffer_len /\ h + n <= lines  BY <1>4
      <3>2. PICK k \in Nat : k = log_buffer_len' /\ k <= h  BY <2>4, <3>1
      <3>3. k + m <= lines
        <4>1. h + n <= lines /\ lines \in Nat  BY <1>0, <3>1
        <4>2. k <= h  BY <3>2
        <4> QED  BY <2>1, <4>1, <4>2
      <3> QED  BY <2>2, <3>2, <3>3
    <2>6. /\ loaded' \in [Cores -> Nat]
          /\ \A d \in Cores : loaded'[d] \in {loaded[d], log_buffer_len}
      BY <1>4, <2>3
    <2>7. \A d \in Cores : loaded'[d] + m <= lines'
      BY <1>0, <1>4, <2>1, <2>2, <2>6
    <2> QED  BY <1>5, <2>4, <2>5, <2>6, <2>7
  <1> QED  BY <1>6, <1>7, <1>8

(* The lines on their way, in memory, in the file and in what is kept of   *)
(* it are lines that were logged.                                          *)
LEMMA StepLineTypes ==
    ASSUME PlaceTypes, LineTypes, NEW c \in Cores, Step(c)
    PROVE  LineTypes'
  <1>0. /\ pc \in [Cores -> Places] /\ back \in [Cores -> {"away", "room"}]
        /\ msg \in [Cores -> 0 .. MaxLines]
        /\ \A d \in Cores : back[d] = "room" => pc[d] \in FlushPlaces
        /\ \A d \in Cores : msg[d] > 0 => pc[d] \in {"check", "room", "copy", "threshold"}
                                              \/ back[d] = "room"
        /\ lines \in 0 .. MaxLines /\ MaxLines \in Nat
    BY LogAssumption DEF PlaceTypes, LineTypes
  <1>1. \A d \in Cores \ {c} : pc'[d] = pc[d] /\ back'[d] = back[d]
    BY StepOutline
  <1>2. ASSUME NEW n \in 0 .. MaxLines, msg' = [msg EXCEPT ![c] = n],
               n > 0 => pc'[c] \in {"check", "room", "copy", "threshold"} \/ back'[c] = "room"
        PROVE  LineTypes'
    BY <1>0, <1>1, <1>2 DEF LineTypes
  <1>3. msg' = msg => msg' = [msg EXCEPT ![c] = msg[c]]  BY <1>0
  <1>4. CASE logMessage(c)
    <2>1. lines + 1 \in 0 .. MaxLines
      BY <1>0, <1>4 DEF logMessage
    <2>2. PICK n \in 0 .. MaxLines : n = lines + 1  BY <2>1
    <2>3. pc'[c] = "check" /\ msg' = [msg EXCEPT ![c] = n]
      BY <1>0, <1>4, <2>2 DEF logMessage, Goes
    <2> QED  BY <1>2, <2>3
  <1>5. CASE CopyText(c) \/ CheckThreshold(c)
    <2>1. PICK n \in 0 .. MaxLines : n = 0  BY <1>0
    <2>2. msg' = [msg EXCEPT ![c] = n]
      BY <1>0, <1>5, <2>1 DEF CopyText, CheckThreshold
    <2>3. ~(n > 0)  BY <2>1
    <2> QED  BY <1>2, <2>2, <2>3, Zenon
  <1>6. CASE \/ CheckSpace(c) \/ CheckRoom(c) \/ FlushWrite(c) \/ FlushEmpty(c)
             \/ CheckSize(c) \/ TrimRead(c) \/ TrimOpen(c) \/ flush_log_buffer_if_due(c)
             \/ FlushNothing(c) \/ FlushFails(c) \/ TrimWrite(c)
             \/ LoadLength(c) \/ GrowLength(c)
             \/ CheckSizeFails(c) \/ TrimReadFails(c) \/ TrimOpenFails(c)
    <2>1. msg' = msg /\ msg[c] \in 0 .. MaxLines
      BY <1>0, <1>6 DEF CheckSpace, CheckRoom, FlushWrite, FlushEmpty, CheckSize, TrimRead,
          TrimOpen, flush_log_buffer_if_due, FlushNothing, FlushFails, TrimWrite, LoadLength,
          GrowLength, CheckSizeFails, TrimReadFails, TrimOpenFails, Leaves
    <2>2. msg[c] > 0 => pc[c] \in {"check", "room", "copy", "threshold"} \/ back[c] = "room"
      BY <1>0
    <2>3. pc[c] \in {"check", "room", "copy", "threshold"} \/ back[c] = "room"
            => pc'[c] \in {"check", "room", "copy", "threshold"} \/ back'[c] = "room"
      BY <1>0, <1>6 DEF CheckSpace, CheckRoom, FlushWrite, FlushEmpty, CheckSize, TrimRead,
          TrimOpen, flush_log_buffer_if_due, FlushNothing, FlushFails, TrimWrite, LoadLength,
          GrowLength, CheckSizeFails, TrimReadFails, TrimOpenFails, Leaves, Goes, Flushes, Returns, FlushPlaces
    <2> QED  BY <1>2, <1>3, <2>1, <2>2, <2>3
  <1> QED  BY <1>4, <1>5, <1>6 DEF Step

(* What the buffer holds is a sequence of lines.                           *)
LEMMA BufferedLines ==
    ASSUME DataTypes, log_buffer_len \in Nat
    PROVE  /\ Buffered \in Seq(0 .. MaxLines)
           /\ Len(Buffered) = log_buffer_len
           /\ \A i \in 1 .. log_buffer_len :
                Buffered[i] = IF i <= LOG_BUFFER_SIZE THEN log_buffer[i - 1] ELSE 0
  <1>0. MaxLines \in Nat /\ LOG_BUFFER_SIZE \in Nat  BY LogAssumption
  <1>1. \A i \in 1 .. log_buffer_len :
          (IF i <= LOG_BUFFER_SIZE THEN log_buffer[i - 1] ELSE 0) \in 0 .. MaxLines
    BY <1>0 DEF DataTypes
  <1> QED  BY <1>1 DEF Buffered

(* What a cut keeps of a file that is too long: its last lines, fewer than *)
(* LOG_TRUNCATE_SIZE.                                                      *)
LEMMA KeptTail ==
    ASSUME NEW S, NEW f \in Seq(S), Len(f) > MAX_LOG_FILE_SIZE
    PROVE  /\ Tail_(f) \in Seq(S)
           /\ Len(Tail_(f)) = LOG_TRUNCATE_SIZE - 1
           /\ \A i \in 1 .. Len(Tail_(f)) : /\ i + Len(f) - Len(Tail_(f)) \in 1 .. Len(f)
                                           /\ Tail_(f)[i] = f[i + Len(f) - Len(Tail_(f))]
  <1>0. /\ LOG_TRUNCATE_SIZE \in Nat \ {0} /\ MAX_LOG_FILE_SIZE \in Nat
        /\ LOG_TRUNCATE_SIZE < MAX_LOG_FILE_SIZE
        /\ Len(f) \in Nat
    BY LogAssumption
  <1> DEFINE m == Len(f) - LOG_TRUNCATE_SIZE + 2
  <1>1. m \in 1 .. Len(f) + 1  BY <1>0
  <1>2. /\ SubSeq(f, m, Len(f)) \in Seq(S)
        /\ Len(SubSeq(f, m, Len(f))) = Len(f) - m + 1
        /\ \A i \in 1 .. Len(f) - m + 1 : SubSeq(f, m, Len(f))[i] = f[m + i - 1]
    BY <1>0, <1>1, SubSeqProperties
  <1>3. Len(f) - m + 1 = LOG_TRUNCATE_SIZE - 1  BY <1>0
  <1>4. \A i \in 1 .. LOG_TRUNCATE_SIZE - 1 :
          /\ m + i - 1 = i + Len(f) - (LOG_TRUNCATE_SIZE - 1)
          /\ m + i - 1 \in 1 .. Len(f)
    BY <1>0
  <1> QED  BY <1>2, <1>3, <1>4 DEF Tail_

(* So the buffer, the file and what is kept of it hold lines only.         *)
LEMMA StepDataTypes ==
    ASSUME PlaceTypes, LineTypes, DataTypes, LengthInv, NEW c \in Cores, Step(c)
    PROVE  DataTypes'
  <1>0. /\ log_buffer \in [0 .. LOG_BUFFER_SIZE - 1 -> 0 .. MaxLines]
        /\ file \in Seq(0 .. MaxLines)
        /\ kept \in [Cores -> Seq(0 .. MaxLines)]
        /\ \A d \in Cores : Len(kept[d]) < LOG_TRUNCATE_SIZE
        /\ log_buffer_len \in Nat
        /\ msg \in [Cores -> 0 .. MaxLines]
        /\ LOG_TRUNCATE_SIZE \in Nat \ {0}
    BY LogAssumption DEF DataTypes, LengthInv, LineTypes
  <1>1. CASE CopyText(c)
    <2>1. /\ log_buffer' = [i \in 0 .. LOG_BUFFER_SIZE - 1 |->
                              IF i = log_buffer_len THEN msg[c] ELSE log_buffer[i]]
          /\ UNCHANGED <<file, kept>>
      BY <1>0, <1>1 DEF CopyText
    <2>2. log_buffer' \in [0 .. LOG_BUFFER_SIZE - 1 -> 0 .. MaxLines]
      BY <1>0, <2>1
    <2> QED  BY <1>0, <2>1, <2>2 DEF DataTypes
  <1>2. CASE FlushWrite(c)
    <2>1. /\ file' = file \o Buffered /\ UNCHANGED <<log_buffer, kept>>
      BY <1>2 DEF FlushWrite, bufferVars
    <2>2. Buffered \in Seq(0 .. MaxLines)  BY <1>0, BufferedLines
    <2> QED  BY <1>0, <2>1, <2>2 DEF DataTypes
  <1>3. CASE TrimRead(c)
    <2>1. CASE Len(file) > MAX_LOG_FILE_SIZE
      <3>1. /\ kept' = [kept EXCEPT ![c] = Tail_(file)]
            /\ UNCHANGED <<log_buffer, file>>
        BY <1>3, <2>1 DEF TrimRead, bufferVars
      <3>2. Tail_(file) \in Seq(0 .. MaxLines) /\ Len(Tail_(file)) < LOG_TRUNCATE_SIZE
        BY <1>0, <2>1, KeptTail
      <3> QED  BY <1>0, <3>1, <3>2 DEF DataTypes
    <2>2. CASE ~(Len(file) > MAX_LOG_FILE_SIZE)
      <3>1. UNCHANGED <<log_buffer, file, kept>>  BY <1>3, <2>2 DEF TrimRead, bufferVars
      <3> QED  BY <1>0, <3>1 DEF DataTypes
    <2> QED  BY <2>1, <2>2
  <1>4. CASE TrimWrite(c)
    <2>1. /\ file' = file \o kept[c]
          /\ kept' = [kept EXCEPT ![c] = <<>>]
          /\ UNCHANGED log_buffer
      BY <1>4 DEF TrimWrite, bufferVars
    <2> QED  BY <1>0, <2>1 DEF DataTypes
  <1>5. CASE UNCHANGED <<log_buffer, kept>> /\ file' \in {file, <<>>}
    <2>1. file' \in Seq(0 .. MaxLines)
      <3>1. <<>> \in Seq(0 .. MaxLines)  OBVIOUS
      <3> QED  BY <1>0, <1>5, <3>1, Zenon
    <2> QED  BY <1>0, <1>5, <2>1 DEF DataTypes
  <1>6. CASE CheckSizeFails(c) \/ TrimReadFails(c) \/ TrimOpenFails(c)
    <2>1. kept' = [kept EXCEPT ![c] = <<>>] /\ UNCHANGED <<log_buffer, file>>
      BY <1>6 DEF CheckSizeFails, TrimReadFails, TrimOpenFails, Leaves, bufferVars
    <2> QED  BY <1>0, <2>1 DEF DataTypes
  <1> QED
    BY <1>1, <1>2, <1>3, <1>4, <1>5, <1>6
    DEF Step, logMessage, CheckSpace, CheckRoom, LoadLength, GrowLength, CheckThreshold,
        FlushNothing, FlushFails, FlushEmpty, CheckSize, TrimOpen, flush_log_buffer_if_due,
        bufferVars

(* A deleted file, a reset and a step of neither core keep all that too.   *)
LEMMA OtherRacyInv ==
    ASSUME RacyInv, delete_log_file \/ Restart \/ UNCHANGED vars
    PROVE  RacyInv'
  <1>0. PlaceTypes /\ LineTypes /\ DataTypes /\ LengthInv  BY DEF RacyInv
  <1>1. ASSUME UNCHANGED <<bufferVars, coreVars, history>>, file' \in {file, <<>>}
        PROVE  RacyInv'
    <2> USE DEF bufferVars, coreVars, history
    <2>1. PlaceTypes'  BY <1>0, <1>1 DEF PlaceTypes
    <2>2. LineTypes'  BY <1>0, <1>1 DEF LineTypes
    <2>3. file' \in Seq(0 .. MaxLines)
      <3>1. <<>> \in Seq(0 .. MaxLines)  OBVIOUS
      <3> QED  BY <1>0, <1>1, <3>1, Zenon DEF DataTypes
    <2>4. DataTypes'  BY <1>0, <1>1, <2>3 DEF DataTypes
    <2>5. LengthInv'  BY <1>0, <1>1 DEF LengthInv, DueLines, Due, Adds
    <2> QED  BY <2>1, <2>2, <2>4, <2>5 DEF RacyInv
  <1>2. CASE Restart
    <2> USE <1>2 DEF Restart
    <2>0. MaxLines \in Nat /\ LOG_TRUNCATE_SIZE \in Nat \ {0} /\ lines \in Nat
      BY <1>0, LogAssumption DEF PlaceTypes
    <2>1. PlaceTypes'
      <3>1. /\ pc' \in [Cores -> Places] /\ back' \in [Cores -> {"away", "room"}]
            /\ \A c \in Cores : back'[c] = "away"
        BY DEF Places
      <3>2. lines' = lines /\ overlapped' = overlapped /\ lost' = TRUE  OBVIOUS
      <3>3. uncut' \in BOOLEAN  BY Zenon
      <3> QED  BY <1>0, <3>1, <3>2, <3>3 DEF PlaceTypes
    <2>2. LineTypes'  BY <2>0 DEF LineTypes
    <2>3. DataTypes'  BY <1>0, <2>0 DEF DataTypes
    <2>4. DueLines' = 0  BY DEF DueLines, Due, Adds
    <2>5. LengthInv'  BY <2>0, <2>4 DEF LengthInv
    <2> QED  BY <2>1, <2>2, <2>3, <2>5 DEF RacyInv
  <1> QED  BY <1>1, <1>2 DEF delete_log_file, vars

(* Every step keeps the first part of the invariant.                       *)
LEMMA NextRacyInv == ASSUME RacyInv, [Next]_vars PROVE RacyInv'
  <1>1. ASSUME NEW c \in Cores, Step(c)  PROVE RacyInv'
    BY <1>1, StepOutline, StepLineTypes, StepDataTypes, StepLengthInv DEF RacyInv
  <1> QED  BY <1>1, OtherRacyInv DEF Next

-----------------------------------------------------------------------------
(* A core that has the log for itself.                                     *)

(* A line stored behind those in the buffer continues them.                *)
LEMMA LineAdded ==
    ASSUME NEW b, NEW h \in Nat, NEW n \in Int, b[h] = n,
           \A i \in 1 .. h : b[i - 1] = (n - 1) - (h - i)
    PROVE  \A i \in 1 .. h + 1 : b[i - 1] = n - ((h + 1) - i)
  <1> SUFFICES ASSUME NEW i \in 1 .. h + 1 PROVE b[i - 1] = n - ((h + 1) - i)  OBVIOUS
  <1>1. CASE i \in 1 .. h  BY <1>1
  <1>2. CASE i = h + 1
    <2>1. i - 1 = h /\ n - ((h + 1) - i) = n  BY <1>2
    <2> QED  BY <2>1
  <1> QED  BY <1>1, <1>2

(* Lines written behind those they continue are in order with them.        *)
LEMMA LinesWritten ==
    ASSUME NEW S, NEW f \in Seq(S), NEW b \in Seq(S), NEW n \in Int,
           EndsAt(f, n - Len(b)), EndsAt(b, n)
    PROVE  EndsAt(f \o b, n)
  <1>0. Len(f) \in Nat /\ Len(b) \in Nat /\ Len(f \o b) = Len(f) + Len(b)  OBVIOUS
  <1> SUFFICES ASSUME NEW i \in 1 .. Len(f) + Len(b)
               PROVE  (f \o b)[i] = n - ((Len(f) + Len(b)) - i)
    BY <1>0 DEF EndsAt
  <1>1. CASE i \in 1 .. Len(f)
    <2>1. (f \o b)[i] = f[i]  BY <1>1
    <2>2. f[i] = (n - Len(b)) - (Len(f) - i)  BY <1>1 DEF EndsAt
    <2> QED  BY <1>0, <2>1, <2>2
  <1>2. CASE i \notin 1 .. Len(f)
    <2>1. i - Len(f) \in 1 .. Len(b)  BY <1>0, <1>2
    <2>2. (f \o b)[i] = b[i - Len(f)]  BY <1>0, <1>2
    <2>3. b[i - Len(f)] = n - (Len(b) - (i - Len(f)))  BY <2>1 DEF EndsAt
    <2> QED  BY <1>0, <2>2, <2>3
  <1> QED  BY <1>1, <1>2

(* A cut keeps the last lines.                                             *)
LEMMA LinesCut ==
    ASSUME NEW S, NEW f \in Seq(S), NEW n \in Int, Len(f) > MAX_LOG_FILE_SIZE, EndsAt(f, n)
    PROVE  EndsAt(Tail_(f), n)
  <1>1. /\ Tail_(f) \in Seq(S)
        /\ \A i \in 1 .. Len(Tail_(f)) : /\ i + Len(f) - Len(Tail_(f)) \in 1 .. Len(f)
                                         /\ Tail_(f)[i] = f[i + Len(f) - Len(Tail_(f))]
    BY KeptTail
  <1> SUFFICES ASSUME NEW i \in 1 .. Len(Tail_(f))
               PROVE  Tail_(f)[i] = n - (Len(Tail_(f)) - i)
    BY DEF EndsAt
  <1>2. Tail_(f)[i] = n - (Len(f) - (i + Len(f) - Len(Tail_(f))))
    BY <1>1 DEF EndsAt
  <1>3. Len(f) \in Nat /\ Len(Tail_(f)) \in Nat  BY <1>1
  <1> QED  BY <1>2, <1>3

(* The lines of the buffer as a sequence.                                  *)
LEMMA BufferedEnds ==
    ASSUME DataTypes, log_buffer_len \in Nat, log_buffer_len <= LOG_BUFFER_SIZE,
           NEW n \in Int, BufferEnds(n)
    PROVE  EndsAt(Buffered, n)
  <1>1. /\ Len(Buffered) = log_buffer_len
        /\ \A i \in 1 .. log_buffer_len :
             Buffered[i] = IF i <= LOG_BUFFER_SIZE THEN log_buffer[i - 1] ELSE 0
    BY BufferedLines
  <1>2. \A i \in 1 .. log_buffer_len : i <= LOG_BUFFER_SIZE
    BY LogAssumption
  <1> QED  BY <1>1, <1>2 DEF EndsAt, BufferEnds

(* While it adds a line.                                                   *)
LEMMA AloneAdding ==
    ASSUME RacyInv, NEW c \in Cores, Contents(c), Lengths(c),
           \/ logMessage(c) \/ CheckSpace(c) \/ CheckRoom(c) \/ CopyText(c)
           \/ LoadLength(c) \/ GrowLength(c) \/ CheckThreshold(c)
    PROVE  Contents(c)'
  <1>0. /\ LOG_FLUSH_THRESHOLD \in Nat \ {0} /\ LOG_BUFFER_SIZE \in Nat
        /\ LOG_FLUSH_THRESHOLD < LOG_BUFFER_SIZE
        /\ log_buffer_len \in Nat /\ lines \in Nat
        /\ pc \in [Cores -> Places] /\ back \in [Cores -> {"away", "room"}]
        /\ msg \in [Cores -> 0 .. MaxLines] /\ loaded \in [Cores -> Nat]
        /\ log_buffer \in [0 .. LOG_BUFFER_SIZE - 1 -> 0 .. MaxLines]
    BY LogAssumption DEF RacyInv, PlaceTypes, LineTypes, LengthInv, DataTypes
  <1> USE DEF bufferVars, history
  <1>1. CASE logMessage(c)
    <2>1. /\ pc[c] = "away" /\ pc'[c] = "check" /\ msg'[c] = lines' /\ lines' - 1 = lines
          /\ UNCHANGED <<log_buffer, log_buffer_len, file, back>>
      BY <1>0, <1>1 DEF logMessage, Goes
    <2>2. LogEnds(lines)  BY <2>1 DEF Contents
    <2>3. LogEnds(lines - 1)'  BY <2>1, <2>2 DEF LogEnds, BufferEnds, EndsAt
    <2> QED  BY <2>1, <2>3 DEF Contents
  <1>2. CASE CheckSpace(c)
    <2>1. pc[c] = "check" /\ log_buffer_len < LOG_FLUSH_THRESHOLD
      BY <1>2 DEF CheckSpace, Flushes, Goes, Lengths
    <2>2. ~(log_buffer_len + 1 >= LOG_BUFFER_SIZE)  BY <1>0, <2>1
    <2>3. /\ pc'[c] = "room"
          /\ UNCHANGED <<log_buffer, log_buffer_len, file, back, msg, lines>>
      BY <1>0, <1>2, <2>2 DEF CheckSpace, Goes
    <2>4. LogEnds(lines - 1)' = LogEnds(lines - 1)
      BY <2>3 DEF LogEnds, BufferEnds, EndsAt
    <2> QED  BY <2>1, <2>3, <2>4 DEF Contents
  <1>3. CASE CheckRoom(c)
    <2>1. pc[c] = "room" /\ log_buffer_len < LOG_FLUSH_THRESHOLD
      BY <1>3 DEF CheckRoom, Goes, Lengths
    <2>2. log_buffer_len + 1 < LOG_BUFFER_SIZE  BY <1>0, <2>1
    <2>3. /\ pc'[c] = "copy"
          /\ UNCHANGED <<log_buffer, log_buffer_len, file, back, msg, lines>>
      BY <1>0, <1>3, <2>2 DEF CheckRoom, Goes
    <2>4. LogEnds(lines - 1)' = LogEnds(lines - 1)
      BY <2>3 DEF LogEnds, BufferEnds, EndsAt
    <2> QED  BY <2>1, <2>3, <2>4 DEF Contents
  <1>4. CASE CopyText(c)
    <2>1. /\ pc[c] = "copy" /\ pc'[c] = "load"
          /\ UNCHANGED <<log_buffer_len, file, back, lines>>
          /\ log_buffer' = [i \in 0 .. LOG_BUFFER_SIZE - 1 |->
                                IF i = log_buffer_len THEN msg[c] ELSE log_buffer[i]]
      BY <1>0, <1>4 DEF CopyText, Goes
    <2>2. /\ log_buffer_len < LOG_FLUSH_THRESHOLD /\ LogEnds(lines - 1) /\ msg[c] = lines
      BY <2>1 DEF Contents, Lengths
    <2>3. log_buffer_len \in 0 .. LOG_BUFFER_SIZE - 1  BY <1>0, <2>2
    <2>4. log_buffer'[log_buffer_len] = lines  BY <2>1, <2>2, <2>3
    <2>5. \A i \in 1 .. log_buffer_len : log_buffer'[i - 1] = log_buffer[i - 1]
      <3> SUFFICES ASSUME NEW i \in 1 .. log_buffer_len
                   PROVE  log_buffer'[i - 1] = log_buffer[i - 1]
        OBVIOUS
      <3>1. i - 1 \in 0 .. LOG_BUFFER_SIZE - 1 /\ i - 1 # log_buffer_len
        BY <1>0, <2>3
      <3> QED  BY <2>1, <3>1
    <2>6. LogEnds(lines - 1)'
      BY <2>1, <2>2, <2>5 DEF LogEnds, BufferEnds, EndsAt
    <2> QED  BY <2>1, <2>2, <2>4, <2>6 DEF Contents
  <1>5. CASE LoadLength(c)
    <2>1. /\ pc[c] = "load" /\ pc'[c] = "grow" /\ loaded'[c] = log_buffer_len
          /\ UNCHANGED <<log_buffer, log_buffer_len, file, back, lines>>
      BY <1>0, <1>5 DEF LoadLength, Goes
    <2>2. LogEnds(lines - 1)' = LogEnds(lines - 1)
      BY <2>1 DEF LogEnds, BufferEnds, EndsAt
    <2> QED  BY <2>1, <2>2 DEF Contents
  <1>6. CASE GrowLength(c)
    <2>1. /\ pc[c] = "grow" /\ pc'[c] = "threshold" /\ log_buffer_len' = loaded[c] + 1
          /\ UNCHANGED <<log_buffer, file, back, lines>>
      BY <1>0, <1>6 DEF GrowLength, Goes
    <2>2. /\ loaded[c] = log_buffer_len /\ log_buffer_len < LOG_FLUSH_THRESHOLD
          /\ LogEnds(lines - 1) /\ log_buffer[log_buffer_len] = lines
      BY <2>1 DEF Contents, Lengths
    <2>3. PICK h \in Nat : h = log_buffer_len  BY <1>0
    <2>4. PICK n \in Int : n = lines  BY <1>0
    <2>5. log_buffer_len' = h + 1 /\ h + 1 <= LOG_FLUSH_THRESHOLD
      BY <1>0, <2>1, <2>2, <2>3
    <2>6. \A i \in 1 .. h : log_buffer[i - 1] = (n - 1) - (h - i)
      BY <2>2, <2>3, <2>4 DEF LogEnds, BufferEnds
    <2>7. \A i \in 1 .. h + 1 : log_buffer[i - 1] = n - ((h + 1) - i)
      <3>1. log_buffer[h] = n  BY <2>2, <2>3, <2>4
      <3> QED  BY <2>6, <3>1, LineAdded, Zenon
    <2>8. BufferEnds(lines)'  BY <2>1, <2>4, <2>5, <2>7 DEF BufferEnds
    <2>9. (n - 1) - h = n - (h + 1)  OBVIOUS
    <2>10. EndsAt(file, n - (h + 1))  BY <2>2, <2>3, <2>4, <2>9 DEF LogEnds
    <2>11. LogEnds(lines)'
      BY <2>1, <2>4, <2>5, <2>8, <2>10 DEF LogEnds, EndsAt
    <2> QED  BY <2>1, <2>2, <2>5, <2>11 DEF Contents
  <1>7. CASE CheckThreshold(c)
    <2>1. /\ pc[c] = "threshold" /\ UNCHANGED <<log_buffer, log_buffer_len, file, lines>>
          /\ \/ pc'[c] = "flush" /\ back'[c] = "away"
             \/ pc'[c] = "away" /\ back' = back /\ log_buffer_len < LOG_FLUSH_THRESHOLD
      BY <1>0, <1>7 DEF CheckThreshold, Flushes, Goes
    <2>2. LogEnds(lines)' = LogEnds(lines)
      BY <2>1 DEF LogEnds, BufferEnds, EndsAt
    <2> QED  BY <2>1, <2>2 DEF Contents
  <1> QED  BY <1>1, <1>2, <1>3, <1>4, <1>5, <1>6, <1>7

(* While it flushes the buffer and cuts the file.                          *)
LEMMA AloneFlushing ==
    ASSUME RacyInv, NEW c \in Cores, Contents(c), Lengths(c),
           \/ FlushNothing(c) \/ FlushWrite(c) \/ FlushEmpty(c) \/ CheckSize(c)
           \/ flush_log_buffer_if_due(c) \/ TrimRead(c) \/ TrimOpen(c) \/ TrimWrite(c)
           \/ CheckSizeFails(c) \/ TrimReadFails(c) \/ TrimOpenFails(c)
    PROVE  Contents(c)'
  <1>0. /\ LOG_FLUSH_THRESHOLD \in Nat \ {0} /\ LOG_BUFFER_SIZE \in Nat
        /\ LOG_FLUSH_THRESHOLD < LOG_BUFFER_SIZE
        /\ LOG_TRUNCATE_SIZE \in Nat /\ MAX_LOG_FILE_SIZE \in Nat
        /\ LOG_TRUNCATE_SIZE < MAX_LOG_FILE_SIZE
        /\ log_buffer_len \in Nat /\ lines \in Nat
        /\ pc \in [Cores -> Places] /\ back \in [Cores -> {"away", "room"}]
        /\ file \in Seq(0 .. MaxLines) /\ kept \in [Cores -> Seq(0 .. MaxLines)]
        /\ \A d \in Cores : Len(kept[d]) < LOG_TRUNCATE_SIZE
        /\ back[c] = "away"
    BY LogAssumption DEF RacyInv, PlaceTypes, LengthInv, DataTypes, Lengths
  <1> USE DEF bufferVars, history
  <1>a. DataTypes /\ lines \in Int  BY <1>0 DEF RacyInv
  <1>1. CASE FlushNothing(c)
    <2>1. /\ pc[c] = "flush" /\ pc'[c] = "away" /\ back'[c] = "away" /\ log_buffer_len = 0
          /\ UNCHANGED <<log_buffer, log_buffer_len, file, lines>>
      BY <1>0, <1>1 DEF FlushNothing, Returns, Goes
    <2>2. LogEnds(lines)' = LogEnds(lines)
      BY <2>1 DEF LogEnds, BufferEnds, EndsAt
    <2> QED  BY <2>1, <2>2 DEF Contents
  <1>2. CASE FlushWrite(c)
    <2>1. /\ pc[c] = "flush" /\ pc'[c] = "empty" /\ file' = file \o Buffered
          /\ UNCHANGED <<log_buffer, log_buffer_len, back, lines>>
      BY <1>0, <1>2 DEF FlushWrite, Goes
    <2>2. LogEnds(lines) /\ log_buffer_len <= LOG_FLUSH_THRESHOLD
      BY <2>1 DEF Contents, Lengths
    <2>3. log_buffer_len <= LOG_BUFFER_SIZE  BY <1>0, <2>2
    <2>4. PICK n \in Int : n = lines  BY <1>0
    <2>5. EndsAt(Buffered, n)
      BY <1>0, <1>a, <2>2, <2>3, <2>4, BufferedEnds DEF LogEnds
    <2>6. Buffered \in Seq(0 .. MaxLines) /\ Len(Buffered) = log_buffer_len
      BY <1>0, <1>a, BufferedLines
    <2>7. EndsAt(file, n - Len(Buffered))  BY <2>2, <2>4, <2>6 DEF LogEnds
    <2>8. EndsAt(file \o Buffered, n)  BY <1>0, <2>5, <2>6, <2>7, LinesWritten
    <2>9. EndsAt(file, lines)'  BY <2>1, <2>4, <2>8 DEF EndsAt
    <2> QED  BY <1>0, <2>1, <2>2, <2>9 DEF Contents
  <1>3. CASE FlushEmpty(c)
    <2>1. /\ pc[c] = "empty" /\ pc'[c] = "size" /\ log_buffer_len' = 0
          /\ UNCHANGED <<file, back, lines>>
      BY <1>0, <1>3 DEF FlushEmpty, Goes
    <2>2. EndsAt(file, lines)' = EndsAt(file, lines)  BY <2>1 DEF EndsAt
    <2> QED  BY <1>0, <2>1, <2>2 DEF Contents
  <1>4. ASSUME pc[c] \in {"size", "trim", "rewrite"}, pc'[c] = "away",
               UNCHANGED <<log_buffer, log_buffer_len, file, lines>>
        PROVE  Contents(c)'
    <2>1. log_buffer_len = 0 /\ EndsAt(file, lines)  BY <1>4 DEF Contents, Lengths
    <2>2. lines - 0 = lines  BY <1>0
    <2>3. LogEnds(lines)
      BY <2>1, <2>2 DEF LogEnds, BufferEnds
    <2>4. LogEnds(lines)' = LogEnds(lines)
      BY <1>4 DEF LogEnds, BufferEnds, EndsAt
    <2> QED  BY <1>4, <2>3, <2>4 DEF Contents
  <1>5. CASE CheckSize(c)
    <2>1. CASE Len(file) > MAX_LOG_FILE_SIZE
      <3>1. /\ pc[c] = "size" /\ pc'[c] = "trim"
            /\ UNCHANGED <<log_buffer_len, file, back, lines>>
        BY <1>0, <1>5, <2>1 DEF CheckSize, Goes
      <3>2. EndsAt(file, lines)' = EndsAt(file, lines)  BY <3>1 DEF EndsAt
      <3> QED  BY <1>0, <3>1, <3>2 DEF Contents, Lengths
    <2>2. CASE ~(Len(file) > MAX_LOG_FILE_SIZE)
      <3>1. /\ pc[c] = "size" /\ pc'[c] = "away" /\ back'[c] = "away"
            /\ UNCHANGED <<log_buffer, log_buffer_len, file, lines>>
        BY <1>0, <1>5, <2>2 DEF CheckSize, Returns, Goes
      <3> QED  BY <1>4, <3>1
    <2> QED  BY <2>1, <2>2
  <1>6. CASE flush_log_buffer_if_due(c)
    <2>1. /\ pc[c] = "away" /\ pc'[c] = "flush" /\ back'[c] = "away"
          /\ UNCHANGED <<log_buffer, log_buffer_len, file, lines>>
      BY <1>0, <1>6 DEF flush_log_buffer_if_due, Flushes, Goes
    <2>2. LogEnds(lines)' = LogEnds(lines)
      BY <2>1 DEF LogEnds, BufferEnds, EndsAt
    <2> QED  BY <2>1, <2>2 DEF Contents
  <1>7. CASE TrimRead(c)
    <2>1. CASE Len(file) > MAX_LOG_FILE_SIZE
      <3>1. /\ pc[c] = "trim" /\ pc'[c] = "rewrite" /\ kept'[c] = Tail_(file)
            /\ UNCHANGED <<log_buffer_len, file, back, lines>>
        BY <1>0, <1>7, <2>1 DEF TrimRead, Goes
      <3>2. EndsAt(file, lines)  BY <3>1 DEF Contents
      <3>3. PICK n \in Int : n = lines  BY <1>0
      <3>4. EndsAt(Tail_(file), n)  BY <1>0, <2>1, <3>2, <3>3, LinesCut
      <3>5. EndsAt(kept[c], lines)'  BY <3>1, <3>3, <3>4 DEF EndsAt
      <3>6. EndsAt(file, lines)'  BY <3>1, <3>2 DEF EndsAt
      <3> QED  BY <1>0, <3>1, <3>5, <3>6 DEF Contents
    <2>2. CASE ~(Len(file) > MAX_LOG_FILE_SIZE)
      <3>1. /\ pc[c] = "trim" /\ pc'[c] = "away" /\ back'[c] = "away"
            /\ UNCHANGED <<log_buffer, log_buffer_len, file, lines>>
        BY <1>0, <1>7, <2>2 DEF TrimRead, Returns, Goes
      <3> QED  BY <1>4, <3>1
    <2> QED  BY <2>1, <2>2
  <1>8. CASE TrimOpen(c)
    <2>1. /\ pc[c] = "rewrite" /\ pc'[c] = "print" /\ file' = <<>>
          /\ UNCHANGED <<log_buffer_len, kept, back, lines>>
      BY <1>0, <1>8 DEF TrimOpen, Goes
    <2>2. EndsAt(kept[c], lines)' = EndsAt(kept[c], lines)  BY <2>1 DEF EndsAt
    <2> QED  BY <1>0, <2>1, <2>2 DEF Contents
  <1>9. CASE TrimWrite(c)
    <2>1. /\ pc[c] = "print" /\ pc'[c] = "away" /\ back'[c] = "away"
          /\ file' = file \o kept[c]
          /\ UNCHANGED <<log_buffer, log_buffer_len, lines>>
      BY <1>0, <1>9 DEF TrimWrite, Returns, Goes
    <2>2. file = <<>> /\ EndsAt(kept[c], lines) /\ log_buffer_len = 0
      BY <2>1 DEF Contents, Lengths
    <2>3. file' = kept[c]  BY <1>0, <2>1, <2>2
    <2>4. lines - 0 = lines  BY <1>0
    <2>5. EndsAt(kept[c], lines - log_buffer_len)  BY <2>2, <2>4
    <2>6. LogEnds(lines)'
      BY <2>1, <2>2, <2>3, <2>5 DEF LogEnds, BufferEnds, EndsAt
    <2> QED  BY <2>1, <2>6 DEF Contents
  <1>10. CASE CheckSizeFails(c) \/ TrimReadFails(c) \/ TrimOpenFails(c)
    <2>1. /\ pc[c] \in {"size", "trim", "rewrite"} /\ pc'[c] = "away"
          /\ UNCHANGED <<log_buffer, log_buffer_len, file, lines>>
      BY <1>0, <1>10 DEF CheckSizeFails, TrimReadFails, TrimOpenFails, Leaves, Returns, Goes
    <2> QED  BY <1>4, <2>1
  <1> QED  BY <1>1, <1>2, <1>3, <1>5, <1>6, <1>7, <1>8, <1>9, <1>10

(* Buffer and file keep to their bounds at every step, whatever was lost.  *)
LEMMA AloneLengths ==
    ASSUME RacyInv, NEW c \in Cores, Lengths(c), Step(c)
    PROVE  Lengths(c)'
  <1>0. /\ LOG_FLUSH_THRESHOLD \in Nat \ {0} /\ LOG_BUFFER_SIZE \in Nat
        /\ LOG_FLUSH_THRESHOLD < LOG_BUFFER_SIZE
        /\ LOG_TRUNCATE_SIZE \in Nat /\ MAX_LOG_FILE_SIZE \in Nat
        /\ LOG_TRUNCATE_SIZE < MAX_LOG_FILE_SIZE
        /\ log_buffer_len \in Nat
        /\ pc \in [Cores -> Places] /\ back \in [Cores -> {"away", "room"}]
        /\ loaded \in [Cores -> Nat]
        /\ file \in Seq(0 .. MaxLines) /\ kept \in [Cores -> Seq(0 .. MaxLines)]
        /\ Len(kept[c]) < LOG_TRUNCATE_SIZE /\ Len(kept[c]) \in Nat
    BY LogAssumption DEF RacyInv, PlaceTypes, LengthInv, DataTypes
  <1> USE DEF bufferVars, history, Goes, Flushes, Returns, Lengths
  <1>1. CASE logMessage(c) \/ flush_log_buffer_if_due(c)
    BY <1>0, <1>1 DEF logMessage, flush_log_buffer_if_due
  <1>2. CASE CheckSpace(c) \/ CheckRoom(c) \/ CopyText(c) \/ LoadLength(c)
    BY <1>0, <1>2 DEF CheckSpace, CheckRoom, CopyText, LoadLength
  <1>3. CASE GrowLength(c)
    <2>1. log_buffer_len' = log_buffer_len + 1 /\ log_buffer_len < LOG_FLUSH_THRESHOLD
      BY <1>3 DEF GrowLength
    <2>2. log_buffer_len' <= LOG_FLUSH_THRESHOLD  BY <1>0, <2>1
    <2> QED  BY <1>0, <1>3, <2>2 DEF GrowLength
  <1>4. CASE CheckThreshold(c)
    BY <1>0, <1>4 DEF CheckThreshold
  <1>5. CASE FlushNothing(c) \/ FlushFails(c) \/ FlushWrite(c) \/ FlushEmpty(c)
    BY <1>0, <1>5 DEF FlushNothing, FlushFails, FlushWrite, FlushEmpty
  <1>6. CASE CheckSize(c) \/ TrimRead(c)
    BY <1>0, <1>6 DEF CheckSize, TrimRead
  <1>7. CASE CheckSizeFails(c) \/ TrimReadFails(c) \/ TrimOpenFails(c)
    BY <1>0, <1>7 DEF CheckSizeFails, TrimReadFails, TrimOpenFails, Leaves
  <1>8. CASE TrimOpen(c)
    <2>1. file' = <<>> /\ Len(file') = 0 /\ pc'[c] = "print" /\ back' = back
      BY <1>0, <1>8 DEF TrimOpen
    <2> QED  BY <1>0, <1>8, <2>1 DEF TrimOpen
  <1>9. CASE TrimWrite(c)
    <2>1. pc[c] = "print" /\ file = <<>> /\ file' = file \o kept[c]
      BY <1>9 DEF TrimWrite
    <2>2. file' = kept[c]  BY <1>0, <2>1
    <2>3. Len(file') <= MAX_LOG_FILE_SIZE  BY <1>0, <2>2
    <2> QED  BY <1>0, <1>9, <2>3 DEF TrimWrite
  <1> QED
    BY <1>1, <1>2, <1>3, <1>4, <1>5, <1>6, <1>7, <1>8, <1>9 DEF Step

(* The log passes from one core to another only when neither is in it.     *)
LEMMA LogHandedOver ==
    ASSUME RacyInv, NEW c \in Cores, NEW d \in Cores, c # d,
           Alone(c), Lengths(c), Step(d), ~overlapped'
    PROVE  Alone(d) /\ Lengths(d) /\ (Contents(c) => Contents(d))
  <1>0. pc[d] = "away" /\ back[d] = "away"
    BY DEF Alone, RacyInv, PlaceTypes, FlushPlaces
  <1>1. logMessage(d) \/ flush_log_buffer_if_due(d)
    BY <1>0 DEF Step, CheckSpace, CheckRoom, CopyText, LoadLength, GrowLength,
       CheckThreshold, FlushNothing, FlushFails, FlushWrite, FlushEmpty, CheckSize,
       TrimRead, TrimOpen, TrimWrite, CheckSizeFails, TrimReadFails, TrimOpenFails,
       Leaves, Flushes, Returns, Goes
  <1>2. Enters(d)  BY <1>1 DEF logMessage, flush_log_buffer_if_due
  <1>3. \A e \in Cores \ {d} : pc[e] = "away"  BY <1>2 DEF Enters
  <1>4. pc[c] = "away"  BY <1>3
  <1> QED  BY <1>0, <1>3, <1>4 DEF Alone, Contents, Lengths

(* Once the cores have met, or a line may be missing, that stays so.       *)
LEMMA HistoryStays ==
    ASSUME RacyInv, [Next]_vars PROVE (overlapped => overlapped') /\ (lost => lost')
  <1>1. ASSUME NEW d \in Cores, Step(d)
        PROVE  (overlapped => overlapped') /\ (lost => lost')
    <2>1. CASE logMessage(d) \/ flush_log_buffer_if_due(d)
      <3>1. Enters(d) /\ lost' = lost
        BY <2>1 DEF logMessage, flush_log_buffer_if_due
      <3> QED  BY <3>1, Zenon DEF Enters
    <2>2. CASE FlushFails(d)
      BY <2>2, Zenon DEF FlushFails
    <2>3. CASE UNCHANGED <<overlapped, lost>>
      <3>1. overlapped' = overlapped /\ lost' = lost  BY <2>3
      <3> QED  BY <3>1, Zenon
    <2> QED
      BY <1>1, <2>1, <2>2, <2>3 DEF Step, CheckSpace, CheckRoom, CopyText, LoadLength,
         GrowLength, CheckThreshold, FlushNothing, FlushWrite, FlushEmpty, CheckSize,
         TrimRead, TrimOpen, TrimWrite, CheckSizeFails, TrimReadFails, TrimOpenFails,
         Leaves, history
  <1>2. CASE delete_log_file \/ UNCHANGED vars
    <2>1. overlapped' = overlapped /\ lost' = lost
      BY <1>2 DEF delete_log_file, vars, history
    <2> QED  BY <2>1, Zenon
  <1>3. CASE Restart
    BY <1>3, Zenon DEF Restart
  <1> QED  BY <1>1, <1>2, <1>3, Zenon DEF Next

(* Every step keeps the file within its bound while one core has the log   *)
(* for itself, and the log whole while nothing is lost.                    *)
LEMMA NextCalmInv == ASSUME LogInv, [Next]_vars PROVE CalmInv'
  <1> SUFFICES ASSUME ~overlapped'
               PROVE  (\E c \in Cores : Alone(c) /\ Lengths(c) /\ (~lost => Contents(c)))'
    BY DEF CalmInv
  <1>1. RacyInv /\ PlaceTypes  BY DEF LogInv, RacyInv
  <1>a. /\ ~overlapped
        /\ lost => lost'
    BY <1>1, HistoryStays, Zenon
  <1>2. PICK c \in Cores : Alone(c) /\ Lengths(c) /\ (~lost => Contents(c))
    BY <1>a DEF LogInv, CalmInv
  <1>4. ASSUME NEW d \in Cores, Step(d), Alone(d), Lengths(d), ~lost => Contents(d)
        PROVE  Alone(d)' /\ Lengths(d)' /\ (~lost' => Contents(d)')
    <2>1. Alone(d)'
      <3>1. \A e \in Cores \ {d} : pc'[e] = pc[e]  BY <1>1, <1>4, StepOutline
      <3> QED  BY <1>4, <3>1 DEF Alone
    <2>2. Lengths(d)'  BY <1>1, <1>4, AloneLengths
    <2>3. ASSUME ~lost' PROVE Contents(d)'
      <3>1. ~lost /\ Contents(d)  BY <1>a, <1>4, <2>3, Zenon
      <3>2. ~FlushFails(d)  BY <2>3 DEF FlushFails
      <3> QED  BY <1>1, <1>4, <3>1, <3>2, AloneAdding, AloneFlushing DEF Step
    <2> QED  BY <2>1, <2>2, <2>3
  <1>5. ASSUME NEW d \in Cores, Step(d)
        PROVE  (\E e \in Cores : Alone(e) /\ Lengths(e) /\ (~lost => Contents(e)))'
    <2>1. Alone(d) /\ Lengths(d) /\ (~lost => Contents(d))
      <3>1. CASE d = c  BY <1>2, <3>1
      <3>2. CASE d # c  BY <1>2, <1>1, <1>5, <3>2, LogHandedOver, Zenon
      <3> QED  BY <3>1, <3>2
    <2> QED  BY <1>4, <1>5, <2>1
  <1>6. CASE delete_log_file
    <2>1. UNCHANGED <<bufferVars, coreVars, history>> /\ file' = <<>>
      BY <1>6 DEF delete_log_file
    <2>2. Len(file') = 0 /\ MAX_LOG_FILE_SIZE \in Nat  BY <2>1, LogAssumption
    <2>3. Alone(c)'  BY <1>2, <2>1 DEF Alone, coreVars
    <2>4. Contents(c) => Contents(c)'
      BY <2>1, <2>2 DEF Contents, LogEnds, BufferEnds, EndsAt, bufferVars, coreVars, history
    <2>5. Lengths(c)'
      BY <1>2, <2>1, <2>2 DEF Lengths, bufferVars, coreVars
    <2>6. lost' = lost  BY <2>1 DEF history
    <2> QED  BY <1>2, <2>3, <2>4, <2>5, <2>6
  <1>7. CASE Restart
    <2>0. 1 \in Cores /\ LOG_FLUSH_THRESHOLD \in Nat \ {0}  BY LogAssumption
    <2>1. /\ pc' = [d \in Cores |-> "away"] /\ back' = [d \in Cores |-> "away"]
          /\ log_buffer_len' = 0 /\ lost' = TRUE /\ file' = file
          /\ uncut' = (uncut \/ \E d \in Cores : pc[d] \in {"empty", "size", "trim", "rewrite"})
      BY <1>7 DEF Restart
    <2>2. uncut' \/ Len(file) <= MAX_LOG_FILE_SIZE
      BY <1>2, <2>1 DEF Lengths
    <2>3. Alone(1)' /\ Lengths(1)'
      BY <2>0, <2>1, <2>2 DEF Alone, Lengths
    <2> QED  BY <2>0, <2>1, <2>3
  <1>8. CASE UNCHANGED vars
    <2>1. Alone(c)' /\ Lengths(c)'
      BY <1>2, <1>8 DEF Alone, Lengths, vars, bufferVars, coreVars, history
    <2>2. Contents(c) => Contents(c)'
      BY <1>8 DEF Contents, LogEnds, BufferEnds, EndsAt, vars, bufferVars, coreVars, history
    <2>3. lost' = lost  BY <1>8 DEF vars, history
    <2> QED  BY <1>2, <2>1, <2>2, <2>3
  <1> QED  BY <1>5, <1>6, <1>7, <1>8 DEF Next

-----------------------------------------------------------------------------
(* Theorems.                                                               *)

(* Every behaviour of the two cores stays within the inductive invariant.  *)
THEOREM Invariance == Spec => []LogInv
  <1>1. LogInv /\ [Next]_vars => LogInv'
    BY NextRacyInv, NextCalmInv DEF LogInv
  <1> QED  BY InitLogInv, <1>1, PTL DEF Spec

(* Whatever the two cores do to each other in append_to_log_file, the      *)
(* length of the buffer never exceeds what was logged, and a cut keeps     *)
(* less than LOG_TRUNCATE_SIZE.                                            *)
THEOREM TypeCorrect == Spec => []TypeOK
  <1>1. LogInv => TypeOK
    <2> SUFFICES ASSUME LogInv PROVE TypeOK  OBVIOUS
    <2>0. PlaceTypes /\ LineTypes /\ DataTypes /\ LengthInv  BY DEF LogInv, RacyInv
    <2>1. log_buffer_len \in 0 .. 2 * MaxLines
      <3>1. PICK n \in Nat : n = DueLines
        BY DEF DueLines, Due
      <3>2. log_buffer_len \in Nat /\ log_buffer_len + n <= lines
        BY <2>0, <3>1, Zenon DEF LengthInv
      <3>3. lines \in Nat /\ lines <= MaxLines /\ MaxLines \in Nat
        BY <2>0, LogAssumption DEF PlaceTypes
      <3>4. PICK h \in Nat : h = log_buffer_len /\ h + n <= lines  BY <3>2
      <3>5. h <= 2 * MaxLines  BY <3>3, <3>4
      <3> QED  BY <3>4, <3>5
    <2>2. \A i \in DOMAIN file : file[i] \in 0 .. MaxLines
      <3>1. file \in Seq(0 .. MaxLines)  BY <2>0 DEF DataTypes
      <3>2. DOMAIN file = 1 .. Len(file)  BY <3>1
      <3> QED  BY <3>1, <3>2, ElementOfSeq
    <2> QED  BY <2>0, <2>1, <2>2 DEF TypeOK, PlaceTypes, LineTypes, DataTypes
  <1> QED  BY <1>1, Invariance, PTL

(* A core that finds the log to itself leaves it whole: file and buffer    *)
(* together are the last lines logged, each once and in order.             *)
THEOREM LogIsWhole == Spec => []TailOfTheLog
  <1>1. LogInv => TailOfTheLog
    <2> SUFFICES ASSUME LogInv, ~overlapped, ~lost, \A c \in Cores : pc[c] = "away",
                        NEW i \in DOMAIN (file \o Buffered)
                 PROVE  (file \o Buffered)[i] = lines - (Len(file \o Buffered) - i)
      BY DEF TailOfTheLog
    <2>1. PICK c \in Cores : Contents(c) /\ Lengths(c)
      BY DEF LogInv, CalmInv
    <2>2. LogEnds(lines) /\ log_buffer_len < LOG_FLUSH_THRESHOLD
      BY <2>1 DEF Contents, Lengths
    <2>3. /\ DataTypes /\ log_buffer_len \in Nat /\ lines \in Int
          /\ file \in Seq(0 .. MaxLines)
      BY DEF LogInv, RacyInv, LengthInv, PlaceTypes, DataTypes
    <2>4. log_buffer_len <= LOG_BUFFER_SIZE  BY <2>2, <2>3, LogAssumption
    <2>5. EndsAt(Buffered, lines)  BY <2>2, <2>3, <2>4, BufferedEnds DEF LogEnds
    <2>6. Buffered \in Seq(0 .. MaxLines) /\ Len(Buffered) = log_buffer_len
      BY <2>3, BufferedLines
    <2>7. EndsAt(file, lines - Len(Buffered))  BY <2>2, <2>6 DEF LogEnds
    <2>8. EndsAt(file \o Buffered, lines)  BY <2>3, <2>5, <2>6, <2>7, LinesWritten
    <2>9. DOMAIN (file \o Buffered) = 1 .. Len(file \o Buffered)  BY <2>3, <2>6
    <2> QED  BY <2>8, <2>9 DEF EndsAt
  <1> QED  BY <1>1, Invariance, PTL

(* The cut that follows every flush keeps the file within its bound, and   *)
(* the next one makes good for a cut that did not come off.                *)
THEOREM FileStaysBounded == Spec => []FileBounded
  <1>1. LogInv => FileBounded
    <2> SUFFICES ASSUME LogInv, ~overlapped, ~uncut, \A c \in Cores : pc[c] = "away"
                 PROVE  Len(file) <= MAX_LOG_FILE_SIZE
      BY DEF FileBounded
    <2>1. PICK c \in Cores : Lengths(c)
      BY DEF LogInv, CalmInv
    <2> QED  BY <2>1 DEF Lengths
  <1> QED  BY <1>1, Invariance, PTL
=============================================================================

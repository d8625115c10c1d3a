----------------------------- MODULE SerialInput -----------------------------
(***************************************************************************)
(* How the bytes of one serial line become AT lines, dialogue texts and    *)
(* binary frames: the dispatch of loop(), the input buffers, the time-     *)
(* out of a stalled frame and that of an open dialogue.                    *)
(*                                                                         *)
(* A byte is its class, the item of the host's output it belongs to and    *)
(* its place in there.                                                     *)
(* The loops that drain the serial buffer read one byte per step, so bytes *)
(* may arrive at any point.  A pause is long against one turn of loop(),   *)
(* and the two ends of a line arrive together.  A long pause is one in     *)
(* which the time of an open dialogue runs out: 30 s for a text, 5 s for   *)
(* data.                                                                   *)
(***************************************************************************)
EXTENDS Naturals, Sequences

CONSTANTS
    Kinds,            \* what the host sends: a subset of DOMAIN Form
    MaxItems,         \* bound: the number of items it sends
    FrameBufferSize,
    AtBufferSize,
    MAX_FLEX_MESSAGE_LENGTH,
    DataLength        \* the length AT+SEND announces

(* The classes: c printable, r and n line ends, z zero, h anything else.   *)
(* The body of a frame may hold any of them but z, raw data any of them.   *)
Form == [line  |-> <<"c", "r", "n">>,
         msg   |-> <<"c", "r", "n">>,
         send  |-> <<"c", "r", "n">>,
         text  |-> <<"c", "r", "n">>,
         long  |-> [j \in 1 .. MAX_FLEX_MESSAGE_LENGTH + 1 |-> "c"] \o <<"r", "n">>,
         data  |-> [j \in 1 .. DataLength |-> IF j = DataLength THEN "z" ELSE "n"],
         frame |-> <<"h", "c", "z">>,
         odd   |-> <<"h", "n", "z">>]

Frames == {"frame", "odd"}
LineEnd == {"r", "n"}

(* What a command asks for, and the items a host then answers with.        *)
Asks == [msg |-> "WAITING_FOR_MSG", send |-> "WAITING_FOR_DATA"]
Answers == [IDLE             |-> {"line", "msg", "send"} \union Frames,
            WAITING_FOR_MSG  |-> {"text", "long"},
            WAITING_FOR_DATA |-> {"data"}]
Dialogues == {"WAITING_FOR_MSG", "WAITING_FOR_DATA"}

ASSUME SerialAssumption ==
    /\ Kinds \subseteq DOMAIN Form
    /\ MaxItems \in Nat
    /\ FrameBufferSize \in Nat \ {0, 1, 2}
    /\ AtBufferSize \in Nat \ {0, 1, 2}
    /\ MAX_FLEX_MESSAGE_LENGTH \in Nat \ {0}
    /\ DataLength \in Nat \ {0}

VARIABLES
    (* the host *)
    items,                   \* what it has begun to send so far
    sending,                 \* the bytes of the last item still to go
    awaiting,                \* it has sent a line and waits for the answer
    dialogue,                \* what the device asked it for: READY, not yet answered
    abandoned,               \* it has left a dialogue, and had no answer since
    pause,                   \* the pause since which it has sent nothing
    (* the device *)
    rx,                      \* the serial receive buffer
    core1,                   \* which loop reads it
    binary_frame_buffer,
    frame_stalled,           \* the time-out of the frame under way has passed
    binary_protocol_active,
    at_buffer,
    device_state,
    received,                \* flex_message_buffer, or tx_data_buffer of AT+SEND
    late,                    \* the time-out of the dialogue has passed
    (* what came of it *)
    served                   \* how often each item took effect

hostVars == <<items, sending, pause>>
answerVars == <<awaiting, dialogue, abandoned>>
frameVars == <<binary_frame_buffer, frame_stalled>>
dialogueVars == <<device_state, received, late>>
otherVars == <<binary_protocol_active, at_buffer, dialogueVars, served>>
deviceVars == <<frameVars, otherVars>>
vars == <<hostVars, answerVars, rx, core1, deviceVars>>

Init ==
    /\ items = <<>>
    /\ sending = <<>>
    /\ awaiting = FALSE
    /\ dialogue = "IDLE"
    /\ abandoned = FALSE
    /\ pause = "long"
    /\ rx = <<>>
    /\ core1 = "loop"
    /\ binary_frame_buffer = <<>>
    /\ frame_stalled = FALSE
    /\ binary_protocol_active = FALSE
    /\ at_buffer = <<>>
    /\ device_state = "IDLE"
    /\ received = <<>>
    /\ late = FALSE
    /\ served = [i \in 1 .. MaxItems |-> 0]

-----------------------------------------------------------------------------
(* The host                                                                *)

Bytes(i, kind) == [j \in 1 .. Len(Form[kind]) |-> <<Form[kind][j], i, j>>]
Last == items[Len(items)]

(* An item is fresh when nothing that went before can be in its way, by    *)
(* what the host knows.  A long pause is enough for all that a host says   *)
(* outside a dialogue, whatever the device was left with.  After a shorter *)
(* one a dialogue the host has abandoned may still be open, and what it    *)
(* sends then is the text or the data asked for.  Without a pause an item  *)
(* is as good as the one before, when that was whole, no longer than the   *)
(* device takes, and not behind an abandoned dialogue: the host cannot     *)
(* tell its answer from the ERROR of the time-out.                         *)
InStep ==
    /\ items # <<>>
    /\ Last.fresh /\ Last.whole
    /\ Last.kind # "long" /\ ~Last.behind

StartsFresh(kind) ==
    CASE pause = "long"  -> kind \in Answers["IDLE"]
      [] pause = "short" -> ~abandoned
      [] pause = "none"  -> InStep

(* Nothing stray is in at_buffer or, but for a long pause, in the dialogue.*)
StartsTidy ==
    IF pause = "none" THEN Last.tidy
    ELSE at_buffer = <<>> /\ (pause = "short" => received = <<>>)

(* It starts an item.  It waits for the answer to a line, not for that to  *)
(* a frame, and sends a text or data only when it is asked to.             *)
BeginItem(kind) ==
    /\ Len(items) < MaxItems
    /\ sending = <<>>
    /\ ~awaiting
    /\ kind \in Answers[dialogue]
    /\ items' = Append(items, [kind |-> kind, whole |-> FALSE, fresh |-> StartsFresh(kind),
                               tidy |-> StartsTidy, behind |-> abandoned])
    /\ sending' = Bytes(Len(items) + 1, kind)
    /\ awaiting' = (kind \notin Frames)
    /\ UNCHANGED <<dialogue, abandoned, pause, rx, core1, deviceVars>>

(* The next byte arrives, or both ends of the line.                        *)
SendByte ==
    /\ sending # <<>>
    /\ LET n == IF Head(sending)[1] = "r" THEN 2 ELSE 1
       IN  /\ rx' = rx \o SubSeq(sending, 1, n)
           /\ sending' = SubSeq(sending, n + 1, Len(sending))
    /\ items' = [items EXCEPT ![Len(items)].whole = (sending' = <<>>)]
    /\ pause' = "none"
    /\ UNCHANGED <<answerVars, core1, deviceVars>>

(* It breaks a frame off.                                                  *)
BreakOff ==
    /\ sending # <<>>
    /\ Last.kind \in Frames
    /\ sending' = <<>>
    /\ UNCHANGED <<items, answerVars, pause, rx, core1, deviceVars>>

(* More than BINARY_FRAME_TIMEOUT_MS pass in which the host sends nothing, *)
(* perhaps in the middle of a frame; it gives up waiting for an answer,    *)
(* and may leave the dialogue.  A long pause also ends the time of an open *)
(* dialogue, which the host need not notice.                               *)
Silence(long) ==
    /\ sending # <<>> => Last.kind \in Frames
    /\ rx = <<>>
    /\ core1 = "loop"
    /\ pause' = IF long \/ pause = "long" THEN "long" ELSE "short"
    /\ items' = IF sending = <<>> THEN items ELSE [items EXCEPT ![Len(items)].fresh = FALSE]
    /\ frame_stalled' = (binary_frame_buffer # <<>>)
    /\ awaiting' = FALSE
    /\ dialogue' = "IDLE" \/ (~awaiting /\ dialogue' = dialogue)
    /\ abandoned' = (abandoned \/ dialogue' # dialogue)
    /\ late' = (late \/ (long /\ device_state # "IDLE"))
    /\ UNCHANGED <<sending, rx, core1, binary_frame_buffer, binary_protocol_active,
                   at_buffer, device_state, received, served>>

-----------------------------------------------------------------------------
(* Core 1                                                                  *)

(* OK or ERROR asks the host for nothing, READY for the rest of a dialogue.*)
(* It takes any answer for the one it waits for.                           *)
Answer(asked) ==
    /\ awaiting' = FALSE
    /\ dialogue' = asked
    /\ abandoned' = FALSE

Serve(i) == served' = [served EXCEPT ![i] = @ + 1]

at_reset_state ==
    /\ device_state' = "IDLE"
    /\ received' = <<>>
    /\ late' = FALSE

IsAscii(b) == b[1] \in LineEnd \union {"c"}

(* binary_frame_timeout_check: what is left of the frame under way.        *)
Pending == IF frame_stalled THEN <<>> ELSE binary_frame_buffer

(* loop(): bytes are there, and go on to the frame under way, to the open  *)
(* dialogue, or to the protocol their first one belongs to.                *)
Dispatch(target) ==
    /\ core1 = "loop"
    /\ rx # <<>>
    /\ binary_frame_buffer' = Pending
    /\ frame_stalled' = FALSE
    /\ core1' = target

DispatchFrame ==
    /\ Dispatch("frame")
    /\ Pending # <<>> \/ (device_state = "IDLE" /\ ~IsAscii(Head(rx)))
    /\ UNCHANGED <<hostVars, answerVars, rx, otherVars>>

DispatchAt ==
    /\ Dispatch("at")
    /\ Pending = <<>>
    /\ device_state = "IDLE"
    /\ IsAscii(Head(rx))
    /\ binary_protocol_active' = FALSE
    /\ UNCHANGED <<hostVars, answerVars, rx, at_buffer, dialogueVars, served>>

DispatchDialogue ==
    /\ device_state \in Dialogues
    /\ ~late
    /\ Dispatch(IF device_state = "WAITING_FOR_MSG" THEN "text" ELSE "data")
    /\ Pending = <<>>
    /\ binary_protocol_active' = FALSE
    /\ UNCHANGED <<hostVars, answerVars, rx, at_buffer, dialogueVars, served>>

(* Mutant: the time-out flushes what has arrived, as AT+MSG does.          *)
TimeOutFlushes ==
    /\ device_state \in Dialogues
    /\ late
    /\ Dispatch("loop")
    /\ Pending = <<>>
    /\ binary_protocol_active' = FALSE
    /\ at_reset_state
    /\ Answer("IDLE")
    /\ rx' = <<>>
    /\ UNCHANGED <<hostVars, at_buffer, served>>

(* The handler of the dialogue finds that its time is up, and reads        *)
(* nothing.                                                                *)
DialogueTimesOut ==
    /\ device_state \in Dialogues
    /\ late
    /\ Dispatch("loop")
    /\ Pending = <<>>
    /\ binary_protocol_active' = FALSE
    /\ at_reset_state
    /\ Answer("IDLE")
    /\ UNCHANGED <<hostVars, rx, at_buffer, served>>

(* A loop that finds nothing more to read.                                 *)
Drained ==
    /\ core1 # "loop"
    /\ rx = <<>>
    /\ core1 = "text" => Len(received) < MAX_FLEX_MESSAGE_LENGTH
    /\ core1' = "loop"
    /\ UNCHANGED <<hostVars, answerVars, rx, deviceVars>>

(* One byte is read.                                                       *)
Read(loop) ==
    /\ core1 = loop
    /\ rx # <<>>
    /\ rx' = Tail(rx)

(* process_binary_frame: the byte that finds the buffer full empties it    *)
(* and is lost.                                                            *)
FrameOverflow ==
    /\ Read("frame")
    /\ Len(binary_frame_buffer) >= FrameBufferSize
    /\ binary_frame_buffer' = <<>>
    /\ frame_stalled' = FALSE
    /\ UNCHANGED <<hostVars, answerVars, core1, otherVars>>

FrameByte ==
    /\ Read("frame")
    /\ Len(binary_frame_buffer) < FrameBufferSize
    /\ Head(rx)[1] # "z"
    /\ binary_frame_buffer' = Append(binary_frame_buffer, Head(rx))
    /\ UNCHANGED <<hostVars, answerVars, core1, frame_stalled, otherVars>>

(* A zero ends the frame, and handle_binary_packet takes it if size and    *)
(* CRC say that it is one the host sent.                                   *)
EndFrame(active) ==
    /\ Read("frame")
    /\ Len(binary_frame_buffer) < FrameBufferSize
    /\ Head(rx)[1] = "z"
    /\ LET i == Head(rx)[2]
       IN  IF /\ items[i].kind \in Frames
              /\ Append(binary_frame_buffer, Head(rx)) = Bytes(i, items[i].kind)
           THEN binary_protocol_active' = active /\ Serve(i)
           ELSE UNCHANGED <<binary_protocol_active, served>>
    /\ binary_frame_buffer' = <<>>
    /\ frame_stalled' = FALSE
    /\ core1' = "loop"
    /\ UNCHANGED <<hostVars, answerVars, at_buffer, dialogueVars>>

(* Mutant: a frame of the host does not make the binary protocol active.   *)
FrameEndsUnnoticed == EndFrame(binary_protocol_active)

FrameEnds == EndFrame(TRUE)

(* at_process_serial, the buffer full.                                     *)
AtOverflow ==
    /\ Read("at")
    /\ Len(at_buffer) >= AtBufferSize - 1
    /\ at_buffer' = <<>>
    /\ Answer("IDLE")
    /\ UNCHANGED <<hostVars, core1, frameVars, binary_protocol_active, dialogueVars,
                   served>>

(* A line ends with "\n", or with "\r" unless that is its first byte.      *)
EndsLine == Head(rx)[1] = "n" \/ (Head(rx)[1] = "r" /\ at_buffer # <<>>)

StoreBelow(limit) ==
    /\ Read("at")
    /\ Len(at_buffer) < limit
    /\ ~EndsLine
    /\ at_buffer' = Append(at_buffer, Head(rx))
    /\ UNCHANGED <<hostVars, answerVars, core1, frameVars, binary_protocol_active,
                   dialogueVars, served>>

(* Mutant: no room is kept for the terminator.                             *)
AtByteOffByOne == StoreBelow(AtBufferSize)

AtByte == StoreBelow(AtBufferSize - 1)

(* The bytes of the string at_parse_command sees: a zero ends it.          *)
Line == {at_buffer[j] : j \in {i \in 1 .. Len(at_buffer) :
                                  \A k \in 1 .. i : at_buffer[k][1] # "z"}}

IsCommand(i, kind) == items[i].kind = kind /\ Line = {Bytes(i, kind)[1]}

(* Nothing but line ends: no answer.                                       *)
EmptyLine ==
    /\ \A b \in Line : b[1] \in LineEnd
    /\ UNCHANGED <<answerVars, dialogueVars, served>>
    /\ rx' = Tail(rx)

Command(i) ==
    /\ IsCommand(i, "line")
    /\ Answer("IDLE")
    /\ Serve(i)
    /\ UNCHANGED dialogueVars
    /\ rx' = Tail(rx)

(* AT+MSG or AT+SEND; at_flush_serial_buffers drops what has arrived since.*)
OpenDialogue(i) ==
    \E kind \in DOMAIN Asks :
        /\ IsCommand(i, kind)
        /\ Answer(Asks[kind])
        /\ Serve(i)
        /\ device_state' = Asks[kind]
        /\ received' = <<>>
        /\ late' = FALSE
        /\ rx' = <<>>

BadLine ==
    /\ \E b \in Line : b[1] \notin LineEnd
    /\ ~ \E i \in 1 .. Len(items) : \E kind \in {"line"} \union DOMAIN Asks :
          IsCommand(i, kind)
    /\ Answer("IDLE")
    /\ UNCHANGED <<dialogueVars, served>>
    /\ rx' = Tail(rx)

AtLine ==
    /\ core1 = "at"
    /\ rx # <<>>
    /\ Len(at_buffer) < AtBufferSize - 1
    /\ EndsLine
    /\ \/ EmptyLine
       \/ \E i \in 1 .. Len(items) : Command(i) \/ OpenDialogue(i)
       \/ BadLine
    /\ at_buffer' = <<>>
    /\ core1' = "loop"
    /\ UNCHANGED <<hostVars, frameVars, binary_protocol_active>>

(* What the dialogue queues of an item: its text, cut to the length of a   *)
(* message, or its data.                                                   *)
Content(i) ==
    IF items[i].kind = "data" THEN Bytes(i, "data")
    ELSE SubSeq(Bytes(i, items[i].kind), 1,
                IF items[i].kind = "long" THEN MAX_FLEX_MESSAGE_LENGTH ELSE 1)

(* The message is queued, and the dialogue is over.                        *)
Complete(message) ==
    /\ LET sources == {i \in 1 .. Len(items) : /\ items[i].kind \in {"text", "long", "data"}
                                               /\ message = Content(i)}
       IN  served' = [i \in 1 .. MaxItems |-> IF i \in sources THEN served[i] + 1 ELSE served[i]]
    /\ at_reset_state
    /\ Answer("IDLE")
    /\ core1' = "loop"

(* at_handle_flex_message: printable bytes are the text, others are lost.  *)
TextByte ==
    /\ Read("text")
    /\ Len(received) < MAX_FLEX_MESSAGE_LENGTH
    /\ Head(rx)[1] \notin LineEnd
    /\ IF Head(rx)[1] = "c"
       THEN /\ received' = Append(received, Head(rx))
            /\ late' = FALSE
       ELSE UNCHANGED <<received, late>>
    /\ UNCHANGED <<hostVars, answerVars, core1, frameVars, binary_protocol_active, at_buffer,
                   device_state, served>>

(* A line end completes the text.                                          *)
TextEnds ==
    /\ Read("text")
    /\ Len(received) < MAX_FLEX_MESSAGE_LENGTH
    /\ Head(rx)[1] \in LineEnd
    /\ Complete(received)
    /\ UNCHANGED <<hostVars, frameVars, binary_protocol_active, at_buffer>>

(* Mutant: a text cut short is queued without an answer.                   *)
TextIsFullSilently ==
    /\ core1 = "text"
    /\ Len(received) = MAX_FLEX_MESSAGE_LENGTH
    /\ rx' = <<>>
    /\ at_reset_state
    /\ core1' = "loop"
    /\ UNCHANGED <<hostVars, answerVars, served, frameVars, binary_protocol_active, at_buffer>>

(* So does a full buffer; what has arrived by now is dropped.              *)
TextIsFull ==
    /\ core1 = "text"
    /\ Len(received) = MAX_FLEX_MESSAGE_LENGTH
    /\ rx' = <<>>
    /\ Complete(received)
    /\ UNCHANGED <<hostVars, frameVars, binary_protocol_active, at_buffer>>

(* at_handle_binary_data: every byte counts, and the last completes.       *)
DataByte ==
    /\ Read("data")
    /\ LET data == Append(received, Head(rx))
       IN  IF Len(data) < DataLength
           THEN /\ received' = data
                /\ late' = FALSE
                /\ UNCHANGED <<answerVars, core1, device_state, served>>
           ELSE Complete(data)
    /\ UNCHANGED <<hostVars, frameVars, binary_protocol_active, at_buffer>>

-----------------------------------------------------------------------------
Host ==
    \/ \E kind \in Kinds : BeginItem(kind)
    \/ SendByte
    \/ BreakOff
    \/ \E long \in BOOLEAN : Silence(long)

Core1 ==
    \/ DispatchFrame
    \/ DispatchAt
    \/ DispatchDialogue
    \/ DialogueTimesOut
    \/ Drained
    \/ FrameOverflow
    \/ FrameByte
    \/ FrameEnds
    \/ AtOverflow
    \/ AtByte
    \/ AtLine
    \/ TextByte
    \/ TextEnds
    \/ TextIsFull
    \/ DataByte

Next == Host \/ Core1

Safety == Init /\ [][Next]_vars

(* Core 1 keeps reading, and the host sends what it has begun.             *)
Spec == Safety /\ WF_vars(Core1) /\ WF_vars(SendByte \/ BreakOff)

-----------------------------------------------------------------------------
Byte == {"c", "r", "n", "h", "z"} \X (1 .. MaxItems) \X (Nat \ {0})

ItemRecord ==
    [kind : Kinds, whole : BOOLEAN, fresh : BOOLEAN, tidy : BOOLEAN, behind : BOOLEAN]

HostTypes ==
    /\ items \in Seq(ItemRecord)
    /\ Len(items) <= MaxItems
    /\ sending \in Seq(Byte)
    /\ awaiting \in BOOLEAN
    /\ dialogue \in DOMAIN Answers
    /\ abandoned \in BOOLEAN
    /\ pause \in {"none", "short", "long"}

InputTypes ==
    /\ rx \in Seq(Byte)
    /\ core1 \in {"loop", "frame", "at", "text", "data"}
    /\ binary_frame_buffer \in Seq(Byte) /\ Len(binary_frame_buffer) <= FrameBufferSize
    /\ frame_stalled \in BOOLEAN
    /\ binary_protocol_active \in BOOLEAN
    /\ at_buffer \in Seq(Byte) /\ Len(at_buffer) < AtBufferSize

DialogueTypes ==
    /\ device_state \in DOMAIN Answers
    /\ received \in Seq(Byte)
    /\ Len(received) <= IF device_state = "WAITING_FOR_DATA" THEN DataLength - 1
                        ELSE MAX_FLEX_MESSAGE_LENGTH
    /\ late \in BOOLEAN

(* Type invariant: no input buffer is ever overrun, and no item takes      *)
(* effect twice.                                                           *)
TypeOK ==
    /\ HostTypes /\ InputTypes /\ DialogueTypes
    /\ served \in [1 .. MaxItems -> {0, 1}]

Rest == rx = <<>> /\ core1 = "loop" /\ sending = <<>>

(* The device finds back into step: a whole item that the host sends after *)
(* a pause takes effect, whatever was broken off or lost before, and so    *)
(* does every one that follows it without a mishap.  A long pause is       *)
(* enough after a dialogue that was abandoned, and timed out unnoticed;    *)
(* after a shorter one the host must not have abandoned any.  All but a    *)
(* frame also need that the pause left no stray bytes in at_buffer, which  *)
(* no time-out empties, or in the open dialogue.                           *)
FreshItemsServed ==
    Rest => \A i \in 1 .. Len(items) :
        /\ items[i].fresh
        /\ items[i].whole
        /\ items[i].kind \in Frames \/ items[i].tidy
        => served[i] = 1

(* Events reach a host whose last word was a frame: bytes of lines it sent *)
(* before cannot switch them off again.                                    *)
BinaryHostHeard ==
    Rest /\ items # <<>> /\ Last.kind \in Frames /\ served[Len(items)] = 1
        => binary_protocol_active

(* A host that sends such a line, text or data gets an answer; when it had *)
(* left a dialogue, the first may be the ERROR of the time-out.            *)
FreshItemAnswered ==
    (awaiting /\ Last.fresh /\ Last.tidy) ~> ~awaiting

(* docs/AT_COMMANDS.md, AT+MSG: "Next line is message text."  None of the  *)
(* text of that line goes to the AT parser.                                *)
LineIsText ==
    \A j \in 1 .. Len(at_buffer) :
        LET item == items[at_buffer[j][2]]
        IN  item.kind \in {"text", "long"} /\ item.fresh /\ item.tidy
                => at_buffer[j][1] \in LineEnd
=============================================================================

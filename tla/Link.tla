-------------------------------- MODULE Link --------------------------------
(***************************************************************************)
(* One exchange after another between a host library and the device, byte  *)
(* by byte: the library builds and frames a command, the line may damage   *)
(* one byte of it, the device reads, checks and answers it, and the        *)
(* library reads the answer.  With the clock of the device, which a        *)
(* command may set.  Who waits how long for whom is HostLibrary's.         *)
(***************************************************************************)
EXTENDS Packet

CONSTANTS
    Uuids, Capcodes, Texts,     \* what the program asks for
    Times, Zones,               \* what the host's clock may show
    Noise,                      \* the bytes a damaged one may turn into
    Ascii,                      \* printable bytes, carriage return, line feed
    LogLines                    \* what the device may have printed before a frame

ASSUME LinkAssumption ==
    /\ \A u \in Uuids : u \in Seq(Byte) /\ Len(u) = UUID_SIZE
    /\ \A text \in Texts : text \in Seq(1 .. 255)       \* C strings
    /\ Capcodes \subseteq Byte /\ Times \subseteq Word /\ Zones \subseteq Byte
    /\ Noise \subseteq Byte
    /\ Ascii \subseteq 4 .. 255                          \* 10 is the first in the code
    /\ \A l \in LogLines : l \in Seq(Ascii)

VARIABLES
    phase,      \* idle, request, answer, done
    asked,      \* the command the program gave the library
    line,       \* the bytes on their way to the device
    damaged,    \* the line has changed a byte in this exchange
    handled,    \* the packet the device took, as it reads it
    queued,     \* the text it put in the queue
    up,         \* the bytes on their way to the host
    told,       \* the packet in them, as the device built it
    got,        \* the packet the library took, as it reads it
    clock,      \* of the device
    rtc         \* the clock chip, if there is one

exchange == <<phase, asked, line, damaged, handled, queued, up, told, got>>
clockVars == <<clock, rtc>>
vars == <<exchange, clockVars>>

NoCommand == [opcode |-> 0]

Init ==
    /\ phase = "idle"
    /\ asked = NoCommand
    /\ line = <<>>
    /\ damaged = FALSE
    /\ handled = Nothing
    /\ queued = <<>>
    /\ up = <<>>
    /\ told = <<>>
    /\ got = Nothing
    /\ clock = [set |-> FALSE, time |-> 0, tz |-> 0]
    /\ rtc \in [there : BOOLEAN, lost : BOOLEAN, time : {0}]

-----------------------------------------------------------------------------
(* The library                                                             *)

Ask(opcode, uuid, payload, t, tz) ==
    /\ phase = "idle"
    /\ phase' = "request"
    /\ asked' = [opcode |-> opcode, uuid |-> uuid, payload |-> payload,
                 time |-> t, tz |-> tz]
    /\ line' = Encode(HostPacket(opcode, uuid, payload, t, tz))
    /\ UNCHANGED <<damaged, handled, queued, up, told, got, clockVars>>

flex_send_msg ==
    \E u \in Uuids, c \in Capcodes, m \in {0, 1}, text \in Texts, t \in Times, tz \in Zones :
        Ask(CmdCode.SEND_FLEX, u, SendFlexPayload(c, m, text), t, tz)

flex_ping == \E u \in Uuids, t \in Times, tz \in Zones : Ask(CmdCode.PING, u, <<>>, t, tz)

flex_get_status ==
    \E u \in Uuids, t \in Times, tz \in Zones : Ask(CmdCode.GET_STATUS, u, <<>>, t, tz)

(* Mutant: the frame starts at the first byte that is not printable, be it *)
(* the end of a line.                                                      *)
AfterPrintable(s) ==
    LET starts == {i \in 1 .. Len(s) : s[i] < 32}
    IN  IF starts = {} THEN <<>>
        ELSE SubSeq(s, CHOOSE i \in starts : \A j \in starts : i <= j, Len(s))

(* Text before a frame is printed and dropped, ...                         *)
AfterText(s) ==
    LET starts == {i \in 1 .. Len(s) : s[i] \notin Ascii}
    IN  IF starts = {} THEN <<>>
        ELSE SubSeq(s, CHOOSE i \in starts : \A j \in starts : i <= j, Len(s))

(* ... and a frame ends at the first zero.                                 *)
FirstFrame(s) ==
    LET zeros == {i \in 1 .. Len(s) : s[i] = 0}
    IN  IF zeros = {} THEN <<>>
        ELSE SubSeq(s, 1, CHOOSE i \in zeros : \A j \in zeros : i <= j)

ReadAnswer ==
    /\ phase = "answer"
    /\ phase' = "done"
    /\ got' = HostReads(FirstFrame(AfterText(up)))
    /\ up' = <<>>
    /\ UNCHANGED <<asked, line, damaged, handled, queued, told, clockVars>>

(* The program has its answer, or the library has waited long enough.      *)
Finish ==
    /\ \/ phase = "done"
       \/ phase = "request" /\ line = <<>>
    /\ phase' = "idle"
    /\ asked' = NoCommand
    /\ damaged' = FALSE
    /\ handled' = Nothing
    /\ queued' = <<>>
    /\ told' = <<>>
    /\ got' = Nothing
    /\ UNCHANGED <<line, up, clockVars>>

-----------------------------------------------------------------------------
(* The line: one byte is changed, lost or doubled.                         *)

OneChanged(s) == {[s EXCEPT ![i] = b] : i \in 1 .. Len(s), b \in Noise}
OneLost(s) == {SubSeq(s, 1, i - 1) \o SubSeq(s, i + 1, Len(s)) : i \in 1 .. Len(s)}
OneDoubled(s) == {SubSeq(s, 1, i) \o SubSeq(s, i, Len(s)) : i \in 1 .. Len(s)}
Damages(s) == OneChanged(s) \union OneLost(s) \union OneDoubled(s)

DamageRequest ==
    /\ phase = "request" /\ ~damaged /\ line # <<>>
    /\ damaged' = TRUE
    /\ line' \in Damages(line) \ {line}
    /\ UNCHANGED <<phase, asked, handled, queued, up, told, got, clockVars>>

DamageAnswer ==
    /\ phase = "answer" /\ ~damaged
    /\ damaged' = TRUE
    /\ up' \in Damages(up) \ {up}
    /\ UNCHANGED <<phase, asked, line, handled, queued, told, got, clockVars>>

-----------------------------------------------------------------------------
(* The device                                                              *)

(* A first byte that is text hands the line to the AT parser, and with it  *)
(* what else is there; a frame without an end is dropped in time.          *)
ReceiveText ==
    /\ phase = "request" /\ line # <<>>
    /\ line[1] \in Ascii \/ FirstFrame(line) = <<>>
    /\ line' = <<>>
    /\ UNCHANGED <<phase, asked, damaged, handled, queued, up, told, got, clockVars>>

Rest(s) == SubSeq(s, Len(FirstFrame(s)) + 1, Len(s))

ReceivesFrame ==
    /\ phase = "request" /\ line # <<>>
    /\ line[1] \notin Ascii /\ FirstFrame(line) # <<>>

RejectFrame ==
    /\ ReceivesFrame
    /\ ~DeviceReads(FirstFrame(line)).taken
    /\ line' = Rest(line)
    /\ UNCHANGED <<phase, asked, damaged, handled, queued, up, told, got, clockVars>>

Odd(n) == n % 2 = 1
Apart(a, b) == a > b + 1 \/ b > a + 1

(* A packet whose timestamp is valid sets the time zone, and the clock     *)
(* when it is more than a second off.                                      *)
Adopt(p) ==
    IF ~Odd(p.ts_flags) THEN UNCHANGED clockVars
    ELSE LET adjusts == Odd(p.ts_flags \div 2) /\ Apart(p.unix_timestamp, clock.time)
         IN  /\ clock' = [set |-> clock.set \/ adjusts, tz |-> p.timezone_offset,
                          time |-> IF adjusts THEN p.unix_timestamp ELSE clock.time]
             /\ rtc' = IF adjusts /\ Odd(p.ts_flags \div 4) /\ rtc.there
                       THEN [rtc EXCEPT !.time = p.unix_timestamp, !.lost = FALSE]
                       ELSE rtc

(* dispatch_binary_command: CMD_ABORT is accepted, the other commands are  *)
(* refused, and what is no command is not answered.  room: the queue takes *)
(* the message.                                                            *)
Answer(p, room) ==
    IF p.type # TypeCode.CMD THEN <<>> ELSE
    CASE p.opcode = CmdCode.PING -> build_rsp_pong(p.uuid, clock')
      [] p.opcode = CmdCode.GET_STATUS ->
           build_rsp_status(p.uuid, <<0, 1, 100, 0, 1>>, clock')
      [] p.opcode = CmdCode.SEND_FLEX ->
           IF ~Acceptable(p) THEN build_rsp_nack(p.uuid, 3, clock')
           ELSE IF room THEN build_rsp_ack(p.uuid, 0, clock')
           ELSE build_rsp_nack(p.uuid, 2, clock')
      [] p.opcode = CmdCode.ABORT -> build_rsp_ack(p.uuid, 0, clock')
      [] OTHER -> build_rsp_nack(p.uuid, 1, clock')

HandlePacket(room) ==
    /\ ReceivesFrame
    /\ LET p == DeviceReads(FirstFrame(line))
       IN  /\ p.taken
           /\ handled' = p
           /\ Adopt(p)
           /\ told' = Answer(p, room)
           /\ queued' = IF p.opcode = CmdCode.SEND_FLEX /\ Acceptable(p) /\ room
                        THEN safe_message(p.payload) ELSE <<>>
    /\ IF told' = <<>> THEN UNCHANGED <<up, phase>>
       ELSE /\ up' \in {l \o Encode(told') : l \in LogLines}
            /\ phase' = "answer"
    /\ line' = Rest(line)
    /\ UNCHANGED <<asked, damaged, got>>

(* The events of a message, after its acknowledgement has been read.       *)
Announce ==
    /\ phase = "done" /\ queued # <<>>
    /\ told' \in {build_evt_tx_queued(handled.uuid, 1, clock),
                  build_evt_tx_start(handled.uuid, clock),
                  build_evt_tx_done(handled.uuid, 0, clock),
                  build_evt_tx_failed(handled.uuid, 2, clock)}
    /\ up' = Encode(told')
    /\ got' = Nothing
    /\ phase' = "answer"
    /\ UNCHANGED <<asked, line, damaged, handled, queued, clockVars>>

(* AT+CCLK                                                                 *)
SetClock(t, tz) ==
    /\ phase = "idle"
    /\ clock' = [set |-> TRUE, time |-> t, tz |-> tz]
    /\ rtc' = IF rtc.there THEN [rtc EXCEPT !.time = t, !.lost = FALSE] ELSE rtc
    /\ UNCHANGED exchange

(* A reset: the clock is that of the chip, if it has kept the time; the    *)
(* time zone is that of the settings, which no command changes.            *)
Restart ==
    /\ phase = "idle"
    /\ clock' = IF rtc.there /\ ~rtc.lost
                THEN [set |-> TRUE, time |-> rtc.time, tz |-> 0]
                ELSE [set |-> FALSE, time |-> 0, tz |-> 0]
    /\ UNCHANGED <<exchange, rtc>>

Next ==
    \/ flex_send_msg
    \/ flex_ping
    \/ flex_get_status
    \/ ReadAnswer
    \/ Finish
    \/ DamageRequest
    \/ DamageAnswer
    \/ ReceiveText
    \/ RejectFrame
    \/ \E room \in BOOLEAN : HandlePacket(room)
    \/ Announce
    \/ \E t \in Times, tz \in Zones : SetClock(t, tz)
    \/ Restart

Spec == Init /\ [][Next]_vars

-----------------------------------------------------------------------------

(* Types, and the shape of an undamaged frame: bytes, its only zero at the *)
(* end, and short enough for the buffers of ten bytes more than a packet.  *)
TypeOK ==
    /\ phase \in {"idle", "request", "answer", "done"}
    /\ damaged \in BOOLEAN
    /\ clock \in [set : BOOLEAN, time : Word, tz : Byte]
    /\ rtc \in [there : BOOLEAN, lost : BOOLEAN, time : Word]
    /\ line \in Seq(Byte) /\ up \in Seq(Byte)
    /\ line # <<>> /\ ~damaged =>
         /\ Len(line) <= PACKET_FIXED_SIZE + 2 + PACKET_FIXED_SIZE \div (MAX_CODE - 1)
         /\ \A i \in 1 .. Len(line) : line[i] = 0 <=> i = Len(line)

(* The packet that was taken is the command of the program, field by field.*)
FieldsAreAsked ==
    /\ handled.opcode = asked.opcode
    /\ handled.uuid = asked.uuid
    /\ handled.payload_len = Len(asked.payload)
    /\ SubSeq(handled.payload, 1, handled.payload_len) = asked.payload

(* The text that is queued is the one of the program, or as much of it as  *)
(* a pager shows.                                                          *)
TextIsAsked ==
    LET text == SubSeq(asked.payload, CMD_SEND_FLEX_ARGS_SIZE + 1, Len(asked.payload))
    IN  \/ queued = text /\ Len(text) <= MAX_FLEX_MESSAGE_LENGTH
        \/ /\ Len(queued) = MAX_FLEX_MESSAGE_LENGTH
           /\ Len(text) > MAX_FLEX_MESSAGE_LENGTH
           /\ \A i \in 1 .. MAX_FLEX_MESSAGE_LENGTH - 3 : queued[i] = text[i]

(* What the device handles is what the library was asked to send, whatever *)
(* one damaged byte did to the frame around it, and its clock shows no     *)
(* time that no host has given it.                                         *)
HandledIsAsked ==
    /\ handled.taken => FieldsAreAsked
    /\ queued # <<>> => TextIsAsked
    /\ clock.time \in Times \union {0} /\ clock.tz \in Zones \union {0}
    /\ rtc.time \in Times \union {0}

(* A frame that was not damaged is handled as what it is, unless its first *)
(* byte is taken for text.                                                 *)
UndamagedIsHandled ==
    ~damaged =>
        /\ phase = "request" /\ line = <<>> =>
               Encode(HostPacket(asked.opcode, asked.uuid, asked.payload,
                                 asked.time, asked.tz))[1] \in Ascii
        /\ phase \in {"answer", "done"} => handled.taken
        /\ handled.taken => FieldsAreAsked
        /\ queued # <<>> => TextIsAsked

(* What the device wrote, each field where the firmware has it.            *)
Said == Fields(told, ts_offset)

Untimed == {"taken", "type", "opcode", "flags", "uuid", "payload_len", "payload"}

(* When nothing was damaged the library reads what the device wrote,       *)
(* whatever text stood before the frame (_flex_recv_packet), but for the   *)
(* timestamp, of which AnswerTimeRead says more.                           *)
AnswerIsRead ==
    phase = "done" /\ ~damaged => got.taken /\ \A f \in Untimed : got[f] = Said[f]

(* So it does with the timestamp, from which the host is to compute the    *)
(* latency (src/README.md:276-279).  The code has it look one byte too     *)
(* early (FlexDevice.h:44, "must match binary_packet.h").                  *)
AnswerTimeRead == phase = "done" /\ ~damaged => got = Said

(* And it reads nothing else, whatever one damaged byte did: a packet that *)
(* it takes is byte for byte the device's, a timestamp read too early from *)
(* the device's bytes too.                                                 *)
NothingElseIsRead == phase = "done" /\ got.taken => got = Fields(told, FLEX_TS_OFFSET)

(* A command brings the clock of the device to the time of the host.       *)
HostTimeAdopted ==
    handled.taken => clock.set /\ ~Apart(clock.time, asked.time)
=============================================================================

------------------------------- MODULE Packet -------------------------------
(***************************************************************************)
(* The packet of fixed size: how the host libraries and the firmware build *)
(* one and read one.  The sizes are parameters; the two ends agree on all  *)
(* of them but the offset of the timestamp.                                *)
(***************************************************************************)
EXTENDS Cobs, Crc16

CONSTANTS
    UUID_SIZE,
    PACKET_PAYLOAD_SIZE,
    FLEX_TS_OFFSET,              \* where the libraries put the timestamp
    MAX_MESSAGE_IN_PROTOCOL,
    MAX_FLEX_MESSAGE_LENGTH,
    ValidCapcodes

PACKET_HEADER_SIZE == 5 + UUID_SIZE
ts_offset == PACKET_HEADER_SIZE + PACKET_PAYLOAD_SIZE    \* where the firmware has it
PACKET_CRC_OFFSET == ts_offset + 8
PACKET_FIXED_SIZE == PACKET_CRC_OFFSET + 2
CMD_SEND_FLEX_ARGS_SIZE == 3     \* capcode, mail drop and length; 15 in the code

ASSUME PacketAssumption ==
    /\ UUID_SIZE \in Nat \ {0}
    /\ PACKET_PAYLOAD_SIZE \in Nat /\ PACKET_PAYLOAD_SIZE < 256
    /\ MAX_MESSAGE_IN_PROTOCOL \in Nat
    /\ MAX_FLEX_MESSAGE_LENGTH \in 3 .. MAX_MESSAGE_IN_PROTOCOL
    /\ CMD_SEND_FLEX_ARGS_SIZE + MAX_MESSAGE_IN_PROTOCOL < PACKET_PAYLOAD_SIZE
    /\ FLEX_TS_OFFSET \in {ts_offset - 1, ts_offset}      \* the first in the code

Min2(a, b) == IF a < b THEN a ELSE b
Zeros(n) == [i \in 1 .. n |-> 0]
Filled(s, n) == s \o Zeros(n - Len(s))

(* raw[from .. from + n - 1], counted from zero as the code does           *)
Bytes(raw, from, n) == SubSeq(raw, from + 1, from + n)
At(raw, i) == raw[i + 1]
UInt16(hi, lo) == hi * 256 + lo

TypeCode == [CMD |-> 1, RSP |-> 2, EVT |-> 3]
CmdCode == [SEND_FLEX |-> 1, GET_STATUS |-> 2, ABORT |-> 3, PING |-> 6]
RspCode == [ACK |-> 1, NACK |-> 2, STATUS |-> 3, PONG |-> 5]
EvtCode == [TX_QUEUED |-> 1, TX_START |-> 2, TX_DONE |-> 3, TX_FAILED |-> 4]
FLAG_ACK_REQUIRED == 1
TS_FLAG_VALID == 1
HOST_TS_FLAGS == 7               \* valid, adjust the clock, set the RTC

-----------------------------------------------------------------------------
(* Building.                                                               *)

Header(type, opcode, flags, uuid, payload) ==
    <<type, opcode, flags>> \o uuid \o <<0, Len(payload)>>

(* Eight bytes: seconds and milliseconds, the most significant byte first, *)
(* the time zone in half hours, the flags.                                 *)
Timestamp(t, tz, flags) == <<0, 0, t \div 256, t % 256, 0, 0, tz, flags>>

(* Completes a packet: the checksum, its low byte first.                   *)
Sealed(body) ==
    LET crc == crc16_ccitt(body) IN body \o <<crc % 256, crc \div 256>>

(* The libraries' packet                                                   *)
HostPacket(opcode, uuid, payload, t, tz) ==
    Sealed(Filled(Filled(Header(TypeCode.CMD, opcode, FLAG_ACK_REQUIRED, uuid, payload)
                         \o payload, FLEX_TS_OFFSET)
                  \o Timestamp(t, tz, HOST_TS_FLAGS), PACKET_CRC_OFFSET))

(* The payload of a message.  What is longer than a byte can say is cut.   *)
SendFlexPayload(capcode, mail_drop, text) ==
    LET msg_len == Min2(Len(text), MAX_MESSAGE_IN_PROTOCOL)
    IN  <<capcode, mail_drop, msg_len>> \o SubSeq(text, 1, msg_len)

(* The firmware's packet                                                   *)
DevicePacket(type, opcode, uuid, payload, clock) ==
    Sealed(Filled(Header(type, opcode, 0, uuid, payload) \o payload, ts_offset)
           \o Timestamp(clock.time, clock.tz, IF clock.set THEN TS_FLAG_VALID ELSE 0))

build_rsp_ack(uuid, status, clock) ==
    DevicePacket(TypeCode.RSP, RspCode.ACK, uuid, <<status>>, clock)
build_rsp_nack(uuid, status, clock) ==
    DevicePacket(TypeCode.RSP, RspCode.NACK, uuid, <<status>>, clock)
build_rsp_status(uuid, status, clock) ==
    DevicePacket(TypeCode.RSP, RspCode.STATUS, uuid, status, clock)
build_rsp_pong(uuid, clock) ==
    DevicePacket(TypeCode.RSP, RspCode.PONG, uuid, <<>>, clock)
build_evt_tx_queued(uuid, pos, clock) ==
    DevicePacket(TypeCode.EVT, EvtCode.TX_QUEUED, uuid, <<pos>>, clock)
build_evt_tx_start(uuid, clock) ==
    DevicePacket(TypeCode.EVT, EvtCode.TX_START, uuid, <<>>, clock)
build_evt_tx_done(uuid, result, clock) ==
    DevicePacket(TypeCode.EVT, EvtCode.TX_DONE, uuid, <<result>>, clock)
build_evt_tx_failed(uuid, error, clock) ==
    DevicePacket(TypeCode.EVT, EvtCode.TX_FAILED, uuid, <<error>>, clock)

-----------------------------------------------------------------------------
(* Reading.                                                                *)

Nothing == [taken |-> FALSE]

(* Mutant: the checksum is not compared.                                   *)
PassesBySize(raw) == Len(raw) = PACKET_FIXED_SIZE

(* handle_binary_packet and the libraries accept a packet of the right     *)
(* size with the right checksum.                                           *)
Passes(raw) ==
    /\ Len(raw) = PACKET_FIXED_SIZE
    /\ UInt16(At(raw, PACKET_CRC_OFFSET + 1), At(raw, PACKET_CRC_OFFSET))
         = crc16_ccitt(Bytes(raw, 0, PACKET_CRC_OFFSET))

(* The fields of a packet, its timestamp looked for at offset ts.          *)
Fields(raw, ts) ==
    [taken |-> TRUE,
     type |-> At(raw, 0), opcode |-> At(raw, 1), flags |-> At(raw, 2),
     uuid |-> Bytes(raw, 3, UUID_SIZE),
     payload_len |-> UInt16(At(raw, 3 + UUID_SIZE), At(raw, 4 + UUID_SIZE)),
     payload |-> Bytes(raw, PACKET_HEADER_SIZE, PACKET_PAYLOAD_SIZE),
     unix_timestamp |-> UInt16(At(raw, ts + 2), At(raw, ts + 3)),
     timezone_offset |-> At(raw, ts + 6),
     ts_flags |-> At(raw, ts + 7)]

DeviceReads(frame) ==
    LET raw == Decode(frame)
    IN  IF Passes(raw) THEN Fields(raw, ts_offset) ELSE Nothing

(* _flex_recv_packet, _recv_packet.                                        *)
HostReads(frame) ==
    LET raw == Decode(frame)
    IN  IF Passes(raw) THEN Fields(raw, FLEX_TS_OFFSET) ELSE Nothing

(* A text in the buffer of a C string                                      *)
CString(s) ==
    LET ends == {i \in 1 .. Len(s) : s[i] = 0}
    IN  IF ends = {} THEN s
        ELSE SubSeq(s, 1, (CHOOSE i \in ends : \A j \in ends : i <= j) - 1)

(* The text that is queued: one that a pager cannot show is cut and ends   *)
(* in three dots.                                                          *)
safe_message(payload) ==
    LET msg_len == payload[CMD_SEND_FLEX_ARGS_SIZE]
        text == SubSeq(payload, CMD_SEND_FLEX_ARGS_SIZE + 1,
                       CMD_SEND_FLEX_ARGS_SIZE + msg_len)
    IN  CString(IF msg_len > MAX_FLEX_MESSAGE_LENGTH
                THEN SubSeq(text, 1, MAX_FLEX_MESSAGE_LENGTH - 3) \o <<46, 46, 46>>
                ELSE text)

(* The checks of handle_cmd_send_flex before the queue                     *)
Acceptable(p) ==
    /\ p.payload_len \in CMD_SEND_FLEX_ARGS_SIZE .. PACKET_PAYLOAD_SIZE
    /\ p.payload[CMD_SEND_FLEX_ARGS_SIZE] \in 1 .. MAX_MESSAGE_IN_PROTOCOL
    /\ p.payload[1] \in ValidCapcodes
=============================================================================

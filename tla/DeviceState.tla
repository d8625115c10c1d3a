---------------------------- MODULE DeviceState -----------------------------
(***************************************************************************)
(* The state the two cores of the transmitter share, what each keeps for   *)
(* itself, and what the host has seen.  TransmissionTask has the steps of  *)
(* Core 0, BinaryCommands and AtCommands those of Core 1, and Device puts  *)
(* them together.                                                          *)
(*                                                                         *)
(* The message queue appears here as the abstract FifoQueue, which         *)
(* MessageQueue shows the ring buffer to implement.                        *)
(***************************************************************************)
EXTENDS Naturals, Sequences

CONSTANTS
    Uuids,               \* the messages that can be sent, by their uuid
    Freqs,               \* carrier frequencies
    MESSAGE_QUEUE_SIZE,
    FrameChunks,         \* FIFO loads in an encoded FLEX frame
    BufferLoads,         \* FIFO loads tx_data_buffer has room for
    DataLoads,           \* the lengths AT+SEND announces in a run, in FIFO loads
    Inputs,              \* the kinds of input Core 1 receives in a run
    RadioFaults,         \* the operations of Core 0 that may fail in a run
    NoMessage            \* no message is in service

ASSUME DeviceAssumption ==
    /\ Freqs # {}
    /\ MESSAGE_QUEUE_SIZE \in Nat \ {0}
    /\ FrameChunks \in Nat \ {0}
    /\ BufferLoads \in Nat /\ FrameChunks <= BufferLoads
    /\ DataLoads \subseteq 1 .. BufferLoads
    /\ RadioFaults \subseteq {"tune", "encode", "start"}

(* QueuedMessage                                                           *)
Message == [uuid : Uuids, freq : Freqs, mail_drop : BOOLEAN]

ASSUME NoMessageAssumption == NoMessage \notin Message

VARIABLES
    (* shared by both cores *)
    queue,                         \* the messages of the queue, oldest first
    serving,                       \* the one Core 0 points to
    device_state,
    current_tx_frequency,
    tx_data_buffer,                \* by load: of whose frame, or "user" bytes
    current_tx_total_length,
    radio,                         \* its mode and the frequency it is tuned to
    binary_protocol_active,
    (* Core 0 *)
    task,                          \* where transmission_task is
    outcome,                       \* of the message in service
    current_tx_remaining_length,
    fifo_empty,
    (* Core 1 *)
    core1,                         \* where the Arduino loop is
    adding,                        \* the message it is adding to the queue
    command,                       \* the AT command it is carrying out
    flex_mail_drop,
    expected_data_length,          \* what AT+SEND announced, in FIFO loads
    (* what the host knows *)
    fate,                          \* what became of each message
    events,                        \* the packets it got about each message
    at_host,                       \* what it will type next: a command or data
    (* history, which no step of the code looks at *)
    aired,                         \* loads of each message's frame sent, in order
    disturbed                      \* messages under whose transmission an AT
                                   \* command took the radio or the buffer

queueVars == <<queue, serving>>
bufferVars == <<tx_data_buffer, current_tx_total_length>>
airHistory == <<aired, disturbed>>
airVars == <<bufferVars, radio, airHistory>>
taskVars == <<task, outcome, current_tx_remaining_length, fifo_empty>>
dialogueVars == <<flex_mail_drop, expected_data_length>>
core1Vars == <<core1, adding, command, dialogueVars>>
hostVars == <<at_host>>
vars == <<queueVars, device_state, current_tx_frequency, airVars,
          binary_protocol_active, taskVars, core1Vars, fate, events, hostVars>>

Fifo == INSTANCE FifoQueue WITH Capacity <- MESSAGE_QUEUE_SIZE, Messages <- Message

Init ==
    /\ Fifo!Init
    /\ device_state = "IDLE"
    /\ current_tx_frequency \in Freqs
    /\ tx_data_buffer = [i \in 1 .. BufferLoads |-> "zero"]
    /\ current_tx_total_length = 0
    /\ radio = [mode |-> "standby", freq |-> current_tx_frequency]
    /\ binary_protocol_active = FALSE
    /\ task = "idle"
    /\ outcome = "none"
    /\ current_tx_remaining_length = 0
    /\ fifo_empty = FALSE
    /\ core1 = "loop"
    /\ adding = NoMessage
    /\ command = "none"
    /\ flex_mail_drop = FALSE
    /\ expected_data_length = 0
    /\ fate = [u \in Uuids |-> "unused"]
    /\ events = [u \in Uuids |-> <<>>]
    /\ at_host = "command"
    /\ aired = [u \in Uuids |-> 0]
    /\ disturbed = {}

(* Every event sender is silent unless the binary protocol is active.      *)
Emit(u, packet) ==
    events' = IF binary_protocol_active
              THEN [events EXCEPT ![u] = Append(@, packet)]
              ELSE events

(* The guard of the AT parser.                                             *)
transmission_guard_active ==
    device_state \in {"TRANSMITTING", "WAITING_FOR_DATA", "WAITING_FOR_MSG"}

Waiting == device_state \in {"WAITING_FOR_DATA", "WAITING_FOR_MSG"}

-----------------------------------------------------------------------------
(* The vocabulary of the properties.                                       *)

Packets(u) == {events[u][i] : i \in 1 .. Len(events[u])}

Before(u, p, q) ==
    \A i, j \in 1 .. Len(events[u]) : events[u][i] = p /\ events[u][j] = q => i < j

(* The message is finished in this way, or Core 0 has decided that it is.  *)
Ends(u, how) ==
    \/ fate[u] = how
    \/ serving # NoMessage /\ serving.uuid = u /\ outcome = how

(* What an AT command that takes the radio or the buffer means for the     *)
(* message in service, when Core 0 relies on them at these places.         *)
Disturb(places) ==
    /\ disturbed' = IF task \in places THEN disturbed \union {serving.uuid} ELSE disturbed
    /\ UNCHANGED aired

(* Between the encoding and the last load Core 0 relies on the buffer, and *)
(* from the tuning on it relies on the frequency.                          *)
Buffered == {"amplify", "emr", "announce", "send", "fifo"}
OnFrequency == {"encode"} \union Buffered

SharedTypes ==
    /\ queue \in Seq(Message)
    /\ serving \in Message \union {NoMessage}
    /\ device_state \in {"IDLE", "TRANSMITTING", "WAITING_FOR_DATA", "WAITING_FOR_MSG"}
    /\ current_tx_frequency \in Freqs
    /\ tx_data_buffer \in [1 .. BufferLoads -> Uuids \union {"zero", "user"}]
    /\ current_tx_total_length \in 0 .. BufferLoads
    /\ radio \in [mode : {"standby", "transmit"}, freq : Freqs]
    /\ binary_protocol_active \in BOOLEAN

Core0Types ==
    /\ task \in {"idle", "tune", "encode", "amplify", "emr", "announce", "send",
                 "fifo", "report", "wind_down", "fail", "remove"}
    /\ outcome \in {"none", "done", "failed"}
    /\ current_tx_remaining_length \in 0 .. BufferLoads
    /\ fifo_empty \in BOOLEAN

Core1Types ==
    /\ core1 \in {"loop", "add", "ack", "queued", "exec", "append", "close"}
    /\ adding \in Message \union {NoMessage}
    /\ command \in {"none", "FREQ", "MSG", "SEND", "MAILDROP"}
    /\ flex_mail_drop \in BOOLEAN
    /\ expected_data_length \in {0} \union DataLoads

HostTypes ==
    /\ fate \in [Uuids -> {"unused", "pending", "refused", "accepted", "done", "failed"}]
    /\ events \in [Uuids -> Seq({"ACK", "NACK", "QUEUED", "START", "DONE", "FAILED"})]
    /\ at_host \in {"command", "text", "data"}

HistoryTypes ==
    /\ aired \in [Uuids -> 0 .. FrameChunks]
    /\ disturbed \subseteq Uuids

(* Type invariant: every step of either core keeps the counters within the *)
(* transmit buffer and the shared state within its values.                 *)
TypeOK == SharedTypes /\ Core0Types /\ Core1Types /\ HostTypes /\ HistoryTypes
=============================================================================

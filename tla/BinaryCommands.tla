--------------------------- MODULE BinaryCommands ---------------------------
(***************************************************************************)
(* Core 1 serving the binary protocol: the handlers dispatched by          *)
(* handle_binary_packet, and the alerts the loop queues by itself.  The    *)
(* host speaks binary only when no AT dialogue is open.                    *)
(***************************************************************************)
EXTENDS DeviceState

(* What the binary handlers never write.                                   *)
BinaryKeeps == <<device_state, current_tx_frequency, airVars, taskVars, command,
                 dialogueVars, hostVars>>

(* A valid frame arrives: it switches the events on.                       *)
FrameArrives(kind) ==
    /\ kind \in Inputs
    /\ core1 = "loop"
    /\ at_host = "command"
    /\ binary_protocol_active' = TRUE

(* CMD_SEND_FLEX with good parameters.                                     *)
ReceiveSendFlex(m) ==
    /\ FrameArrives("SEND_FLEX")
    /\ fate[m.uuid] = "unused"
    /\ fate' = [fate EXCEPT ![m.uuid] = "pending"]
    /\ adding' = m
    /\ core1' = "add"
    /\ UNCHANGED <<queueVars, events, BinaryKeeps>>

(* CMD_SEND_FLEX whose length, capcode, frequency or power is refused.     *)
RejectSendFlex(u) ==
    /\ FrameArrives("SEND_FLEX")
    /\ fate[u] = "unused"
    /\ fate' = [fate EXCEPT ![u] = "refused"]
    /\ events' = [events EXCEPT ![u] = Append(@, "NACK")]
    /\ UNCHANGED <<queueVars, core1, adding, BinaryKeeps>>

(* Mutant: the message is queued without asking whether it fits.           *)
AddSendFlexUnchecked ==
    /\ core1 = "add"
    /\ queue' = Append(queue, adding)
    /\ fate' = [fate EXCEPT ![adding.uuid] = "accepted"]
    /\ core1' = "ack"
    /\ UNCHANGED <<serving, adding, events, binary_protocol_active, BinaryKeeps>>

(* Mutant: a full queue is not reported.                                   *)
RefuseSendFlexSilently ==
    /\ core1 = "add"
    /\ Len(queue) = MESSAGE_QUEUE_SIZE
    /\ fate' = [fate EXCEPT ![adding.uuid] = "refused"]
    /\ core1' = "loop"
    /\ adding' = NoMessage
    /\ UNCHANGED <<queueVars, events, binary_protocol_active, BinaryKeeps>>

(* The message is queued: from here on Core 0 may take it.                 *)
AddSendFlex ==
    /\ core1 = "add"
    /\ Fifo!Put(adding)
    /\ fate' = [fate EXCEPT ![adding.uuid] = "accepted"]
    /\ core1' = "ack"
    /\ UNCHANGED <<adding, events, binary_protocol_active, BinaryKeeps>>

RefuseSendFlex ==
    /\ core1 = "add"
    /\ Len(queue) = MESSAGE_QUEUE_SIZE
    /\ fate' = [fate EXCEPT ![adding.uuid] = "refused"]
    /\ Emit(adding.uuid, "NACK")
    /\ core1' = "loop"
    /\ adding' = NoMessage
    /\ UNCHANGED <<queueVars, binary_protocol_active, BinaryKeeps>>

SendAck ==
    /\ core1 = "ack"
    /\ Emit(adding.uuid, "ACK")
    /\ core1' = "queued"
    /\ UNCHANGED <<queueVars, adding, fate, binary_protocol_active, BinaryKeeps>>

SendQueued ==
    /\ core1 = "queued"
    /\ Emit(adding.uuid, "QUEUED")
    /\ core1' = "loop"
    /\ adding' = NoMessage
    /\ UNCHANGED <<queueVars, fate, binary_protocol_active, BinaryKeeps>>

(* Every other command is answered on the spot and changes nothing:        *)
(* CMD_PING and CMD_GET_STATUS with their response, CMD_ABORT with an ACK, *)
(* the configuration, log and reset commands with a NACK.                  *)
AnswerCommand ==
    /\ FrameArrives("QUERY")
    /\ UNCHANGED <<queueVars, core1, adding, fate, events, BinaryKeeps>>

(* A battery alert is a message the device sends itself.  One that finds   *)
(* the queue full is tried again at the next check.                        *)
QueueAlert(u) ==
    /\ "ALERT" \in Inputs
    /\ core1 = "loop"
    /\ fate[u] = "unused"
    /\ \E f \in Freqs :
            Fifo!Put([uuid |-> u, freq |-> f, mail_drop |-> FALSE])
    /\ fate' = [fate EXCEPT ![u] = "accepted"]
    /\ UNCHANGED <<core1, adding, events, binary_protocol_active, BinaryKeeps>>

(* The maildrop flag of a binary message goes with it unchanged: one value *)
(* stands for both.                                                        *)
HostMessage == {m \in Message : ~m.mail_drop}

Binary ==
    \/ \E m \in HostMessage : ReceiveSendFlex(m)
    \/ \E u \in Uuids : RejectSendFlex(u) \/ QueueAlert(u)
    \/ AddSendFlex
    \/ RefuseSendFlex
    \/ SendAck
    \/ SendQueued
    \/ AnswerCommand
=============================================================================

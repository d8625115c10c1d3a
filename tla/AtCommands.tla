----------------------------- MODULE AtCommands -----------------------------
(***************************************************************************)
(* Core 1 serving the AT protocol.  A command is looked at by the guard    *)
(* first and carried out afterwards, and Core 0 may act in between.  Every *)
(* line the loop hands to the AT parser switches the binary events off.    *)
(***************************************************************************)
EXTENDS DeviceState

(* What the AT parser never writes.                                        *)
AtKeeps == <<taskVars, adding, events>>

(* A line arrives that the loop takes for a command.                       *)
CommandArrives(c) ==
    /\ c \in Inputs
    /\ core1 = "loop"
    /\ at_host = "command"
    /\ ~Waiting
    /\ binary_protocol_active' = FALSE

(* at_reset_state, which every end of a dialogue goes through.             *)
at_reset_state ==
    /\ device_state' = "IDLE"
    /\ flex_mail_drop' = FALSE
    /\ expected_data_length' = 0

(* Plain AT is not subject to the guard.                                   *)
AtCheck ==
    /\ CommandArrives("AT")
    /\ at_reset_state
    /\ UNCHANGED <<queueVars, current_tx_frequency, airVars, core1, command, fate, hostVars,
                   AtKeeps>>

(* AT+ABORT stops the radio under the task, and leaves the task and the    *)
(* queue alone.                                                            *)
AtAbort ==
    /\ CommandArrives("ABORT")
    /\ radio' = [radio EXCEPT !.mode = "standby"]
    /\ at_reset_state
    /\ Disturb({"fifo"})
    /\ UNCHANGED <<queueVars, current_tx_frequency, bufferVars, core1, command, fate,
                   hostVars, AtKeeps>>

(* The guard lets a command through ...                                    *)
AtAdmit(c) ==
    /\ CommandArrives(c)
    /\ ~transmission_guard_active
    /\ core1' = "exec"
    /\ command' = c
    /\ UNCHANGED <<queueVars, device_state, current_tx_frequency, airVars,
                   dialogueVars, fate, hostVars, AtKeeps>>

(* ... or answers ERROR.                                                   *)
AtRefuse(c) ==
    /\ CommandArrives(c)
    /\ transmission_guard_active
    /\ UNCHANGED <<queueVars, device_state, current_tx_frequency, airVars, core1Vars,
                   fate, hostVars, AtKeeps>>

(* The admitted command is carried out.                                    *)
Execute(c) ==
    /\ core1 = "exec"
    /\ command = c
    /\ core1' = "loop"
    /\ command' = "none"
    /\ UNCHANGED <<queueVars, binary_protocol_active, fate, AtKeeps>>

(* setFrequency puts the radio in standby.                                 *)
SetFreq(f) ==
    /\ Execute("FREQ")
    /\ radio' = [mode |-> "standby", freq |-> f]
    /\ current_tx_frequency' = f
    /\ Disturb(OnFrequency)
    /\ UNCHANGED <<device_state, bufferVars, dialogueVars, hostVars>>

SetMailDrop(b) ==
    /\ Execute("MAILDROP")
    /\ flex_mail_drop' = b
    /\ UNCHANGED <<device_state, current_tx_frequency, airVars, expected_data_length,
                   hostVars>>

(* AT+MSG opens a dialogue; the host reads "+MSG: READY".                  *)
OpenMsg ==
    /\ Execute("MSG")
    /\ device_state' = "WAITING_FOR_MSG"
    /\ flex_mail_drop' = FALSE
    /\ expected_data_length' = 0
    /\ at_host' = "text"
    /\ UNCHANGED <<current_tx_frequency, airVars>>

(* AT+SEND does so too, and starts to count into the transmit buffer.      *)
OpenSend(n) ==
    /\ Execute("SEND")
    /\ device_state' = "WAITING_FOR_DATA"
    /\ flex_mail_drop' = FALSE
    /\ expected_data_length' = n
    /\ current_tx_total_length' = 0
    /\ at_host' = "data"
    /\ Disturb(Buffered)
    /\ UNCHANGED <<current_tx_frequency, tx_data_buffer, radio>>

(* Bound of the model: a uuid is left for a message of the AT parser.      *)
UuidLeft == \E u \in Uuids : fate[u] = "unused"

(* The line after "+MSG: READY" arrives in time.                           *)
TextArrives ==
    /\ core1 = "loop"
    /\ at_host = "text"
    /\ device_state = "WAITING_FOR_MSG"
    /\ UuidLeft
    /\ binary_protocol_active' = FALSE
    /\ core1' = "append"
    /\ command' = "MSG"
    /\ UNCHANGED <<queueVars, device_state, current_tx_frequency, airVars,
                   dialogueVars, fate, hostVars, AtKeeps>>

(* A load of the bytes after "+SEND: READY" arrives in time.  It goes to   *)
(* wherever the length stands, Core 0 or not, and the data are complete    *)
(* when that has reached what was announced.  Bytes left over are read as  *)
(* a command the device does not know.                                     *)
DataArrives ==
    /\ core1 = "loop"
    /\ at_host = "data"
    /\ device_state = "WAITING_FOR_DATA"
    /\ UuidLeft
    /\ binary_protocol_active' = FALSE
    /\ IF current_tx_total_length < expected_data_length
       THEN /\ current_tx_total_length' = current_tx_total_length + 1
            /\ tx_data_buffer' = [tx_data_buffer EXCEPT ![current_tx_total_length'] = "user"]
            /\ Disturb(Buffered)
       ELSE UNCHANGED <<bufferVars, airHistory>>
    /\ IF current_tx_total_length' >= expected_data_length
       THEN device_state' = "IDLE" /\ core1' = "append" /\ command' = "SEND"
       ELSE UNCHANGED <<device_state, core1, command>>
    /\ UNCHANGED <<queueVars, current_tx_frequency, radio, dialogueVars, fate, hostVars,
                   AtKeeps>>

(* They arrive after the time-out, which is looked at only then.           *)
TooLate ==
    /\ core1 = "loop"
    /\ at_host # "command"
    /\ Waiting
    /\ binary_protocol_active' = FALSE
    /\ at_reset_state
    /\ at_host' = "command"
    /\ UNCHANGED <<queueVars, current_tx_frequency, airVars, core1, command, fate,
                   AtKeeps>>

(* They arrive when the device has left the waiting state: the parser      *)
(* takes them for a command and answers ERROR.                             *)
Misread ==
    /\ core1 = "loop"
    /\ at_host # "command"
    /\ ~Waiting
    /\ binary_protocol_active' = FALSE
    /\ at_host' = "command"
    /\ UNCHANGED <<queueVars, device_state, current_tx_frequency, airVars, core1Vars,
                   fate, AtKeeps>>

(* Mutant: an add that fails is answered with OK.                          *)
RefuseAtMessageAsOk(u) ==
    /\ core1 = "append"
    /\ fate[u] = "unused"
    /\ Len(queue) = MESSAGE_QUEUE_SIZE
    /\ fate' = [fate EXCEPT ![u] = "accepted"]
    /\ core1' = "close"
    /\ UNCHANGED <<queueVars, device_state, current_tx_frequency, airVars,
                   binary_protocol_active, command, dialogueVars, hostVars, AtKeeps>>

(* The text or the data is queued under a new uuid, with the current       *)
(* frequency; only a text can be a maildrop.                               *)
AppendAtMessage(u) ==
    /\ core1 = "append"
    /\ fate[u] = "unused"
    /\ Fifo!Put([uuid |-> u, freq |-> current_tx_frequency,
                 mail_drop |-> command = "MSG" /\ flex_mail_drop])
    /\ fate' = [fate EXCEPT ![u] = "accepted"]
    /\ core1' = "close"
    /\ UNCHANGED <<device_state, current_tx_frequency, airVars, binary_protocol_active,
                   command, dialogueVars, hostVars, AtKeeps>>

RefuseAtMessage(u) ==
    /\ core1 = "append"
    /\ fate[u] = "unused"
    /\ Len(queue) = MESSAGE_QUEUE_SIZE
    /\ fate' = [fate EXCEPT ![u] = "refused"]
    /\ core1' = "close"
    /\ UNCHANGED <<queueVars, device_state, current_tx_frequency, airVars,
                   binary_protocol_active, command, dialogueVars, hostVars, AtKeeps>>

(* The dialogue ends with OK or ERROR.                                     *)
CloseDialogue ==
    /\ core1 = "close"
    /\ at_reset_state
    /\ core1' = "loop"
    /\ command' = "none"
    /\ at_host' = "command"
    /\ UNCHANGED <<queueVars, current_tx_frequency, airVars, binary_protocol_active,
                   fate, AtKeeps>>

GuardedCommands == {"FREQ", "MSG", "SEND", "MAILDROP"}

At ==
    \/ AtCheck
    \/ AtAbort
    \/ \E c \in GuardedCommands : AtAdmit(c) \/ AtRefuse(c)
    \/ \E f \in Freqs : SetFreq(f)
    \/ \E b \in BOOLEAN : SetMailDrop(b)
    \/ OpenMsg
    \/ \E n \in DataLoads : OpenSend(n)
    \/ TextArrives
    \/ DataArrives
    \/ TooLate
    \/ Misread
    \/ \E u \in Uuids : AppendAtMessage(u) \/ RefuseAtMessage(u)
    \/ CloseDialogue
=============================================================================

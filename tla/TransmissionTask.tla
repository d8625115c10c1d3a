-------------------------- MODULE TransmissionTask --------------------------
(***************************************************************************)
(* Core 0: transmission_task, one action per stretch of code between two   *)
(* points at which Core 1 can see or disturb it.                           *)
(***************************************************************************)
EXTENDS DeviceState

(* What Core 0 never writes.                                               *)
Core1Keeps == <<core1Vars, hostVars, binary_protocol_active>>

(* The message at the head is taken up and its settings become the         *)
(* current ones.                                                           *)
TakeMessage ==
    /\ task = "idle"
    /\ Fifo!Take
    /\ current_tx_frequency' = Head(queue).freq
    /\ task' = "tune"
    /\ UNCHANGED <<device_state, airVars, outcome, current_tx_remaining_length,
                   fifo_empty, fate, events, Core1Keeps>>

(* setFrequency leaves the radio in standby.                               *)
Tuned(f) == [mode |-> "standby", freq |-> f]

TuneRadio ==
    /\ task = "tune"
    /\ radio' = Tuned(serving.freq)
    /\ task' = "encode"
    /\ UNCHANGED <<queueVars, device_state, current_tx_frequency, bufferVars, airHistory,
                   outcome, current_tx_remaining_length, fifo_empty, fate, events,
                   Core1Keeps>>

(* Mutant: the message is not removed, and is taken up again.              *)
TuneFailsRetries ==
    /\ task = "tune"
    /\ "tune" \in RadioFaults
    /\ serving' = NoMessage
    /\ task' = "idle"
    /\ UNCHANGED <<queue, device_state, current_tx_frequency, airVars, outcome,
                   current_tx_remaining_length, fifo_empty, fate, events, Core1Keeps>>

(* Mutant: the message is dropped without a report.                        *)
TuneFailsSilently ==
    /\ task = "tune"
    /\ "tune" \in RadioFaults
    /\ task' = "remove"
    /\ outcome' = "failed"
    /\ UNCHANGED <<queueVars, device_state, current_tx_frequency, airVars,
                   current_tx_remaining_length, fifo_empty, fate, events, Core1Keeps>>

(* Setting the frequency fails, or it succeeds and setting the power does. *)
TuneFails ==
    /\ task = "tune"
    /\ "tune" \in RadioFaults
    /\ radio' \in {radio, Tuned(serving.freq)}
    /\ task' = "fail"
    /\ outcome' = "failed"
    /\ UNCHANGED <<queueVars, device_state, current_tx_frequency, bufferVars, airHistory,
                   current_tx_remaining_length, fifo_empty, fate, events, Core1Keeps>>

(* Mutant: the return value of flex_encode_and_store is ignored.           *)
EncodeFailsUnnoticed ==
    /\ task = "encode"
    /\ "encode" \in RadioFaults
    /\ task' = "amplify"
    /\ UNCHANGED <<queueVars, device_state, current_tx_frequency, airVars, outcome,
                   current_tx_remaining_length, fifo_empty, fate, events, Core1Keeps>>

(* flex_encode_and_store                                                   *)
Encode ==
    /\ task = "encode"
    /\ tx_data_buffer' = [i \in 1 .. BufferLoads |->
                              IF i <= FrameChunks THEN serving.uuid ELSE tx_data_buffer[i]]
    /\ current_tx_total_length' = FrameChunks
    /\ current_tx_remaining_length' = FrameChunks
    /\ task' = "amplify"
    /\ UNCHANGED <<queueVars, device_state, current_tx_frequency, radio, airHistory,
                   outcome, fifo_empty, fate, events, Core1Keeps>>

EncodeFails ==
    /\ task = "encode"
    /\ "encode" \in RadioFaults
    /\ task' = "fail"
    /\ outcome' = "failed"
    /\ UNCHANGED <<queueVars, device_state, current_tx_frequency, airVars,
                   current_tx_remaining_length, fifo_empty, fate, events, Core1Keeps>>

(* Mutant: the "continue" after the report is missing.                     *)
ReportFailureGoesOn ==
    /\ task = "fail"
    /\ Emit(serving.uuid, "FAILED")
    /\ task' = "amplify"
    /\ UNCHANGED <<queueVars, device_state, current_tx_frequency, airVars, outcome,
                   current_tx_remaining_length, fifo_empty, fate, Core1Keeps>>

(* A message that cannot be tuned to or encoded is reported and dropped.   *)
ReportFailure ==
    /\ task = "fail"
    /\ Emit(serving.uuid, "FAILED")
    /\ task' = "remove"
    /\ UNCHANGED <<queueVars, device_state, current_tx_frequency, airVars, outcome,
                   current_tx_remaining_length, fifo_empty, fate, Core1Keeps>>

(* The amplifier has settled and the device shows that it transmits.       *)
EnterTransmitting ==
    /\ task = "amplify"
    /\ device_state' = "TRANSMITTING"
    /\ task' = "emr"
    /\ UNCHANGED <<queueVars, current_tx_frequency, airVars, outcome,
                   current_tx_remaining_length, fifo_empty, fate, events, Core1Keeps>>

(* send_emr_if_needed: the time since the last burst decides whether there *)
(* is one.  The radio is not taken out of transmission after it.           *)
SendEmr ==
    /\ task = "emr"
    /\ radio' \in {radio, [radio EXCEPT !.mode = "transmit"]}
    /\ task' = "announce"
    /\ UNCHANGED <<queueVars, device_state, current_tx_frequency, bufferVars, airHistory,
                   outcome, current_tx_remaining_length, fifo_empty, fate, events,
                   Core1Keeps>>

AnnounceStart ==
    /\ task = "announce"
    /\ Emit(serving.uuid, "START")
    /\ task' = "send"
    /\ UNCHANGED <<queueVars, device_state, current_tx_frequency, airVars, outcome,
                   current_tx_remaining_length, fifo_empty, fate, Core1Keeps>>

(* A load the radio has been given: n of the frame of the message in       *)
(* service are on the air with it, if it is the next of them.              *)
Airs(n) ==
    /\ radio'.mode = "transmit" /\ radio'.freq = serving.freq
    /\ tx_data_buffer[n] = serving.uuid

(* startTransmit sends the first load; its status is kept and looked at    *)
(* only after the loop that feeds the FIFO.                                *)
StartRadio ==
    /\ task = "send"
    /\ fifo_empty' = TRUE
    /\ current_tx_remaining_length' = current_tx_total_length
    /\ \/ /\ radio' = [radio EXCEPT !.mode = "transmit"]
          /\ outcome' = "done"
       \/ /\ "start" \in RadioFaults
          /\ radio' = [radio EXCEPT !.mode = "standby"]
          /\ outcome' = "failed"
    /\ task' = IF current_tx_total_length = 0 THEN "report" ELSE "fifo"
    /\ aired' = IF current_tx_total_length > 0 /\ Airs(1)
                THEN [aired EXCEPT ![serving.uuid] = 1]
                ELSE aired
    /\ UNCHANGED <<queueVars, device_state, current_tx_frequency, bufferVars, disturbed,
                   fate, events, Core1Keeps>>

(* on_interrupt_fifo_has_space: the radio has sent what it was fed.        *)
FifoInterrupt ==
    /\ radio.mode = "transmit"
    /\ ~fifo_empty
    /\ fifo_empty' = TRUE
    /\ UNCHANGED <<queueVars, device_state, current_tx_frequency, airVars, task,
                   outcome, current_tx_remaining_length, fate, events, Core1Keeps>>

(* Mutant: the loop goes on for one round too many.                        *)
FeedFifoPastEnd ==
    /\ task = "fifo"
    /\ fifo_empty
    /\ fifo_empty' = FALSE
    /\ current_tx_remaining_length' = current_tx_remaining_length - 1
    /\ task' = IF current_tx_remaining_length = 0 THEN "report" ELSE "fifo"
    /\ UNCHANGED <<queueVars, device_state, current_tx_frequency, airVars, outcome,
                   fate, events, Core1Keeps>>

(* Mutant: the status of startTransmit is not looked at.                   *)
ReportOutcomeDone ==
    /\ task = "report"
    /\ Emit(serving.uuid, "DONE")
    /\ task' = "wind_down"
    /\ UNCHANGED <<queueVars, device_state, current_tx_frequency, airVars, outcome,
                   current_tx_remaining_length, fifo_empty, fate, Core1Keeps>>

(* One round of the loop that finds the flag set.  fifoAdd takes the length *)
(* as it is now and copies what is left from there: the load that many     *)
(* from its end.  The loop ends when nothing is left.                      *)
FeedFifo ==
    /\ task = "fifo"
    /\ fifo_empty
    /\ fifo_empty' = FALSE
    /\ current_tx_remaining_length' = current_tx_remaining_length - 1
    /\ task' = IF current_tx_remaining_length = 1 THEN "report" ELSE "fifo"
    /\ UNCHANGED radio
    /\ LET n == aired[serving.uuid] IN
       aired' = IF /\ n < FrameChunks /\ Airs(n + 1)
                   /\ n + current_tx_remaining_length' = current_tx_total_length
                   /\ current_tx_remaining_length' > 0
                THEN [aired EXCEPT ![serving.uuid] = n + 1]
                ELSE aired
    /\ UNCHANGED <<queueVars, device_state, current_tx_frequency, bufferVars, disturbed,
                   outcome, fate, events, Core1Keeps>>

ReportOutcome ==
    /\ task = "report"
    /\ Emit(serving.uuid, IF outcome = "done" THEN "DONE" ELSE "FAILED")
    /\ task' = "wind_down"
    /\ UNCHANGED <<queueVars, device_state, current_tx_frequency, airVars, outcome,
                   current_tx_remaining_length, fifo_empty, fate, Core1Keeps>>

(* Mutant: the radio is left on.                                           *)
WindDownRadioOn ==
    /\ task = "wind_down"
    /\ device_state' = "IDLE"
    /\ task' = "remove"
    /\ UNCHANGED <<queueVars, current_tx_frequency, airVars, outcome,
                   current_tx_remaining_length, fifo_empty, fate, events, Core1Keeps>>

(* Radio to standby, device to idle, whatever Core 1 made of it meanwhile. *)
WindDown ==
    /\ task = "wind_down"
    /\ radio' = [radio EXCEPT !.mode = "standby"]
    /\ device_state' = "IDLE"
    /\ task' = "remove"
    /\ UNCHANGED <<queueVars, current_tx_frequency, bufferVars, airHistory, outcome,
                   current_tx_remaining_length, fifo_empty, fate, events, Core1Keeps>>

RemoveMessage ==
    /\ task = "remove"
    /\ Fifo!Complete
    /\ fate' = [fate EXCEPT ![serving.uuid] = outcome]
    /\ task' = "idle"
    /\ outcome' = "none"
    /\ UNCHANGED <<device_state, current_tx_frequency, airVars,
                   current_tx_remaining_length, fifo_empty, events, Core1Keeps>>

Core0 ==
    \/ TakeMessage
    \/ TuneRadio
    \/ TuneFails
    \/ Encode
    \/ EncodeFails
    \/ ReportFailure
    \/ EnterTransmitting
    \/ SendEmr
    \/ AnnounceStart
    \/ StartRadio
    \/ FeedFifo
    \/ ReportOutcome
    \/ WindDown
    \/ RemoveMessage

(* The task runs alone on its core at the highest priority, and a radio    *)
(* that transmits asks for more data.                                      *)
Core0Fairness == WF_vars(Core0) /\ WF_vars(FifoInterrupt)
=============================================================================

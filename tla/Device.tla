------------------------------- MODULE Device -------------------------------
(***************************************************************************)
(* The transmitter: the transmission task on Core 0 beside the Arduino     *)
(* loop on Core 1, which serves the binary and the AT protocol on the same *)
(* serial port.  Inputs chooses what the host sends in a run.              *)
(***************************************************************************)
EXTENDS TransmissionTask, BinaryCommands, AtCommands

Next == Core0 \/ FifoInterrupt \/ Binary \/ At

(* Core 1 finishes what it has started; nothing makes the host send more.  *)
Core1Fairness == WF_vars((Binary \/ At) /\ core1 # "loop")

Safety == Init /\ [][Next]_vars
Spec == Safety /\ Core0Fairness /\ Core1Fairness

-----------------------------------------------------------------------------
(* The abstract service: a message counts as accepted when it is in the    *)
(* queue, and as finished when Core 0 has removed it.                      *)
Service == INSTANCE TxService WITH
    Capacity <- MESSAGE_QUEUE_SIZE,
    waiting <- [i \in 1 .. Len(queue) |-> queue[i].uuid],
    fate <- [u \in Uuids |-> IF fate[u] = "pending" THEN "unused" ELSE fate[u]]

(* Whatever the host mixes and aborts, each message is accepted or refused *)
(* once, accepted ones end in the order of acceptance, at most once each.  *)
ServiceSafety == Service!Safety

(* ... and when nothing aborts a transmission, every accepted message      *)
(* ends.                                                                   *)
ImplementsService == Service!Spec

-----------------------------------------------------------------------------
(* What the host is told is true.  A refused message has no life; EVT_TX_  *)
(* DONE (src/README.md: "Transmission completed") is sent only for a       *)
(* message every load of whose frame went out, in order and on its         *)
(* frequency, and EVT_TX_FAILED only for one of which nothing did; never   *)
(* both, after the start, and nothing is reported twice.  The one          *)
(* exception is a message under whose transmission an AT command took the  *)
(* radio or the transmit buffer (AT+ABORT, AT+FREQ, AT+SEND and its data): *)
(* DoneMeansSent is what fails there.                                      *)
HostNotMisled ==
    \A u \in Uuids :
        /\ fate[u] = "refused" => Packets(u) \subseteq {"NACK"}
        /\ "DONE" \in Packets(u) => /\ Ends(u, "done")
                                    /\ aired[u] = FrameChunks \/ u \in disturbed
        /\ "FAILED" \in Packets(u) => Ends(u, "failed") /\ aired[u] = 0
        /\ Before(u, "START", "DONE") /\ Before(u, "START", "FAILED")
        /\ Before(u, "ACK", "QUEUED")
        /\ \A i, j \in 1 .. Len(events[u]) : events[u][i] = events[u][j] => i = j

(* A host that speaks binary only is told everything: a message that got   *)
(* its ACK and is finished has its start and its end reported.             *)
NothingUnreported ==
    \A u \in Uuids :
        "ACK" \in Packets(u) =>
            /\ fate[u] = "done" => {"START", "DONE"} \subseteq Packets(u)
            /\ fate[u] = "failed" => "FAILED" \in Packets(u)

(* What is on the air is the message in service: its frame, whole, on its  *)
(* frequency.  Nothing Core 1 does reaches the transmission.               *)
CoreIsolation ==
    task = "fifo" =>
        /\ \A i \in 1 .. FrameChunks : tx_data_buffer[i] = serving.uuid
        /\ current_tx_total_length = FrameChunks
        /\ radio.freq = serving.freq

(* The state the guard of the AT parser looks at says so whenever the      *)
(* radio transmits.                                                        *)
GuardCoversAir == radio.mode = "transmit" => device_state = "TRANSMITTING"

(* Every CMD_SEND_FLEX is answered, with an ACK or a NACK.                 *)
SendFlexAnswered ==
    \A u \in Uuids :
        fate[u] = "pending" ~> Packets(u) \intersect {"ACK", "NACK"} # {}

-----------------------------------------------------------------------------
(* What the documents say, and the code does not do.                       *)

(* docs/BINARY_PROTOCOL.md, "Message TX lifecycle": the answer, then       *)
(* EVT_TX_QUEUED, then EVT_TX_START, then the end.                         *)
Lifecycles == {<<"ACK", "QUEUED", "START", "DONE">>,
               <<"ACK", "QUEUED", "START", "FAILED">>,
               <<"ACK", "QUEUED", "FAILED">>,
               <<"NACK">>}

LifecycleInOrder ==
    \A u \in Uuids : \E life \in Lifecycles :
        /\ Len(events[u]) <= Len(life)
        /\ \A i \in 1 .. Len(events[u]) : events[u][i] = life[i]

(* src/README.md, EVT_TX_DONE: "Transmission completed".                   *)
DoneMeansSent == \A u \in Uuids : "DONE" \in Packets(u) => aired[u] = FrameChunks

(* docs/AT_COMMANDS.md, AT+MSG: "Puts device into message receive mode.    *)
(* Next line is message text."                                             *)
NextLineIsText ==
    at_host = "text" /\ core1 = "loop" => device_state = "WAITING_FOR_MSG"

(* docs/AT_COMMANDS.md, AT+MAILDROP: "Sets/queries maildrop behavior for   *)
(* next queued AT message."                                                *)
MailDropHonoured == [][OpenMsg => UNCHANGED flex_mail_drop]_vars

(* AT+ABORT: "Abort current operation".  The operation it aborts ends, as  *)
(* every accepted message does.                                            *)
AcceptedEnds ==
    \A u \in Uuids : fate[u] = "accepted" ~> fate[u] \in {"done", "failed"}
=============================================================================

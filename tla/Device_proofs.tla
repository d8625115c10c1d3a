---------------------------- MODULE Device_proofs ----------------------------
(***************************************************************************)
(* Theorems about the transmitter: what holds whatever the host sends, and *)
(* what holds when it speaks binary only.  The invariant and the steps of  *)
(* Core 0 and of the binary handlers are in TransmissionTask_proofs; the   *)
(* AT parser and the abstract service are added here.                      *)
(***************************************************************************)
EXTENDS Device, TransmissionTask_proofs

-----------------------------------------------------------------------------
(* The AT parser.                                                          *)

(* A message of the AT parser is a message.                                *)
LEMMA AtMessage ==
    ASSUME TypeOK, NEW u \in Uuids, AppendAtMessage(u)
    PROVE  \E m \in Message : m.uuid = u /\ Fifo!Put(m)
  <1> DEFINE m == [uuid |-> u, freq |-> current_tx_frequency,
                   mail_drop |-> command = "MSG" /\ flex_mail_drop]
  <1>1. Fifo!Put(m)  BY DEF AppendAtMessage
  <1>2. current_tx_frequency \in Freqs  BY DEF TypeOK, SharedTypes
  <1>3. m.mail_drop \in BOOLEAN  BY Zenon
  <1>4. m \in Message  BY <1>2, <1>3 DEF Message
  <1> QED  BY <1>1, <1>4

(* An AT command that takes the radio or the buffer while Core 0 relies on *)
(* them leaves its mark on the message in service.                         *)
Places == {{"fifo"}, OnFrequency, Buffered}

LEMMA AtAir ==
    ASSUME At
    PROVE  /\ UNCHANGED aired
           /\ \/ UNCHANGED airVars
              \/ /\ radio' = [radio EXCEPT !.mode = "standby"]
                 /\ UNCHANGED bufferVars /\ Disturb({"fifo"})
              \/ /\ radio'.mode = "standby"
                 /\ UNCHANGED bufferVars /\ Disturb(OnFrequency)
              \/ UNCHANGED radio /\ Disturb(Buffered)
           /\ UNCHANGED disturbed \/ \E places \in Places : Disturb(places)
  <1> USE DEF airVars, airHistory, bufferVars, Places, Disturb
  <1>1. CASE AtCheck \/ AtAbort \/ OpenMsg
    BY <1>1 DEF AtCheck, AtAbort, OpenMsg
  <1>2. CASE \E n \in DataLoads : OpenSend(n)
    BY <1>2 DEF OpenSend
  <1>3. CASE \E c \in GuardedCommands : AtAdmit(c) \/ AtRefuse(c)
    BY <1>3 DEF AtAdmit, AtRefuse
  <1>4. CASE \E f \in Freqs : SetFreq(f)
    BY <1>4 DEF SetFreq
  <1>5. CASE (\E b \in BOOLEAN : SetMailDrop(b)) \/ TextArrives \/ TooLate \/ Misread
                 \/ CloseDialogue
    BY <1>5 DEF SetMailDrop, TextArrives, TooLate, Misread, CloseDialogue
  <1>6. CASE DataArrives
    BY <1>6 DEF DataArrives
  <1>7. CASE \E u \in Uuids : AppendAtMessage(u) \/ RefuseAtMessage(u)
    BY <1>7 DEF AppendAtMessage, RefuseAtMessage
  <1> QED  BY <1>1, <1>2, <1>3, <1>4, <1>5, <1>6, <1>7 DEF At

LEMMA AtTypeOK == ASSUME IInv, At PROVE TypeOK'
  <1> USE DEF AtKeeps, queueVars, airVars, bufferVars, taskVars, core1Vars, dialogueVars,
              hostVars, CommandArrives, at_reset_state, Execute
  <1>0. SharedTypes /\ Core0Types /\ Core1Types /\ HostTypes /\ HistoryTypes /\ TypeOK
    BY DEF IInv, TypeOK
  <1>a. TaskInv /\ QueueInv  BY DEF IInv
  <1>1. Core0Types'
    BY <1>0 DEF Core0Types, At, AtCheck, AtAbort, AtAdmit, AtRefuse, SetFreq, SetMailDrop,
        OpenMsg, OpenSend, TextArrives, DataArrives, TooLate, Misread, AppendAtMessage,
        RefuseAtMessage, CloseDialogue
  <1>2. Core1Types'
    BY <1>0 DEF Core1Types, At, AtCheck, AtAbort, AtAdmit, AtRefuse, SetFreq, SetMailDrop,
        OpenMsg, OpenSend, TextArrives, DataArrives, TooLate, Misread, AppendAtMessage,
        RefuseAtMessage, CloseDialogue, GuardedCommands
  <1>3. SharedTypes' /\ HostTypes'
    <2>1. CASE AtCheck \/ AtAbort
      BY <2>1, <1>0 DEF AtCheck, AtAbort, SharedTypes, HostTypes
    <2>2. ASSUME NEW c \in GuardedCommands, AtAdmit(c) \/ AtRefuse(c)
          PROVE  SharedTypes' /\ HostTypes'
      BY <2>2, <1>0 DEF AtAdmit, AtRefuse, SharedTypes, HostTypes
    <2>3. ASSUME NEW f \in Freqs, SetFreq(f)
          PROVE  SharedTypes' /\ HostTypes'
      BY <2>3, <1>0 DEF SetFreq, SharedTypes, HostTypes
    <2>4. ASSUME NEW b \in BOOLEAN, SetMailDrop(b)
          PROVE  SharedTypes' /\ HostTypes'
      BY <2>4, <1>0 DEF SetMailDrop, SharedTypes, HostTypes
    <2>5. ASSUME OpenMsg \/ \E n \in DataLoads : OpenSend(n)
          PROVE  SharedTypes' /\ HostTypes'
      BY <2>5, <1>0, DeviceAssumption DEF OpenMsg, OpenSend, SharedTypes, HostTypes
    <2>6. CASE TextArrives \/ DataArrives
      <3>1. current_tx_total_length' \in 0 .. BufferLoads
        BY <2>6, <1>0, DeviceAssumption DEF TextArrives, DataArrives, SharedTypes, Core1Types
      <3>2. tx_data_buffer' \in [1 .. BufferLoads -> Uuids \union {"zero", "user"}]
        BY <2>6, <1>0 DEF TextArrives, DataArrives, SharedTypes
      <3> QED  BY <2>6, <3>1, <3>2, <1>0 DEF TextArrives, DataArrives, SharedTypes, HostTypes
    <2>7. CASE TooLate \/ Misread
      BY <2>7, <1>0 DEF TooLate, Misread, SharedTypes, HostTypes
    <2>8. ASSUME NEW u \in Uuids, AppendAtMessage(u)
          PROVE  SharedTypes' /\ HostTypes'
      <3>1. PICK m \in Message : m.uuid = u /\ Fifo!Put(m)  BY <2>8, <1>0, AtMessage
      <3>2. fate[m.uuid] = "unused" /\ fate' = [fate EXCEPT ![m.uuid] = "accepted"]
            /\ UNCHANGED taskVars
        BY <2>8, <3>1 DEF AppendAtMessage
      <3>3. queue' \in Seq(Message) /\ UNCHANGED serving
            /\ fate' \in [Uuids -> {"unused", "pending", "refused", "accepted",
                                    "done", "failed"}]
        BY <1>0, <1>a, <3>1, <3>2, PutMessage
      <3> QED  BY <2>8, <3>3, <1>0 DEF AppendAtMessage, SharedTypes, HostTypes
    <2>9. ASSUME NEW u \in Uuids, RefuseAtMessage(u)
          PROVE  SharedTypes' /\ HostTypes'
      BY <2>9, <1>0 DEF RefuseAtMessage, SharedTypes, HostTypes
    <2>10. CASE CloseDialogue
      BY <2>10, <1>0 DEF CloseDialogue, SharedTypes, HostTypes
    <2> QED  BY <2>1, <2>2, <2>3, <2>4, <2>5, <2>6, <2>7, <2>8, <2>9, <2>10 DEF At
  <1>4. HistoryTypes'
    <2>1. UNCHANGED aired /\ (UNCHANGED disturbed \/ \E places \in Places : Disturb(places))
      BY AtAir DEF airHistory
    <2>2. ASSUME NEW places \in Places, Disturb(places)
          PROVE  disturbed' \subseteq Uuids
      <3>1. task \in places => serving.uuid \in Uuids
        BY <1>0, <1>a, ServedMessage DEF Places, OnFrequency, Buffered
      <3> QED  BY <2>2, <3>1, <1>0 DEF Disturb, HistoryTypes
    <2> QED  BY <2>1, <2>2, <1>0 DEF HistoryTypes
  <1> QED  BY <1>1, <1>2, <1>3, <1>4 DEF TypeOK

(* The AT parser queues or refuses a message under a new uuid, or leaves   *)
(* the queue, the messages and what was sent about them alone.             *)
LEMMA AtOutline ==
    ASSUME At
    PROVE  /\ UNCHANGED <<taskVars, serving, adding, events>>
           /\ core1 \notin {"add", "ack", "queued"} /\ core1' \notin {"add", "ack", "queued"}
           /\ \/ UNCHANGED <<queue, fate>>
              \/ \E u \in Uuids : AppendAtMessage(u) \/ RefuseAtMessage(u)
  <1> USE DEF AtKeeps, queueVars, core1Vars, CommandArrives, Execute
  <1>1. ASSUME AtCheck \/ AtAbort \/ OpenMsg \/ \E n \in DataLoads : OpenSend(n)
        PROVE  /\ UNCHANGED <<taskVars, serving, adding, events, queue, fate>>
               /\ core1 \notin {"add", "ack", "queued"}
               /\ core1' \notin {"add", "ack", "queued"}
    BY <1>1 DEF AtCheck, AtAbort, OpenMsg, OpenSend
  <1>2. ASSUME NEW c \in GuardedCommands, AtAdmit(c) \/ AtRefuse(c)
        PROVE  /\ UNCHANGED <<taskVars, serving, adding, events, queue, fate>>
               /\ core1 \notin {"add", "ack", "queued"}
               /\ core1' \notin {"add", "ack", "queued"}
    BY <1>2 DEF AtAdmit, AtRefuse
  <1>3. ASSUME (\E f \in Freqs : SetFreq(f)) \/ (\E b \in BOOLEAN : SetMailDrop(b))
        PROVE  /\ UNCHANGED <<taskVars, serving, adding, events, queue, fate>>
               /\ core1 \notin {"add", "ack", "queued"}
               /\ core1' \notin {"add", "ack", "queued"}
    BY <1>3 DEF SetFreq, SetMailDrop
  <1>4. CASE TextArrives \/ DataArrives \/ TooLate \/ Misread \/ CloseDialogue
    BY <1>4 DEF TextArrives, DataArrives, TooLate, Misread, CloseDialogue
  <1>5. ASSUME NEW u \in Uuids, AppendAtMessage(u) \/ RefuseAtMessage(u)
        PROVE  /\ UNCHANGED <<taskVars, serving, adding, events>>
               /\ core1 \notin {"add", "ack", "queued"}
               /\ core1' \notin {"add", "ack", "queued"}
    BY <1>5 DEF AppendAtMessage, RefuseAtMessage, Fifo!Put
  <1> QED  BY <1>1, <1>2, <1>3, <1>4, <1>5 DEF At

(* What it takes of an undisturbed transmission makes that disturbed.      *)
LEMMA AtSentInv == ASSUME IInv, At PROVE SentInv'
  <1>0. SentInv /\ HostTypes /\ SharedTypes  BY DEF IInv, TypeOK
  <1>1. UNCHANGED <<taskVars, serving, aired>>  BY AtOutline, AtAir
  <1>2. \A u \in Uuids : fate'[u] = "done" <=> fate[u] = "done"
    <2>1. CASE UNCHANGED fate  BY <2>1
    <2>2. ASSUME NEW u \in Uuids, AppendAtMessage(u) \/ RefuseAtMessage(u)
          PROVE  \A v \in Uuids : fate'[v] = "done" <=> fate[v] = "done"
      BY <2>2, <1>0 DEF AppendAtMessage, RefuseAtMessage, HostTypes
    <2> QED  BY <2>1, <2>2, AtOutline
  <1>3. disturbed \subseteq disturbed'  BY AtAir DEF Disturb, airVars, airHistory
  <1>4. task = "fifo" /\ radio.mode = "standby" => radio'.mode = "standby"
    BY <1>0, AtAir DEF airVars, SharedTypes
  <1>5. ASSUME serving.uuid \notin disturbed'
        PROVE  /\ task \in OnFrequency => radio'.freq = radio.freq
               /\ task \in Buffered => UNCHANGED bufferVars
               /\ task = "fifo" => radio'.mode = radio.mode
    <2>1. \A places : Disturb(places) => task \notin places  BY <1>5 DEF Disturb
    <2>2. "fifo" \in OnFrequency /\ Buffered \subseteq OnFrequency
      BY DEF OnFrequency, Buffered
    <2> QED  BY <2>1, <2>2, <1>0, AtAir DEF airVars, SharedTypes
  <1> QED  BY <1>0, <1>1, <1>2, <1>3, <1>4, <1>5, SentStays DEF taskVars

(* Every step of the AT parser keeps the invariant.                        *)
LEMMA AtIInv == ASSUME IInv, At PROVE IInv'
  <1>0. /\ SharedTypes /\ HostTypes /\ TypeOK
        /\ TaskInv /\ AddingInv /\ QueueInv /\ EventInv
    BY DEF IInv, TypeOK
  <1>1. /\ UNCHANGED <<taskVars, serving, adding, events>>
        /\ core1 \notin {"add", "ack", "queued"} /\ core1' \notin {"add", "ack", "queued"}
    BY AtOutline
  <1>2. AddingInv'  BY <1>1 DEF AddingInv
  <1>3. \A u \in Uuids : ~Adds(u, {"add", "ack"})' /\ ~Adds(u, {"add", "ack", "queued"})'
    BY <1>1 DEF Adds
  <1>4. CASE UNCHANGED <<queue, fate>>
    <2>1. TaskInv' /\ QueueInv'  BY <1>0, <1>1, <1>4 DEF TaskInv, QueueInv, taskVars
    <2>2. EventInv'
      <3>1. \A u \in Uuids : Packets(u)' = Packets(u)
                             /\ PacketsOrdered(u)' = PacketsOrdered(u)
        BY <1>1, SilentPackets
      <3> QED  BY <1>0, <1>1, <1>3, <1>4, <3>1 DEF EventInv, PacketsTrue, Serves, taskVars
    <2> QED  BY <2>1, <2>2, <1>2, AtTypeOK, AtSentInv DEF IInv
  <1>5. ASSUME NEW u \in Uuids, AppendAtMessage(u) \/ RefuseAtMessage(u)
        PROVE  IInv'
    <2>1. fate[u] = "unused" /\ Packets(u) = {}
      BY <1>0, <1>5 DEF AppendAtMessage, RefuseAtMessage, EventInv, PacketsTrue
    <2>2. TaskInv' /\ QueueInv'
      <3>1. CASE AppendAtMessage(u)
        <4>1. PICK m \in Message : m.uuid = u /\ Fifo!Put(m)  BY <3>1, <1>0, AtMessage
        <4>2. fate[m.uuid] = "unused" /\ fate' = [fate EXCEPT ![m.uuid] = "accepted"]
              /\ UNCHANGED taskVars
          BY <1>1, <3>1, <4>1 DEF AppendAtMessage
        <4> QED  BY <1>0, <4>1, <4>2, PutMessage
      <3>2. CASE RefuseAtMessage(u)
        <4>1. fate' = [fate EXCEPT ![u] = "refused"] /\ UNCHANGED queue
          BY <3>2 DEF RefuseAtMessage, queueVars
        <4>2. QueueInv'  BY <1>0, <2>1, <4>1, RefusedMessage
        <4> QED  BY <1>0, <1>1, <4>1, <4>2 DEF TaskInv, taskVars
      <3> QED  BY <1>5, <3>1, <3>2
    <2>3. \A v \in Uuids \ {u} : fate'[v] = fate[v]
      BY <1>0, <1>5 DEF AppendAtMessage, RefuseAtMessage, HostTypes
    <2>4. EventInv'
      BY <1>0, <1>1, <1>3, <2>1, <2>3, QuietFate DEF taskVars
    <2> QED  BY <2>2, <2>4, <1>2, AtTypeOK, AtSentInv DEF IInv
  <1> QED  BY <1>4, <1>5, AtOutline

-----------------------------------------------------------------------------
(* Whatever the host sends.                                                *)

(* Every behaviour of the transmitter, with either protocol in any mixture *)
(* and with any radio faults, stays within IInv.                           *)
THEOREM Invariance == Safety => []IInv
  <1>1. IInv /\ [Next]_vars => IInv'
    BY Core0IInv, InterruptIInv, BinaryIInv, AtIInv, StutterInv DEF Next
  <1> QED  BY InitIInv, <1>1, PTL DEF Safety

(* Types: the counters of the transmission stay within the buffer and the  *)
(* queue holds messages, whichever core writes what in between.            *)
THEOREM TypeCorrect == Safety => []TypeOK
  <1>1. IInv => TypeOK  BY DEF IInv
  <1> QED  BY <1>1, Invariance, PTL

(* The host is not misled: what it is told about a message is told once    *)
(* and in order, a message reported done went on the air whole, load by    *)
(* load on its frequency, and of one reported failed nothing did.  The     *)
(* host may mix the two protocols as it likes; only a message whose        *)
(* transmission an AT command took the radio or the buffer from can be     *)
(* reported done with less.                                                *)
THEOREM HostToldTheTruth == Safety => []HostNotMisled
  <1>1. IInv => HostNotMisled
    <2> SUFFICES ASSUME IInv, NEW u \in Uuids
                 PROVE  /\ fate[u] = "refused" => Packets(u) \subseteq {"NACK"}
                        /\ "DONE" \in Packets(u) =>
                               /\ Ends(u, "done")
                               /\ aired[u] = FrameChunks \/ u \in disturbed
                        /\ "FAILED" \in Packets(u) => Ends(u, "failed") /\ aired[u] = 0
                        /\ PacketsOrdered(u)
      BY DEF HostNotMisled, PacketsOrdered
    <2>1. /\ PacketsTrue(u) /\ PacketsOrdered(u) /\ TypeOK /\ TaskInv /\ QueueInv
          /\ SentInv /\ aired[u] \in 0 .. FrameChunks /\ FrameChunks \in Nat
      BY DeviceAssumption DEF IInv, EventInv, TypeOK, HistoryTypes
    <2>2. task \in {"wind_down", "remove"} => serving # NoMessage  BY <2>1 DEF TaskInv
    <2>3. ASSUME "DONE" \in Packets(u)
          PROVE  Ends(u, "done") /\ (aired[u] = FrameChunks \/ u \in disturbed)
      BY <2>1, <2>2, <2>3 DEF PacketsTrue, Serves, Ends, SentInv, Undisturbed
    <2>4. ASSUME "FAILED" \in Packets(u)
          PROVE  Ends(u, "failed") /\ aired[u] = 0
      <3>1. task # "idle" => fate[serving.uuid] = "accepted"  BY <2>1, ServedMessage
      <3>2. ~(aired[u] > 0)
        BY <2>1, <2>4, <3>1 DEF PacketsTrue, Serves, SentInv
      <3> QED  BY <2>1, <2>2, <2>4, <3>2 DEF PacketsTrue, Serves, Ends
    <2> QED  BY <2>1, <2>3, <2>4 DEF PacketsTrue
  <1> QED  BY <1>1, Invariance, PTL

-----------------------------------------------------------------------------
(* The abstract service.                                                   *)

(* What TxService sees of the device.                                      *)
WaitingUuids == [i \in 1 .. Len(queue) |-> queue[i].uuid]
PublicFate == [u \in Uuids |-> IF fate[u] = "pending" THEN "unused" ELSE fate[u]]

(* The uuids of the queue are a sequence as long as the queue.             *)
LEMMA WaitingType ==
    ASSUME queue \in Seq(Message)
    PROVE  /\ WaitingUuids \in Seq(Uuids) /\ Len(WaitingUuids) = Len(queue)
           /\ \A i \in 1 .. Len(queue) : WaitingUuids[i] = queue[i].uuid
  <1>1. Len(queue) \in Nat /\ \A i \in 1 .. Len(queue) : queue[i] \in Message  OBVIOUS
  <1>2. \A i \in 1 .. Len(queue) : queue[i].uuid \in Uuids  BY <1>1 DEF Message
  <1>3. WaitingUuids \in [1 .. Len(queue) -> Uuids]  BY <1>2 DEF WaitingUuids
  <1>4. WaitingUuids \in Seq(Uuids)  BY <1>1, <1>3, SeqDef
  <1>5. DOMAIN WaitingUuids = 1 .. Len(queue)  BY DEF WaitingUuids
  <1> QED  BY <1>1, <1>4, <1>5 DEF WaitingUuids

(* A message put in the queue is one uuid more, ...                        *)
LEMMA WaitingPut ==
    ASSUME queue \in Seq(Message), NEW m \in Message, queue' = Append(queue, m)
    PROVE  WaitingUuids' = Append(WaitingUuids, m.uuid)
  <1>1. queue' \in Seq(Message) /\ m.uuid \in Uuids  BY DEF Message
  <1>2. /\ WaitingUuids' \in Seq(Uuids) /\ Len(WaitingUuids') = Len(queue')
        /\ \A i \in 1 .. Len(queue') : WaitingUuids'[i] = queue'[i].uuid
    BY <1>1, WaitingType DEF WaitingUuids
  <1> DEFINE w == Append(WaitingUuids, m.uuid)
  <1>3. w \in Seq(Uuids) /\ Len(w) = Len(queue) + 1 /\ Len(queue') = Len(queue) + 1
    BY <1>1, WaitingType
  <1>4. ASSUME NEW i \in 1 .. Len(queue')
        PROVE  WaitingUuids'[i] = w[i]
    <2>1. CASE i = Len(queue) + 1
      BY <2>1, <1>1, <1>2, WaitingType
    <2>2. CASE i \in 1 .. Len(queue)
      BY <2>2, <1>1, <1>2, WaitingType
    <2> QED  BY <2>1, <2>2, <1>3
  <1> HIDE DEF w
  <1>5. WaitingUuids' = w  BY <1>2, <1>3, <1>4, SeqEqual
  <1> QED  BY <1>5 DEF w

(* ... and the first one removed is the first uuid removed.                *)
LEMMA WaitingRemove ==
    ASSUME queue \in Seq(Message), queue # <<>>, queue' = Tail(queue)
    PROVE  /\ WaitingUuids # <<>> /\ Head(WaitingUuids) = queue[1].uuid
           /\ WaitingUuids' = Tail(WaitingUuids)
  <1>1. /\ queue' \in Seq(Message) /\ Len(queue) \in Nat \ {0}
        /\ Len(queue') = Len(queue) - 1
        /\ \A i \in 1 .. Len(queue') : queue'[i] = queue[i + 1]
    OBVIOUS
  <1>2. /\ WaitingUuids' \in Seq(Uuids) /\ Len(WaitingUuids') = Len(queue')
        /\ \A i \in 1 .. Len(queue') : WaitingUuids'[i] = queue'[i].uuid
    BY <1>1, WaitingType DEF WaitingUuids
  <1>3. /\ WaitingUuids \in Seq(Uuids) /\ Len(WaitingUuids) = Len(queue)
        /\ \A i \in 1 .. Len(queue) : WaitingUuids[i] = queue[i].uuid
    BY WaitingType
  <1>4. WaitingUuids # <<>> /\ Head(WaitingUuids) = queue[1].uuid
    BY <1>1, <1>3
  <1> DEFINE w == Tail(WaitingUuids)
  <1>5. w \in Seq(Uuids) /\ Len(w) = Len(queue) - 1
        /\ \A i \in 1 .. Len(w) : w[i] = WaitingUuids[i + 1]
    BY <1>1, <1>3, <1>4
  <1>6. \A i \in 1 .. Len(queue') : WaitingUuids'[i] = w[i]
    BY <1>1, <1>2, <1>3, <1>5
  <1> HIDE DEF w
  <1>7. WaitingUuids' = w  BY <1>1, <1>2, <1>5, <1>6, SeqEqual
  <1> QED  BY <1>4, <1>7 DEF w

(* What becomes of a message becomes of it in public, but for its arrival. *)
LEMMA PublicFateChange ==
    ASSUME HostTypes, NEW u \in Uuids, NEW f, fate' = [fate EXCEPT ![u] = f]
    PROVE  PublicFate' = [PublicFate EXCEPT ![u] = IF f = "pending" THEN "unused" ELSE f]
  <1>1. fate' = [v \in Uuids |-> IF v = u THEN f ELSE fate[v]]  BY DEF HostTypes
  <1>2. \A v \in Uuids : fate'[v] = IF v = u THEN f ELSE fate[v]  BY <1>1
  <1>3. PublicFate' = [v \in Uuids |-> IF fate'[v] = "pending" THEN "unused" ELSE fate'[v]]
    BY DEF PublicFate
  <1> QED  BY <1>2, <1>3 DEF PublicFate

(* The three steps of the service.                                         *)
LEMMA PutAccepts ==
    ASSUME IInv, NEW m \in Message, fate[m.uuid] \in {"unused", "pending"},
           Fifo!Put(m), fate' = [fate EXCEPT ![m.uuid] = "accepted"]
    PROVE  Service!Next
  <1>0. queue \in Seq(Message) /\ HostTypes  BY DEF IInv, TypeOK, SharedTypes
  <1>1. PICK u \in Uuids : u = m.uuid  BY DEF Message
  <1>2. PublicFate[u] = "unused"  BY <1>1 DEF PublicFate
  <1>3. PublicFate' = [PublicFate EXCEPT ![u] = "accepted"]
    BY <1>0, <1>1, PublicFateChange
  <1>4. Len(WaitingUuids) < MESSAGE_QUEUE_SIZE /\ WaitingUuids' = Append(WaitingUuids, u)
    BY <1>0, <1>1, WaitingType, WaitingPut DEF Fifo!Put
  <1>5. Service!Accept(u)
    BY <1>2, <1>3, <1>4 DEF Service!Accept, PublicFate, WaitingUuids
  <1> QED  BY <1>5 DEF Service!Next

LEMMA RefusalRefuses ==
    ASSUME IInv, NEW u \in Uuids, fate[u] \in {"unused", "pending"},
           fate' = [fate EXCEPT ![u] = "refused"], UNCHANGED queue
    PROVE  Service!Next
  <1>0. HostTypes  BY DEF IInv, TypeOK
  <1>1. PublicFate[u] = "unused"  BY DEF PublicFate
  <1>2. PublicFate' = [PublicFate EXCEPT ![u] = "refused"]  BY <1>0, PublicFateChange
  <1>3. WaitingUuids' = WaitingUuids  BY DEF WaitingUuids
  <1>4. Service!Refuse(u)
    BY <1>1, <1>2, <1>3 DEF Service!Refuse, PublicFate, WaitingUuids
  <1> QED  BY <1>4 DEF Service!Next

LEMMA RemovalFinishes == ASSUME IInv, RemoveMessage PROVE Service!Next
  <1>0. queue \in Seq(Message) /\ HostTypes /\ TypeOK /\ TaskInv /\ QueueInv
    BY DEF IInv, TypeOK, SharedTypes
  <1>1. /\ serving.uuid \in Uuids /\ queue # <<>> /\ serving = queue[1]
        /\ outcome \in {"done", "failed"} /\ queue' = Tail(queue)
        /\ fate' = [fate EXCEPT ![serving.uuid] = outcome]
    BY <1>0, ServedMessage DEF RemoveMessage, TaskInv, Fifo!Complete
  <1>2. /\ WaitingUuids # <<>> /\ Head(WaitingUuids) = serving.uuid
        /\ WaitingUuids' = Tail(WaitingUuids)
    BY <1>0, <1>1, WaitingRemove
  <1>3. PublicFate' = [PublicFate EXCEPT ![serving.uuid] = outcome]
    <2>1. PICK u \in Uuids : u = serving.uuid  BY <1>1
    <2>2. PICK f \in {"done", "failed"} : f = outcome  BY <1>1
    <2>3. fate' = [fate EXCEPT ![u] = f]  BY <1>1, <2>1, <2>2
    <2>4. PublicFate' = [PublicFate EXCEPT ![u] = f]  BY <1>0, <2>3, PublicFateChange
    <2> QED  BY <2>1, <2>2, <2>4
  <1>4. Service!Finish
    BY <1>1, <1>2, <1>3 DEF Service!Finish, PublicFate, WaitingUuids
  <1> QED  BY <1>4 DEF Service!Next

(* Nothing else shows.                                                     *)
LEMMA HiddenStep ==
    ASSUME UNCHANGED queue,
           \/ UNCHANGED fate
           \/ HostTypes /\ \E u \in Uuids : /\ fate[u] = "unused"
                                            /\ fate' = [fate EXCEPT ![u] = "pending"]
    PROVE  UNCHANGED Service!vars
  <1>1. WaitingUuids' = WaitingUuids  BY DEF WaitingUuids
  <1>2. PublicFate' = PublicFate
    <2>1. CASE UNCHANGED fate  BY <2>1 DEF PublicFate
    <2>2. ASSUME HostTypes, NEW u \in Uuids, fate[u] = "unused",
                 fate' = [fate EXCEPT ![u] = "pending"]
          PROVE  PublicFate' = PublicFate
      <3>1. PublicFate' = [PublicFate EXCEPT ![u] = "unused"]  BY <2>2, PublicFateChange
      <3>2. PublicFate[u] = "unused"  BY <2>2 DEF PublicFate
      <3> QED  BY <3>1, <3>2 DEF PublicFate
    <2> QED  BY <2>1, <2>2
  <1> QED  BY <1>1, <1>2 DEF Service!vars, WaitingUuids, PublicFate

(* The transmitter keeps its promise about each message, in every mixture  *)
(* of the protocols and with every fault and abort: accepted or refused    *)
(* once, ended at most once, in the order of acceptance.                   *)
THEOREM ServiceImplemented == Safety => ServiceSafety
  <1>1. Init => Service!Init
    <2> SUFFICES ASSUME Init PROVE Service!Init  OBVIOUS
    <2>1. queue = <<>> /\ fate = [u \in Uuids |-> "unused"]  BY DEF Init, Fifo!Init
    <2>2. WaitingUuids = <<>>  BY <2>1 DEF WaitingUuids
    <2>3. PublicFate = [u \in Uuids |-> "unused"]  BY <2>1 DEF PublicFate
    <2> QED  BY <2>2, <2>3 DEF Service!Init, WaitingUuids, PublicFate
  <1>2. IInv /\ [Next]_vars => [Service!Next]_(Service!vars)
    <2> SUFFICES ASSUME IInv, [Next]_vars
                 PROVE  Service!Next \/ UNCHANGED Service!vars
      OBVIOUS
    <2>0. HostTypes /\ TypeOK /\ AddingInv  BY DEF IInv, TypeOK
    <2>1. CASE Core0
      <3>1. CASE RemoveMessage  BY <3>1, RemovalFinishes
      <3>2. CASE UNCHANGED <<queue, fate>>  BY <3>2, HiddenStep
      <3> QED  BY <2>1, <3>1, <3>2
               DEF Core0, TakeMessage, Fifo!Take, TuneRadio, TuneFails, Encode,
                   EncodeFails, ReportFailure, EnterTransmitting, SendEmr, AnnounceStart,
                   StartRadio, FeedFifo, ReportOutcome, WindDown, queueVars
    <2>2. CASE FifoInterrupt
      BY <2>2, HiddenStep DEF FifoInterrupt, queueVars
    <2>3. CASE Binary
      <3>1. ASSUME NEW m \in HostMessage, ReceiveSendFlex(m)
            PROVE  UNCHANGED Service!vars
        <4>1. m.uuid \in Uuids  BY DEF HostMessage, Message
        <4> QED  BY <2>0, <3>1, <4>1, HiddenStep DEF ReceiveSendFlex, queueVars
      <3>2. ASSUME NEW u \in Uuids, RejectSendFlex(u)
            PROVE  Service!Next
        BY <3>2, RefusalRefuses DEF RejectSendFlex, queueVars
      <3>3. ASSUME NEW u \in Uuids, QueueAlert(u)
            PROVE  Service!Next
        <4>1. PICK m \in Message : m.uuid = u /\ Fifo!Put(m)
          BY <3>3 DEF QueueAlert, Message
        <4> QED  BY <3>3, <4>1, PutAccepts DEF QueueAlert
      <3>4. CASE AddSendFlex
        <4>1. PICK m \in Message : m = adding  BY <2>0, <3>4 DEF AddSendFlex, AddingInv
        <4> QED  BY <2>0, <3>4, <4>1, PutAccepts DEF AddSendFlex, AddingInv
      <3>5. CASE RefuseSendFlex
        <4>1. PICK u \in Uuids : u = adding.uuid
          BY <2>0, <3>5 DEF RefuseSendFlex, AddingInv, Message
        <4> QED  BY <2>0, <3>5, <4>1, RefusalRefuses DEF RefuseSendFlex, AddingInv, queueVars
      <3>6. CASE SendAck \/ SendQueued \/ AnswerCommand
        BY <3>6, HiddenStep DEF SendAck, SendQueued, AnswerCommand, queueVars
      <3> QED  BY <2>3, <3>1, <3>2, <3>3, <3>4, <3>5, <3>6 DEF Binary
    <2>4. CASE At
      <3>1. CASE UNCHANGED <<queue, fate>>  BY <3>1, HiddenStep
      <3>2. ASSUME NEW u \in Uuids, AppendAtMessage(u)
            PROVE  Service!Next
        <4>1. PICK m \in Message : m.uuid = u /\ Fifo!Put(m)  BY <2>0, <3>2, AtMessage
        <4> QED  BY <3>2, <4>1, PutAccepts DEF AppendAtMessage
      <3>3. ASSUME NEW u \in Uuids, RefuseAtMessage(u)
            PROVE  Service!Next
        BY <3>3, RefusalRefuses DEF RefuseAtMessage, queueVars
      <3> QED  BY <2>4, <3>1, <3>2, <3>3, AtOutline
    <2>5. CASE UNCHANGED vars
      BY <2>5, HiddenStep DEF vars, queueVars
    <2> QED  BY <2>1, <2>2, <2>3, <2>4, <2>5 DEF Next
  <1> QED  BY <1>1, <1>2, Invariance, PTL DEF Safety, ServiceSafety, Service!Safety

-----------------------------------------------------------------------------
(* A host that speaks binary only.                                         *)

HostSpeaksBinary == Inputs \subseteq {"SEND_FLEX", "QUERY", "ALERT"}

(* It never reaches the AT parser.                                         *)
LEMMA NoAtStep == ASSUME HostSpeaksBinary, BinaryOnly PROVE ~At
  <1> USE DEF HostSpeaksBinary, BinaryOnly
  <1>1. ~AtCheck /\ ~AtAbort  BY DEF AtCheck, AtAbort, CommandArrives
  <1>2. \A c \in GuardedCommands : ~AtAdmit(c) /\ ~AtRefuse(c)
    BY DEF GuardedCommands, AtAdmit, AtRefuse, CommandArrives
  <1>3. /\ \A f \in Freqs : ~SetFreq(f)
        /\ \A b \in BOOLEAN : ~SetMailDrop(b)
        /\ ~OpenMsg /\ \A n \in DataLoads : ~OpenSend(n)
    BY DEF SetFreq, SetMailDrop, OpenMsg, OpenSend, Execute
  <1>4. ~TextArrives /\ ~DataArrives /\ ~TooLate /\ ~Misread /\ ~CloseDialogue
    BY DEF TextArrives, DataArrives, TooLate, Misread, CloseDialogue
  <1>5. \A u \in Uuids : ~AppendAtMessage(u) /\ ~RefuseAtMessage(u)
    BY DEF AppendAtMessage, RefuseAtMessage
  <1> QED  BY <1>1, <1>2, <1>3, <1>4, <1>5 DEF At

(* With such a host every behaviour stays within BinaryInv too.            *)
THEOREM BinaryInvariance ==
    ASSUME HostSpeaksBinary PROVE Safety => [](IInv /\ BinaryInv)
  <1>1. IInv /\ BinaryInv /\ [Next]_vars => BinaryInv'
    <2> SUFFICES ASSUME IInv, BinaryInv, [Next]_vars PROVE BinaryInv'  OBVIOUS
    <2>1. ~At  BY NoAtStep DEF BinaryInv
    <2> QED  BY <2>1, BinaryStepInv, StutterInv DEF Next
  <1> QED  BY InitBinaryInv, <1>1, Invariance, PTL DEF Safety

(* It is told everything: when a message that got its ACK is over, its     *)
(* start and its end were reported, or its failure.                        *)
THEOREM HostToldEverything ==
    ASSUME HostSpeaksBinary PROVE Safety => []NothingUnreported
  <1>1. BinaryInv => NothingUnreported
    BY DEF BinaryInv, ReportInv, Acknowledged, NothingUnreported
  <1> QED  BY <1>1, BinaryInvariance, PTL

(* What it sends meanwhile never reaches the air: the frame being sent is  *)
(* that of the message in service, whole and on its frequency.             *)
THEOREM CoresIsolated ==
    ASSUME HostSpeaksBinary PROVE Safety => []CoreIsolation
  <1>1. BinaryInv => CoreIsolation
    BY DEF BinaryInv, AirInv, CoreIsolation
  <1> QED  BY <1>1, BinaryInvariance, PTL

(* The radio transmits only behind a device_state that says so.            *)
THEOREM GuardCovers ==
    ASSUME HostSpeaksBinary PROVE Safety => []GuardCoversAir
  <1>1. IInv /\ BinaryInv => GuardCoversAir
    <2> SUFFICES ASSUME IInv, BinaryInv, radio.mode = "transmit"
                 PROVE  device_state = "TRANSMITTING"
      BY DEF GuardCoversAir
    <2>1. task \notin {"idle", "tune", "encode", "fail", "amplify", "remove"}
      BY DEF BinaryInv, AirInv
    <2>2. task \in {"emr", "announce", "send", "fifo", "report", "wind_down"}
      BY <2>1 DEF IInv, TypeOK, Core0Types
    <2> QED  BY <2>2 DEF BinaryInv, AirInv
  <1> QED  BY <1>1, BinaryInvariance, PTL
=============================================================================

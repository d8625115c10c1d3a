----------------------- MODULE TransmissionTask_proofs -----------------------
(***************************************************************************)
(* What Core 0 and the binary handlers of Core 1 preserve, for every queue *)
(* size, frame length, set of messages and set of radio faults.  Device    *)
(* adds the AT parser to these steps, HostedDevice a program on the host;  *)
(* Device_proofs and HostedDevice_proofs start from the lemmas below.      *)
(***************************************************************************)
EXTENDS TransmissionTask, BinaryCommands, Integers, SequenceTheorems, TLAPS

PacketKinds == {"ACK", "NACK", "QUEUED", "START", "DONE", "FAILED"}

-----------------------------------------------------------------------------
(* The inductive invariant.                                                *)

(* What the place of the task says about the message it serves.            *)
TaskInv ==
    /\ serving = NoMessage <=> task = "idle"
    /\ serving # NoMessage => queue # <<>> /\ serving = Head(queue)
    /\ task \in {"idle", "tune", "encode", "amplify", "emr", "announce", "send"}
            => outcome = "none"
    /\ task = "fail" => outcome = "failed"
    /\ task \in {"fifo", "report", "wind_down", "remove"} => outcome \in {"done", "failed"}
    /\ task = "fifo" => current_tx_remaining_length > 0

(* What the place of Core 1 says about the message it adds.                *)
AddingInv ==
    /\ core1 \in {"add", "ack", "queued"} => adding \in Message
    /\ core1 = "add" => fate[adding.uuid] = "pending"
    /\ core1 \in {"ack", "queued"} => fate[adding.uuid] \in {"accepted", "done", "failed"}

(* The queue holds accepted messages, each once.                           *)
QueueInv ==
    /\ \A i \in 1 .. Len(queue) : fate[queue[i].uuid] = "accepted"
    /\ \A i, j \in 1 .. Len(queue) : queue[i].uuid = queue[j].uuid => i = j

Serves(u, places) == task \in places /\ serving.uuid = u

Adds(u, places) == core1 \in places /\ adding.uuid = u

(* What a packet that was sent says about its message.                     *)
PacketsTrue(u) ==
    /\ fate[u] \in {"unused", "pending"} => Packets(u) = {}
    /\ fate[u] = "refused" => Packets(u) \subseteq {"NACK"}
    /\ "NACK" \in Packets(u) => fate[u] = "refused"
    /\ "START" \in Packets(u) =>
            \/ fate[u] \in {"done", "failed"}
            \/ Serves(u, {"send", "fifo", "report", "wind_down", "remove"})
    /\ "DONE" \in Packets(u) =>
            \/ fate[u] = "done"
            \/ Serves(u, {"wind_down", "remove"}) /\ outcome = "done"
    /\ "FAILED" \in Packets(u) =>
            \/ fate[u] = "failed"
            \/ Serves(u, {"wind_down", "remove"}) /\ outcome = "failed"
    /\ "ACK" \in Packets(u) => ~Adds(u, {"add", "ack"})
    /\ "QUEUED" \in Packets(u) => ~Adds(u, {"add", "ack", "queued"})

(* No packet is sent twice, and two of them only in their order.           *)
PacketsOrdered(u) ==
    /\ Before(u, "START", "DONE") /\ Before(u, "START", "FAILED")
    /\ Before(u, "ACK", "QUEUED")
    /\ \A i, j \in 1 .. Len(events[u]) : events[u][i] = events[u][j] => i = j

EventInv == \A u \in Uuids : PacketsTrue(u) /\ PacketsOrdered(u)

(* What is on the air of a message is of one that is done, or is about to  *)
(* be, and all of its frame unless an AT command came in between.          *)
Undisturbed ==
    /\ task \in OnFrequency => radio.freq = serving.freq
    /\ task \in Buffered =>
           /\ \A i \in 1 .. FrameChunks : tx_data_buffer[i] = serving.uuid
           /\ current_tx_total_length = FrameChunks
    /\ task = "fifo" /\ outcome = "done" =>
           /\ radio.mode = "transmit"
           /\ aired[serving.uuid] + current_tx_remaining_length = FrameChunks + 1
    /\ task \in {"report", "wind_down", "remove"} /\ outcome = "done" =>
           aired[serving.uuid] = FrameChunks

SentInv ==
    /\ \A u \in Uuids :
        /\ aired[u] > 0 =>
               \/ fate[u] = "done"
               \/ Serves(u, {"fifo", "report", "wind_down", "remove"}) /\ outcome = "done"
        /\ fate[u] = "done" => aired[u] = FrameChunks \/ u \in disturbed
    /\ task = "fifo" /\ outcome = "failed" => radio.mode = "standby"
    /\ task # "idle" /\ serving.uuid \notin disturbed => Undisturbed

IInv == TypeOK /\ TaskInv /\ AddingInv /\ QueueInv /\ EventInv /\ SentInv

-----------------------------------------------------------------------------
(* The rest of it, which needs a host that speaks binary only.             *)

(* Every packet due about a message with an ACK was sent.                  *)
Acknowledged(u) == "ACK" \in Packets(u) \/ Adds(u, {"add", "ack", "queued"})

ReportInv ==
    \A u \in Uuids : Acknowledged(u) =>
        /\ binary_protocol_active
        /\ fate[u] = "done" => {"START", "DONE"} \subseteq Packets(u)
        /\ fate[u] = "failed" => "FAILED" \in Packets(u)
        /\ Serves(u, {"send", "fifo", "report"}) => "START" \in Packets(u)
        /\ Serves(u, {"wind_down", "remove"}) =>
               /\ outcome = "done" => {"START", "DONE"} \subseteq Packets(u)
               /\ outcome = "failed" => "FAILED" \in Packets(u)

(* From its tuning to its end the transmission is that of the message in   *)
(* service, and the radio is on only behind a device_state that says so.   *)
AirInv ==
    /\ task \in {"encode", "amplify", "emr", "announce", "send", "fifo", "report"}
            => radio.freq = serving.freq
    /\ task \in {"amplify", "emr", "announce", "send", "fifo", "report"}
            => /\ \A i \in 1 .. FrameChunks : tx_data_buffer[i] = serving.uuid
               /\ current_tx_total_length = FrameChunks
    /\ task \in {"idle", "tune", "encode", "fail", "amplify", "remove"}
            => radio.mode = "standby"
    /\ task \in {"emr", "announce", "send", "fifo", "report", "wind_down"}
            => device_state = "TRANSMITTING"

(* No AT dialogue is open.                                                 *)
BinaryOnly == core1 \in {"loop", "add", "ack", "queued"} /\ at_host = "command"

BinaryInv == BinaryOnly /\ ReportInv /\ AirInv

-----------------------------------------------------------------------------
(* Packets.                                                                *)

(* A packet that may follow those already sent about its message.          *)
MayFollow(u, p) ==
    /\ p \notin Packets(u)
    /\ p = "START" => "DONE" \notin Packets(u) /\ "FAILED" \notin Packets(u)
    /\ p = "ACK" => "QUEUED" \notin Packets(u)

(* No packet, no change.                                                   *)
LEMMA SilentPackets ==
    ASSUME UNCHANGED events, NEW u \in Uuids
    PROVE  Packets(u)' = Packets(u) /\ PacketsOrdered(u)' = PacketsOrdered(u)
  BY DEF Packets, PacketsOrdered, Before

(* A packet sent about one message joins those about it, in order if it    *)
(* may follow them, and leaves those about the others alone.               *)
LEMMA AppendedPacket ==
    ASSUME NEW u \in Uuids, NEW p \in PacketKinds,
           events \in [Uuids -> Seq(PacketKinds)],
           events' = [events EXCEPT ![u] = Append(@, p)]
    PROVE  /\ events' \in [Uuids -> Seq(PacketKinds)]
           /\ Packets(u)' = Packets(u) \union {p}
           /\ MayFollow(u, p) /\ PacketsOrdered(u) => PacketsOrdered(u)'
           /\ \A v \in Uuids \ {u} :
                Packets(v)' = Packets(v) /\ PacketsOrdered(v)' = PacketsOrdered(v)
  <1> DEFINE s == events[u]
  <1> DEFINE n == Len(s)
  <1>1. s \in Seq(PacketKinds) /\ n \in Nat  OBVIOUS
  <1>2. events'[u] = Append(s, p)  OBVIOUS
  <1>3. /\ Len(events'[u]) = n + 1
        /\ events'[u][n + 1] = p
        /\ \A i \in 1 .. n : events'[u][i] = s[i]
    BY <1>1, <1>2
  <1>4. events' \in [Uuids -> Seq(PacketKinds)]
    BY <1>1, <1>2
  <1>5. \A v \in Uuids \ {u} : events'[v] = events[v]  OBVIOUS
  <1>6. Packets(u) = {s[i] : i \in 1 .. n}  BY DEF Packets
  <1>7. Packets(u)' = {events'[u][i] : i \in 1 .. n + 1}  BY <1>3 DEF Packets
  <1> HIDE DEF s, n
  <1>8. Packets(u)' = Packets(u) \union {p}
    <2>1. \A i : i \in 1 .. n + 1 <=> i \in 1 .. n \/ i = n + 1  BY <1>1
    <2> QED  BY <2>1, <1>3, <1>6, <1>7, Zenon
  <1>9. ASSUME MayFollow(u, p), PacketsOrdered(u)
        PROVE  PacketsOrdered(u)'
    <2>1. \A i \in 1 .. n : s[i] # p
      BY <1>9, <1>6 DEF MayFollow
    <2>2. p = "START" => \A i \in 1 .. n : s[i] \notin {"DONE", "FAILED"}
      BY <1>9, <1>6 DEF MayFollow
    <2>3. p = "ACK" => \A i \in 1 .. n : s[i] # "QUEUED"
      BY <1>9, <1>6 DEF MayFollow
    <2>4. \A i, j \in 1 .. n :
            /\ s[i] = "START" /\ s[j] \in {"DONE", "FAILED"} => i < j
            /\ s[i] = "ACK" /\ s[j] = "QUEUED" => i < j
            /\ s[i] = s[j] => i = j
      BY <1>9 DEF PacketsOrdered, Before, s, n
    <2>5. \A i, j \in 1 .. n + 1 :
            /\ events'[u][i] = "START" /\ events'[u][j] \in {"DONE", "FAILED"} => i < j
            /\ events'[u][i] = "ACK" /\ events'[u][j] = "QUEUED" => i < j
            /\ events'[u][i] = events'[u][j] => i = j
      <3> SUFFICES ASSUME NEW i \in 1 .. n + 1, NEW j \in 1 .. n + 1
                   PROVE
            /\ events'[u][i] = "START" /\ events'[u][j] \in {"DONE", "FAILED"} => i < j
            /\ events'[u][i] = "ACK" /\ events'[u][j] = "QUEUED" => i < j
            /\ events'[u][i] = events'[u][j] => i = j
        OBVIOUS
      <3>1. CASE i \in 1 .. n /\ j \in 1 .. n  BY <3>1, <2>4, <1>3
      <3>2. CASE i \in 1 .. n /\ j = n + 1  BY <3>2, <2>1, <1>1, <1>3
      <3>3. CASE i = n + 1 /\ j \in 1 .. n  BY <3>3, <2>1, <2>2, <2>3, <1>1, <1>3
      <3>4. CASE i = n + 1 /\ j = n + 1  BY <3>4, <1>3
      <3>5. (i \in 1 .. n \/ i = n + 1) /\ (j \in 1 .. n \/ j = n + 1)  BY <1>1
      <3> QED  BY <3>1, <3>2, <3>3, <3>4, <3>5, Zenon
    <2> QED  BY <2>5, <1>3 DEF PacketsOrdered, Before
  <1>10. ASSUME NEW v \in Uuids \ {u}
         PROVE  Packets(v)' = Packets(v) /\ PacketsOrdered(v)' = PacketsOrdered(v)
    BY <1>5 DEF Packets, PacketsOrdered, Before
  <1> QED  BY <1>4, <1>8, <1>9, <1>10

(* An event is sent when the binary protocol is active, and else not.      *)
LEMMA EmittedPacket ==
    ASSUME NEW u \in Uuids, NEW p \in PacketKinds,
           events \in [Uuids -> Seq(PacketKinds)],
           Emit(u, p)
    PROVE  /\ events' \in [Uuids -> Seq(PacketKinds)]
           /\ Packets(u)' = IF binary_protocol_active THEN Packets(u) \union {p}
                                                      ELSE Packets(u)
           /\ MayFollow(u, p) /\ PacketsOrdered(u) => PacketsOrdered(u)'
           /\ \A v \in Uuids \ {u} :
                Packets(v)' = Packets(v) /\ PacketsOrdered(v)' = PacketsOrdered(v)
  <1>1. CASE binary_protocol_active
    <2>1. events' = [events EXCEPT ![u] = Append(@, p)]  BY <1>1 DEF Emit
    <2> QED  BY <2>1, <1>1, AppendedPacket
  <1>2. CASE ~binary_protocol_active
    <2>1. UNCHANGED events  BY <1>2 DEF Emit
    <2>2. \A v \in Uuids :
            Packets(v)' = Packets(v) /\ PacketsOrdered(v)' = PacketsOrdered(v)
      BY <2>1, SilentPackets
    <2> QED  BY <2>1, <2>2, <1>2
  <1> QED  BY <1>1, <1>2

-----------------------------------------------------------------------------
(* The initial state: an empty queue, nothing sent, nothing in progress.   *)
LEMMA InitIInv == Init => IInv
  <1> SUFFICES ASSUME Init PROVE IInv  OBVIOUS
  <1> USE DEF Init
  <1>1. queue = <<>> /\ serving = NoMessage  BY DEF Fifo!Init
  <1>2. TypeOK
    <2>1. radio \in [mode : {"standby", "transmit"}, freq : Freqs]  OBVIOUS
    <2>2. events \in [Uuids -> Seq(PacketKinds)]  OBVIOUS
    <2>3. 0 \in 0 .. FrameChunks /\ 0 \in 0 .. BufferLoads  BY DeviceAssumption
    <2>4. SharedTypes
      <3>1. queue \in Seq(Message) /\ serving \in Message \union {NoMessage}  BY <1>1
      <3>2. tx_data_buffer \in [1 .. BufferLoads -> Uuids \union {"zero", "user"}]
        OBVIOUS
      <3> QED  BY <3>1, <3>2, <2>1, <2>3 DEF SharedTypes
    <2>5. Core0Types /\ Core1Types  BY <2>3 DEF Core0Types, Core1Types
    <2>6. HostTypes  BY <2>2 DEF HostTypes, PacketKinds
    <2>7. HistoryTypes  BY <2>3 DEF HistoryTypes
    <2> QED  BY <2>4, <2>5, <2>6, <2>7 DEF TypeOK
  <1>3. TaskInv  BY <1>1 DEF TaskInv
  <1>4. AddingInv /\ QueueInv  BY <1>1 DEF AddingInv, QueueInv
  <1>5. EventInv
    <2> SUFFICES ASSUME NEW u \in Uuids PROVE PacketsTrue(u) /\ PacketsOrdered(u)
      BY DEF EventInv
    <2>1. events[u] = <<>> /\ fate[u] = "unused"  OBVIOUS
    <2>2. Packets(u) = {}  BY <2>1 DEF Packets
    <2>3. PacketsTrue(u)  BY <2>1, <2>2 DEF PacketsTrue
    <2>4. PacketsOrdered(u)  BY <2>1 DEF PacketsOrdered, Before
    <2> QED  BY <2>3, <2>4
  <1>6. SentInv  BY <1>1 DEF Init, SentInv
  <1> QED  BY <1>2, <1>3, <1>4, <1>5, <1>6 DEF IInv

-----------------------------------------------------------------------------
(* Core 0.                                                                 *)

(* The message in service is one of the queue, accepted and not reported.  *)
LEMMA ServedMessage ==
    ASSUME TypeOK, TaskInv, QueueInv, task # "idle"
    PROVE  /\ serving \in Message /\ serving # NoMessage
           /\ serving.uuid \in Uuids /\ serving.freq \in Freqs
           /\ fate[serving.uuid] = "accepted"
           /\ queue # <<>> /\ serving = queue[1] /\ 1 \in 1 .. Len(queue)
  <1>1. serving # NoMessage /\ serving = Head(queue) /\ queue # <<>>
    BY DEF TaskInv
  <1>2. serving \in Message  BY <1>1 DEF TypeOK, SharedTypes
  <1>3. Len(queue) \in Nat /\ Len(queue) # 0 /\ Head(queue) = queue[1]
    BY <1>1 DEF TypeOK, SharedTypes
  <1>4. 1 \in 1 .. Len(queue) /\ serving = queue[1]  BY <1>1, <1>3
  <1>5. fate[serving.uuid] = "accepted"  BY <1>4 DEF QueueInv
  <1> QED  BY <1>1, <1>2, <1>4, <1>5 DEF Message

(* A step of either core that sends nothing, ends nothing and leaves the   *)
(* message in service at its stage keeps what the packets say true.        *)
LEMMA QuietStep ==
    ASSUME EventInv,
           UNCHANGED <<fate, events, core1, adding>>,
           \A u \in Uuids :
             /\ Serves(u, {"send", "fifo", "report", "wind_down", "remove"})
                    => Serves(u, {"send", "fifo", "report", "wind_down", "remove"})'
             /\ Serves(u, {"wind_down", "remove"})
                    => Serves(u, {"wind_down", "remove"})' /\ UNCHANGED outcome
    PROVE  EventInv'
  <1> SUFFICES ASSUME NEW u \in Uuids PROVE PacketsTrue(u)' /\ PacketsOrdered(u)'
    BY DEF EventInv
  <1>1. PacketsTrue(u) /\ PacketsOrdered(u)  BY DEF EventInv
  <1>2. Packets(u)' = Packets(u) /\ PacketsOrdered(u)' = PacketsOrdered(u)
    BY SilentPackets
  <1>3. /\ Serves(u, {"send", "fifo", "report", "wind_down", "remove"})
               => Serves(u, {"send", "fifo", "report", "wind_down", "remove"})'
        /\ Serves(u, {"wind_down", "remove"})
               => Serves(u, {"wind_down", "remove"})' /\ UNCHANGED outcome
    OBVIOUS
  <1>4. \A places : Adds(u, places)' = Adds(u, places)  BY DEF Adds
  <1>5. PacketsTrue(u)'
    BY <1>1, <1>2, <1>3, <1>4 DEF PacketsTrue
  <1> QED  BY <1>1, <1>2, <1>5

(* A step that leaves what is on the air and the stage of the transmission *)
(* alone keeps what is known of them, if it leaves the radio and the       *)
(* buffer of an undisturbed transmission alone too.                        *)
LEMMA SentStays ==
    ASSUME SentInv,
           UNCHANGED <<task, outcome, current_tx_remaining_length, serving, aired>>,
           \A u \in Uuids : fate'[u] = "done" <=> fate[u] = "done",
           disturbed \subseteq disturbed',
           task = "fifo" /\ radio.mode = "standby" => radio'.mode = "standby",
           serving.uuid \notin disturbed' =>
               /\ task \in OnFrequency => radio'.freq = radio.freq
               /\ task \in Buffered => UNCHANGED bufferVars
               /\ task = "fifo" => radio'.mode = radio.mode
    PROVE  SentInv'
  <1>1. ASSUME NEW u \in Uuids
        PROVE  /\ aired'[u] > 0 =>
                    \/ fate'[u] = "done"
                    \/ /\ Serves(u, {"fifo", "report", "wind_down", "remove"})'
                       /\ outcome' = "done"
               /\ fate'[u] = "done" => aired'[u] = FrameChunks \/ u \in disturbed'
    BY DEF SentInv, Serves
  <1>2. task' = "fifo" /\ outcome' = "failed" => radio'.mode = "standby"
    BY DEF SentInv
  <1>3. ASSUME task' # "idle", serving'.uuid \notin disturbed'
        PROVE  Undisturbed'
    <2>1. Undisturbed /\ serving.uuid \notin disturbed'  BY <1>3 DEF SentInv
    <2>2. "fifo" \in OnFrequency /\ "fifo" \in Buffered  BY DEF OnFrequency, Buffered
    <2> QED  BY <2>1, <2>2 DEF Undisturbed, bufferVars
  <1> QED  BY <1>1, <1>2, <1>3 DEF SentInv

LEMMA Core0TypeOK == ASSUME IInv, Core0 PROVE TypeOK'
  <1> USE DEF taskVars, core1Vars, dialogueVars, hostVars, airVars, bufferVars,
              airHistory, queueVars, Core1Keeps
  <1>0. /\ SharedTypes /\ Core0Types /\ Core1Types /\ HostTypes /\ HistoryTypes /\ TypeOK
        /\ TaskInv /\ QueueInv
    BY DEF IInv, TypeOK
  <1>s. task # "idle" => serving.uuid \in Uuids /\ serving.freq \in Freqs
    BY <1>0, ServedMessage
  <1>1. Core1Types'
    BY <1>0 DEF Core1Types, Core0, TakeMessage, TuneRadio, TuneFails, Encode, EncodeFails,
        ReportFailure, EnterTransmitting, SendEmr, AnnounceStart, StartRadio, FeedFifo,
        ReportOutcome, WindDown, RemoveMessage
  <1>2. Core0Types'
    <2>1. CASE StartRadio
      BY <2>1, <1>0 DEF StartRadio, Core0Types, SharedTypes
    <2>2. CASE FeedFifo
      <3>1. current_tx_remaining_length' \in 0 .. BufferLoads
        BY <2>2, <1>0, DeviceAssumption DEF FeedFifo, Core0Types, TaskInv
      <3> QED  BY <2>2, <3>1, <1>0 DEF FeedFifo, Core0Types
    <2>3. CASE Encode
      BY <2>3, <1>0, DeviceAssumption DEF Encode, Core0Types
    <2>4. CASE TakeMessage \/ TuneRadio \/ TuneFails \/ EncodeFails \/ ReportFailure
                 \/ EnterTransmitting \/ SendEmr
      BY <2>4, <1>0 DEF Core0Types, TakeMessage, TuneRadio, TuneFails, EncodeFails,
                        ReportFailure, EnterTransmitting, SendEmr
    <2>5. CASE AnnounceStart \/ ReportOutcome \/ WindDown \/ RemoveMessage
      BY <2>5, <1>0 DEF Core0Types, AnnounceStart, ReportOutcome, WindDown, RemoveMessage
    <2> QED  BY <2>1, <2>2, <2>3, <2>4, <2>5 DEF Core0
  <1>3. HostTypes'
    <2>e. ASSUME NEW p \in PacketKinds, Emit(serving.uuid, p), serving.uuid \in Uuids
          PROVE  events' \in [Uuids -> Seq(PacketKinds)]
      <3>1. events \in [Uuids -> Seq(PacketKinds)]  BY <1>0 DEF HostTypes, PacketKinds
      <3> QED  BY <2>e, <3>1 DEF Emit
    <2>1. CASE ReportFailure \/ AnnounceStart \/ ReportOutcome
      BY <2>1, <2>e, <1>0, <1>s
         DEF HostTypes, PacketKinds, ReportFailure, AnnounceStart, ReportOutcome
    <2>2. CASE RemoveMessage
      BY <2>2, <1>0, <1>s DEF HostTypes, TaskInv, RemoveMessage
    <2>3. CASE UNCHANGED <<fate, events, hostVars>>
      BY <2>3, <1>0 DEF HostTypes
    <2> QED  BY <2>1, <2>2, <2>3
             DEF Core0, TakeMessage, TuneRadio, TuneFails, Encode, EncodeFails,
                 EnterTransmitting, SendEmr, StartRadio, FeedFifo, WindDown
  <1>4. SharedTypes'
    <2>1. CASE TakeMessage
      <3>1. queue # <<>> /\ serving' = Head(queue) /\ queue' = queue
        BY <2>1 DEF TakeMessage, Fifo!Take
      <3>2. Head(queue) \in Message  BY <3>1, <1>0 DEF SharedTypes
      <3>3. Head(queue).freq \in Freqs  BY <3>2 DEF Message
      <3> QED  BY <2>1, <3>1, <3>2, <3>3, <1>0 DEF TakeMessage, SharedTypes
    <2>2. CASE TuneRadio \/ TuneFails \/ SendEmr \/ StartRadio \/ WindDown
      BY <2>2, <1>0, <1>s
         DEF TuneRadio, TuneFails, Tuned, SendEmr, StartRadio, WindDown, SharedTypes
    <2>3. CASE Encode
      BY <2>3, <1>0, <1>s, DeviceAssumption DEF Encode, SharedTypes
    <2>4. CASE EnterTransmitting
      BY <2>4, <1>0 DEF EnterTransmitting, SharedTypes
    <2>5. CASE RemoveMessage
      BY <2>5, <1>0 DEF RemoveMessage, Fifo!Complete, SharedTypes, TaskInv
    <2>6. CASE UNCHANGED <<queueVars, device_state, current_tx_frequency, bufferVars,
                          radio, binary_protocol_active>>
      BY <2>6, <1>0 DEF SharedTypes
    <2> QED  BY <2>1, <2>2, <2>3, <2>4, <2>5, <2>6
             DEF Core0, EncodeFails, ReportFailure, AnnounceStart, FeedFifo, ReportOutcome
  <1>5. HistoryTypes'
    <2>1. CASE StartRadio
      BY <2>1, <1>0, <1>s, DeviceAssumption DEF StartRadio, HistoryTypes
    <2>2. CASE FeedFifo
      BY <2>2, <1>0, <1>s, DeviceAssumption DEF FeedFifo, HistoryTypes
    <2>3. CASE UNCHANGED airHistory
      BY <2>3, <1>0 DEF HistoryTypes
    <2> QED  BY <2>1, <2>2, <2>3
             DEF Core0, TakeMessage, TuneRadio, TuneFails, Encode, EncodeFails,
                 ReportFailure, EnterTransmitting, SendEmr, AnnounceStart,
                 ReportOutcome,
                 WindDown, RemoveMessage
  <1> QED  BY <1>1, <1>2, <1>3, <1>4, <1>5 DEF TypeOK

(* The places of the task follow each other, with the outcome they need.   *)
LEMMA Core0TaskInv == ASSUME IInv, Core0 PROVE TaskInv'
  <1> USE DEF taskVars, core1Vars, dialogueVars, hostVars, airVars, bufferVars,
              airHistory, queueVars, Core1Keeps, TaskInv
  <1>0. SharedTypes /\ Core0Types /\ TaskInv  BY DEF IInv, TypeOK
  <1>1. CASE TakeMessage
    <2>1. queue # <<>> /\ serving' = Head(queue) /\ queue' = queue
      BY <1>1 DEF TakeMessage, Fifo!Take
    <2>2. Head(queue) \in Message  BY <2>1, <1>0 DEF SharedTypes
    <2>3. serving' # NoMessage  BY <2>1, <2>2, NoMessageAssumption
    <2> QED  BY <1>0, <1>1, <2>1, <2>3 DEF TakeMessage
  <1>2. CASE TuneRadio \/ TuneFails \/ Encode \/ EncodeFails \/ ReportFailure
                 \/ EnterTransmitting \/ SendEmr \/ AnnounceStart
    BY <1>0, <1>2 DEF TuneRadio, TuneFails, Encode, EncodeFails, ReportFailure,
                      EnterTransmitting, SendEmr, AnnounceStart
  <1>3. CASE StartRadio
    BY <1>0, <1>3 DEF StartRadio, SharedTypes
  <1>4. CASE FeedFifo
    BY <1>0, <1>4, DeviceAssumption DEF FeedFifo, Core0Types
  <1>5. CASE ReportOutcome \/ WindDown
    BY <1>0, <1>5 DEF ReportOutcome, WindDown
  <1>6. CASE RemoveMessage
    BY <1>0, <1>6 DEF RemoveMessage, Fifo!Complete
  <1> QED  BY <1>1, <1>2, <1>3, <1>4, <1>5, <1>6 DEF Core0

(* Core 0 gives a message its end, and never the one Core 1 is adding      *)
(* before it is in the queue.                                              *)
LEMMA Core0AddingInv == ASSUME IInv, Core0 PROVE AddingInv'
  <1> USE DEF taskVars, core1Vars, dialogueVars, hostVars, airVars, bufferVars,
              airHistory, queueVars, Core1Keeps
  <1>0. TypeOK /\ HostTypes /\ TaskInv /\ AddingInv /\ QueueInv  BY DEF IInv, TypeOK
  <1>1. CASE RemoveMessage
    <2>1. fate[serving.uuid] = "accepted" /\ serving.uuid \in Uuids
          /\ outcome \in {"done", "failed"}
      BY <1>0, <1>1, ServedMessage DEF RemoveMessage, TaskInv
    <2>2. core1' = core1 /\ adding' = adding
          /\ fate' = [fate EXCEPT ![serving.uuid] = outcome]
      BY <1>1 DEF RemoveMessage
    <2>3. adding \in Message => adding.uuid \in Uuids  BY DEF Message
    <2> QED  BY <1>0, <2>1, <2>2, <2>3 DEF AddingInv, HostTypes
  <1>2. CASE UNCHANGED <<fate, core1, adding>>
    BY <1>0, <1>2 DEF AddingInv
  <1> QED  BY <1>1, <1>2
           DEF Core0, TakeMessage, TuneRadio, TuneFails, Encode, EncodeFails,
               ReportFailure, EnterTransmitting, SendEmr, AnnounceStart, StartRadio,
               FeedFifo, ReportOutcome, WindDown

(* The message Core 0 ends is the first of the queue and not found again   *)
(* behind it.                                                              *)
LEMMA Core0QueueInv == ASSUME IInv, Core0 PROVE QueueInv'
  <1> USE DEF taskVars, core1Vars, dialogueVars, hostVars, airVars, bufferVars,
              airHistory, queueVars, Core1Keeps
  <1>0. TypeOK /\ SharedTypes /\ HostTypes /\ TaskInv /\ QueueInv  BY DEF IInv, TypeOK
  <1>1. CASE RemoveMessage
    <2>1. /\ serving.uuid \in Uuids /\ queue # <<>> /\ serving = queue[1]
          /\ 1 \in 1 .. Len(queue) /\ queue \in Seq(Message)
      BY <1>0, <1>1, ServedMessage DEF RemoveMessage, SharedTypes
    <2>2. queue' = Tail(queue) /\ fate' = [fate EXCEPT ![serving.uuid] = outcome]
      BY <1>1 DEF RemoveMessage, Fifo!Complete
    <2>3. Len(queue') = Len(queue) - 1 /\ Len(queue) \in Nat
          /\ \A i \in 1 .. Len(queue') : queue'[i] = queue[i + 1] /\ i + 1 \in 1 .. Len(queue)
      BY <2>1, <2>2
    <2>4. \A i \in 1 .. Len(queue') : queue[i + 1].uuid # serving.uuid
      BY <2>1, <2>3, <1>0 DEF QueueInv
    <2>5. \A i \in 1 .. Len(queue') : fate'[queue'[i].uuid] = "accepted"
      <3> SUFFICES ASSUME NEW i \in 1 .. Len(queue')
                   PROVE  fate'[queue'[i].uuid] = "accepted"
        OBVIOUS
      <3>1. queue'[i] = queue[i + 1] /\ queue[i + 1] \in Message
        BY <2>1, <2>3
      <3>2. queue[i + 1].uuid \in Uuids  BY <3>1 DEF Message
      <3>3. fate[queue[i + 1].uuid] = "accepted"  BY <2>3, <1>0 DEF QueueInv
      <3> QED  BY <3>1, <3>2, <3>3, <2>2, <2>4, <1>0 DEF HostTypes
    <2>6. \A i, j \in 1 .. Len(queue') : queue'[i].uuid = queue'[j].uuid => i = j
      BY <2>3, <1>0 DEF QueueInv
    <2> QED  BY <2>5, <2>6 DEF QueueInv
  <1>2. CASE UNCHANGED <<fate, queue>>
    BY <1>0, <1>2 DEF QueueInv
  <1> QED  BY <1>1, <1>2
           DEF Core0, TakeMessage, Fifo!Take, TuneRadio, TuneFails, Encode, EncodeFails,
               ReportFailure, EnterTransmitting, SendEmr, AnnounceStart, StartRadio,
               FeedFifo, ReportOutcome, WindDown

(* What Core 0 sends about the message in service is true, comes once and  *)
(* in order; what was sent about the others stays true.                    *)
LEMMA Core0EventInv == ASSUME IInv, Core0 PROVE EventInv'
  <1> USE DEF taskVars, core1Vars, dialogueVars, hostVars, airVars, bufferVars,
              airHistory, queueVars, Core1Keeps
  <1>0. TypeOK /\ HostTypes /\ TaskInv /\ AddingInv /\ QueueInv /\ EventInv
    BY DEF IInv, TypeOK
  <1>1. events \in [Uuids -> Seq(PacketKinds)]  BY <1>0 DEF HostTypes, PacketKinds
  <1>2. CASE TakeMessage \/ TuneRadio \/ TuneFails \/ Encode \/ EncodeFails
                 \/ EnterTransmitting \/ SendEmr
    <2>1. UNCHANGED <<fate, events, core1, adding>>
          /\ task \notin {"send", "fifo", "report", "wind_down", "remove"}
      BY <1>2 DEF TakeMessage, TuneRadio, TuneFails, Encode, EncodeFails,
                  EnterTransmitting, SendEmr
    <2> QED  BY <2>1, <1>0, QuietStep DEF Serves
  <1>3. CASE StartRadio \/ FeedFifo \/ WindDown
    <2>1. /\ UNCHANGED <<fate, events, core1, adding, serving>>
          /\ task \in {"send", "fifo", "wind_down"}
          /\ task' \in {"send", "fifo", "report", "wind_down", "remove"}
          /\ task = "wind_down" => task' = "remove" /\ UNCHANGED outcome
      BY <1>3 DEF StartRadio, FeedFifo, WindDown
    <2>2. \A u \in Uuids :
             /\ Serves(u, {"send", "fifo", "report", "wind_down", "remove"})
                    => Serves(u, {"send", "fifo", "report", "wind_down", "remove"})'
             /\ Serves(u, {"wind_down", "remove"})
                    => Serves(u, {"wind_down", "remove"})' /\ UNCHANGED outcome
      BY <2>1 DEF Serves
    <2> QED  BY <2>1, <2>2, <1>0, QuietStep
  <1>4. ASSUME NEW p \in {"START", "DONE", "FAILED"},
               Emit(serving.uuid, p),
               UNCHANGED <<fate, core1, adding, serving, outcome>>,
               \/ p = "START" /\ task = "announce" /\ task' = "send"
               \/ p # "START" /\ task \in {"fail", "report"}
                              /\ task' \in {"wind_down", "remove"}
                              /\ outcome = IF p = "DONE" THEN "done" ELSE "failed"
        PROVE  EventInv'
    <2>1. PICK u \in Uuids : u = serving.uuid  BY <1>0, <1>4, ServedMessage
    <2>2. fate[u] = "accepted" /\ PacketsTrue(u) /\ PacketsOrdered(u)
      BY <2>1, <1>0, <1>4, ServedMessage DEF EventInv
    <2>3. Emit(u, p) /\ p \in PacketKinds  BY <2>1, <1>4 DEF PacketKinds
    <2>4. MayFollow(u, p)
      BY <2>2, <1>4 DEF MayFollow, PacketsTrue, Serves
    <2>5. /\ Packets(u)' = IF binary_protocol_active THEN Packets(u) \union {p}
                                                     ELSE Packets(u)
          /\ PacketsOrdered(u)'
          /\ \A v \in Uuids \ {u} :
               Packets(v)' = Packets(v) /\ PacketsOrdered(v)' = PacketsOrdered(v)
      BY <1>1, <2>2, <2>3, <2>4, EmittedPacket
    <2>6. PacketsTrue(u)'
      BY <2>1, <2>2, <2>5, <1>4 DEF PacketsTrue, Serves, Adds
    <2>7. ASSUME NEW v \in Uuids \ {u}
          PROVE  PacketsTrue(v)' /\ PacketsOrdered(v)'
      <3>1. PacketsTrue(v) /\ PacketsOrdered(v)  BY <1>0 DEF EventInv
      <3>2. Packets(v)' = Packets(v) /\ PacketsOrdered(v)'  BY <2>5, <3>1
      <3>3. serving.uuid # v /\ serving'.uuid # v  BY <2>1, <1>4
      <3>4. PacketsTrue(v)'  BY <3>1, <3>2, <3>3, <1>4 DEF PacketsTrue, Serves, Adds
      <3> QED  BY <3>2, <3>4
    <2> QED  BY <2>5, <2>6, <2>7 DEF EventInv
  <1>5. CASE AnnounceStart
    BY <1>4, <1>5 DEF AnnounceStart
  <1>6. CASE ReportFailure
    BY <1>0, <1>4, <1>6 DEF ReportFailure, TaskInv
  <1>7. CASE ReportOutcome
    BY <1>0, <1>4, <1>7 DEF ReportOutcome, TaskInv
  <1>8. CASE RemoveMessage
    <2>1. PICK u \in Uuids : u = serving.uuid  BY <1>0, <1>8, ServedMessage DEF RemoveMessage
    <2>2. /\ fate[u] = "accepted" /\ outcome \in {"done", "failed"} /\ task = "remove"
          /\ fate' = [fate EXCEPT ![u] = outcome]
          /\ UNCHANGED <<events, core1, adding>> /\ task' = "idle"
      BY <2>1, <1>0, <1>8, ServedMessage DEF RemoveMessage, TaskInv
    <2>3. ASSUME NEW v \in Uuids
          PROVE  PacketsTrue(v)' /\ PacketsOrdered(v)'
      <3>1. PacketsTrue(v) /\ PacketsOrdered(v)  BY <1>0 DEF EventInv
      <3>2. Packets(v)' = Packets(v) /\ PacketsOrdered(v)'  BY <2>2, <3>1, SilentPackets
      <3>3. v = u => fate'[v] = outcome  BY <2>2, <1>0 DEF HostTypes
      <3>4. v # u => fate'[v] = fate[v] /\ serving.uuid # v  BY <2>1, <2>2, <1>0 DEF HostTypes
      <3>5. CASE v = u
        BY <2>2, <3>1, <3>2, <3>3, <3>5 DEF PacketsTrue, Serves, Adds
      <3>6. CASE v # u
        BY <2>2, <3>1, <3>2, <3>4, <3>6 DEF PacketsTrue, Serves, Adds
      <3> QED  BY <3>2, <3>5, <3>6
    <2> QED  BY <2>3 DEF EventInv
  <1> QED  BY <1>2, <1>3, <1>5, <1>6, <1>7, <1>8 DEF Core0

(* The loads of the frame follow each other until none is left; only then  *)
(* does the message end as done.                                           *)
LEMMA Core0SentInv == ASSUME IInv, Core0 PROVE SentInv'
  <1> USE DEF taskVars, core1Vars, dialogueVars, hostVars, airVars, bufferVars,
              airHistory,
              queueVars, Core1Keeps
  <1>0. /\ SharedTypes /\ Core0Types /\ HostTypes /\ HistoryTypes /\ TypeOK
        /\ TaskInv /\ QueueInv /\ SentInv
    BY DEF IInv, TypeOK
  <1>s. task # "idle" => serving.uuid \in Uuids /\ fate[serving.uuid] = "accepted"
    BY <1>0, ServedMessage
  <1>d. FrameChunks \in Nat \ {0} /\ BufferLoads \in Nat /\ FrameChunks <= BufferLoads
    BY DeviceAssumption
  <1>a. \A u \in Uuids : aired[u] \in 0 .. FrameChunks  BY <1>0 DEF HistoryTypes
  <1> DEFINE On(u) == /\ aired[u] > 0 =>
                            \/ fate[u] = "done"
                            \/ /\ Serves(u, {"fifo", "report", "wind_down", "remove"})
                               /\ outcome = "done"
                      /\ fate[u] = "done" => aired[u] = FrameChunks \/ u \in disturbed
  <1>u. \A u \in Uuids : On(u)  BY <1>0 DEF SentInv
  <1>p. ASSUME UNCHANGED <<aired, disturbed, fate>>,
               \A u \in Uuids :
                  Serves(u, {"fifo", "report", "wind_down", "remove"}) /\ outcome = "done"
                  => /\ Serves(u, {"fifo", "report", "wind_down", "remove"})'
                     /\ outcome' = "done"
        PROVE  \A u \in Uuids : On(u)'
    BY <1>p, <1>u DEF On
  <1>1. CASE TakeMessage
    <2>1. \A u \in Uuids : On(u)'  BY <1>1, <1>p DEF TakeMessage, Serves
    <2>2. Undisturbed'
      BY <1>1, <1>0 DEF TakeMessage, Undisturbed, OnFrequency, Buffered
    <2> QED  BY <1>1, <2>1, <2>2 DEF TakeMessage, SentInv
  <1>2. CASE TuneRadio \/ TuneFails \/ EncodeFails \/ ReportFailure \/ EnterTransmitting
                 \/ SendEmr \/ AnnounceStart
    <2>1. /\ UNCHANGED <<aired, disturbed, fate, serving>>
          /\ task \notin {"fifo", "report", "wind_down", "remove", "idle"}
          /\ task' \notin {"fifo", "idle"}
          /\ task' \in {"report", "wind_down", "remove"} => outcome' # "done"
      BY <1>2, <1>0 DEF TuneRadio, TuneFails, EncodeFails, ReportFailure,
                  EnterTransmitting, SendEmr, AnnounceStart, TaskInv
    <2>2. \A u \in Uuids : On(u)'  BY <2>1, <1>p DEF Serves
    <2>3. ASSUME serving.uuid \notin disturbed PROVE Undisturbed'
      <3>1. Undisturbed  BY <2>1, <2>3, <1>0 DEF SentInv
      <3>2. task' \in OnFrequency => radio'.freq = serving'.freq
        BY <3>1, <1>2, <1>0 DEF Undisturbed, OnFrequency, Buffered, TuneRadio, Tuned,
             TuneFails, EncodeFails, ReportFailure, EnterTransmitting, SendEmr,
             AnnounceStart, SharedTypes
      <3>3. task' \in Buffered => task \in Buffered /\ UNCHANGED bufferVars
        BY <1>2 DEF Buffered, TuneRadio, TuneFails, EncodeFails, ReportFailure,
             EnterTransmitting, SendEmr, AnnounceStart
      <3> QED  BY <3>1, <3>2, <3>3, <2>1 DEF Undisturbed
    <2> QED  BY <2>1, <2>2, <2>3 DEF SentInv
  <1>3. CASE Encode
    <2>1. UNCHANGED <<aired, disturbed, fate, serving, radio>> /\ task = "encode"
          /\ task' = "amplify" /\ current_tx_total_length' = FrameChunks
          /\ tx_data_buffer' = [i \in 1 .. BufferLoads |->
                    IF i <= FrameChunks THEN serving.uuid ELSE tx_data_buffer[i]]
      BY <1>3 DEF Encode
    <2>2. \A u \in Uuids : On(u)'  BY <2>1, <1>p DEF Serves
    <2>3. \A i \in 1 .. FrameChunks : tx_data_buffer'[i] = serving.uuid
      BY <2>1, <1>d
    <2>4. serving.uuid \notin disturbed => radio.freq = serving.freq
      BY <2>1, <1>0 DEF SentInv, Undisturbed, OnFrequency
    <2>5. serving.uuid \notin disturbed => Undisturbed'
      BY <2>1, <2>3, <2>4 DEF Undisturbed, OnFrequency, Buffered
    <2> QED  BY <2>1, <2>2, <2>5 DEF SentInv
  <1>4. CASE StartRadio
    <2>1. /\ UNCHANGED <<disturbed, fate, serving, bufferVars>> /\ task = "send"
          /\ current_tx_remaining_length' = current_tx_total_length
          /\ task' = IF current_tx_total_length = 0 THEN "report" ELSE "fifo"
          /\ aired' = IF current_tx_total_length > 0 /\ Airs(1)
                      THEN [aired EXCEPT ![serving.uuid] = 1] ELSE aired
          /\ radio'.freq = radio.freq
          /\ \/ radio'.mode = "transmit" /\ outcome' = "done"
             \/ radio'.mode = "standby" /\ outcome' = "failed"
      BY <1>4, <1>0 DEF StartRadio, SharedTypes
    <2>2. current_tx_total_length \in Nat  BY <1>0, <1>d DEF SharedTypes
    <2>v. PICK v \in Uuids : v = serving.uuid  BY <2>1, <1>s
    <2>3. \A u \in Uuids \ {v} : aired'[u] = aired[u] /\ On(u)'
      BY <2>1, <2>v, <1>u, <1>a DEF Serves
    <2>4. aired[serving.uuid] = 0
      BY <2>1, <1>s, <1>u, <1>a DEF Serves
    <2>5. On(v)'
      <3>1. fate'[v] = "accepted"  BY <2>1, <2>v, <1>s
      <3>2. CASE current_tx_total_length > 0 /\ Airs(1)
        <4>1. task' = "fifo" /\ radio'.mode = "transmit"  BY <2>1, <2>2, <3>2 DEF Airs
        <4> QED  BY <2>1, <2>v, <3>1, <4>1 DEF Serves
      <3>3. CASE ~(current_tx_total_length > 0 /\ Airs(1))
        BY <2>1, <2>4, <2>v, <3>1, <3>3
      <3> QED  BY <3>2, <3>3
    <2>6. ASSUME serving.uuid \notin disturbed PROVE Undisturbed'
      <3>1. /\ radio.freq = serving.freq /\ current_tx_total_length = FrameChunks
            /\ \A i \in 1 .. FrameChunks : tx_data_buffer[i] = serving.uuid
        BY <2>1, <2>6, <1>0 DEF SentInv, Undisturbed, OnFrequency, Buffered
      <3>2. task' = "fifo" /\ 1 \in 1 .. FrameChunks  BY <2>1, <3>1, <1>d
      <3>3. outcome' = "done" => radio'.mode = "transmit" /\ aired'[serving.uuid] = 1
        BY <2>1, <3>1, <3>2, <1>0, <1>d, <1>s DEF Airs, HistoryTypes
      <3> QED  BY <2>1, <3>1, <3>2, <3>3, <1>d DEF Undisturbed
    <2>7. \A u \in Uuids : On(u)'
      <3>1. \A u \in Uuids : u = v \/ u \in Uuids \ {v}  OBVIOUS
      <3> QED  BY <2>3, <2>5, <3>1
    <2> QED  BY <2>1, <2>6, <2>7 DEF SentInv
  <1>5. CASE FeedFifo
    <2> DEFINE n == aired[serving.uuid]
    <2>1. /\ UNCHANGED <<disturbed, fate, serving, bufferVars, radio, outcome>>
          /\ task = "fifo" /\ task' \in {"fifo", "report"}
          /\ current_tx_remaining_length' = current_tx_remaining_length - 1
          /\ task' = "report" <=> current_tx_remaining_length = 1
          /\ aired' = IF /\ n < FrameChunks /\ Airs(n + 1)
                         /\ n + current_tx_remaining_length' = current_tx_total_length
                         /\ current_tx_remaining_length' > 0
                      THEN [aired EXCEPT ![serving.uuid] = n + 1] ELSE aired
      BY <1>5 DEF FeedFifo
    <2>2. /\ current_tx_remaining_length \in Nat /\ current_tx_remaining_length > 0
          /\ n \in 0 .. FrameChunks /\ outcome \in {"done", "failed"}
          /\ serving.uuid \in Uuids
      BY <2>1, <1>0, <1>a, <1>s, <1>d DEF Core0Types, TaskInv
    <2> HIDE DEF n
    <2>v. PICK v \in Uuids : v = serving.uuid  BY <2>1, <1>s
    <2>3. \A u \in Uuids \ {v} : aired'[u] = aired[u] /\ On(u)'
      BY <2>1, <2>v, <1>u, <1>a DEF Serves
    <2>4. outcome = "failed" => radio.mode = "standby" /\ aired' = aired
      BY <2>1, <1>0 DEF SentInv, Airs
    <2>5. On(v)'
      <3>1. fate'[v] = "accepted"  BY <2>1, <2>v, <1>s
      <3>2. CASE outcome = "done"
        BY <2>1, <2>v, <3>1, <3>2 DEF Serves
      <3>3. CASE outcome = "failed"
        <4>1. ~(aired[v] > 0)
          <5>1. fate[v] = "accepted" /\ outcome # "done"  BY <2>v, <3>3, <2>1, <1>s
          <5> QED  BY <5>1, <1>u
        <4> QED  BY <2>4, <2>v, <3>1, <3>3, <4>1
      <3> QED  BY <2>2, <3>2, <3>3
    <2>6. ASSUME serving.uuid \notin disturbed PROVE Undisturbed'
      <3>1. /\ radio.freq = serving.freq /\ current_tx_total_length = FrameChunks
            /\ \A i \in 1 .. FrameChunks : tx_data_buffer[i] = serving.uuid
            /\ outcome = "done" => /\ radio.mode = "transmit"
                                   /\ n + current_tx_remaining_length = FrameChunks + 1
        BY <2>1, <2>6, <1>0 DEF SentInv, Undisturbed, OnFrequency, Buffered, n
      <3>2. CASE outcome = "failed"
        BY <2>1, <3>1, <3>2 DEF Undisturbed
      <3>3. CASE outcome = "done" /\ current_tx_remaining_length = 1
        <4>1. n = FrameChunks  BY <3>1, <3>3, <2>2, <1>d
        <4>2. aired'[serving.uuid] = FrameChunks  BY <2>1, <4>1, <1>d DEF n
        <4> QED  BY <2>1, <3>1, <3>3, <4>2 DEF Undisturbed, Buffered, OnFrequency
      <3>4. CASE outcome = "done" /\ current_tx_remaining_length # 1
        <4>1. /\ current_tx_remaining_length' > 0 /\ n < FrameChunks
              /\ n + current_tx_remaining_length' = FrameChunks /\ n + 1 \in 1 .. FrameChunks
              /\ (n + 1) + current_tx_remaining_length' = FrameChunks + 1
          BY <2>1, <3>1, <3>4, <2>2, <1>d
        <4>2. Airs(n + 1)  BY <2>1, <3>1, <3>4, <4>1 DEF Airs
        <4>3. aired'[serving.uuid] = n + 1
          BY <2>1, <2>2, <3>1, <4>1, <4>2, <1>0 DEF HistoryTypes
        <4> QED  BY <2>1, <3>1, <3>4, <4>1, <4>3 DEF Undisturbed
      <3> QED  BY <2>2, <3>2, <3>3, <3>4
    <2>7. \A u \in Uuids : On(u)'
      <3>1. \A u \in Uuids : u = v \/ u \in Uuids \ {v}  OBVIOUS
      <3> QED  BY <2>3, <2>5, <3>1
    <2>8. task' = "fifo" /\ outcome' = "failed" => radio'.mode = "standby"
      BY <2>1, <2>4
    <2> QED  BY <2>1, <2>6, <2>7, <2>8 DEF SentInv
  <1>6. CASE ReportOutcome \/ WindDown
    <2>1. /\ UNCHANGED <<aired, disturbed, fate, serving, outcome>>
          /\ task \in {"report", "wind_down"} /\ task' \in {"wind_down", "remove"}
      BY <1>6 DEF ReportOutcome, WindDown
    <2>2. \A u \in Uuids : On(u)'  BY <2>1, <1>p DEF Serves
    <2>3. serving.uuid \notin disturbed => Undisturbed'
      BY <2>1, <1>0 DEF SentInv, Undisturbed, OnFrequency, Buffered
    <2> QED  BY <2>1, <2>2, <2>3 DEF SentInv
  <1>7. CASE RemoveMessage
    <2>1. /\ UNCHANGED <<aired, disturbed>> /\ task = "remove" /\ task' = "idle"
          /\ fate' = [fate EXCEPT ![serving.uuid] = outcome]
          /\ outcome \in {"done", "failed"}
      BY <1>7, <1>0 DEF RemoveMessage, TaskInv
    <2>2. ASSUME NEW u \in Uuids PROVE On(u)'
      <3>1. CASE u = serving.uuid
        <4>1. fate'[u] = outcome  BY <2>1, <3>1, <1>0 DEF HostTypes
        <4>2. fate[u] = "accepted" /\ On(u)  BY <2>1, <3>1, <1>s, <1>u
        <4>3. outcome = "done" => aired[u] = FrameChunks \/ u \in disturbed
          BY <2>1, <3>1, <1>0 DEF SentInv, Undisturbed
        <4> QED  BY <2>1, <4>1, <4>2, <4>3
      <3>2. CASE u # serving.uuid
        <4>1. fate'[u] = fate[u]  BY <2>1, <3>2, <1>0 DEF HostTypes
        <4>2. On(u)  BY <1>u
        <4> QED  BY <2>1, <3>2, <4>1, <4>2 DEF Serves
      <3> QED  BY <3>1, <3>2
    <2> QED  BY <2>1, <2>2 DEF SentInv
  <1> QED  BY <1>1, <1>2, <1>3, <1>4, <1>5, <1>6, <1>7 DEF Core0

(* Every step of Core 0 keeps the invariant.                               *)
LEMMA Core0IInv == ASSUME IInv, Core0 PROVE IInv'
  BY Core0TypeOK, Core0TaskInv, Core0AddingInv, Core0QueueInv, Core0EventInv,
         Core0SentInv
     DEF IInv

(* So does the interrupt of the radio.                                     *)
LEMMA InterruptIInv == ASSUME IInv, FifoInterrupt PROVE IInv'
  <1> USE DEF IInv, FifoInterrupt, queueVars, airVars, bufferVars, airHistory,
              core1Vars, dialogueVars, hostVars, Core1Keeps
  <1>1. TypeOK'
    <2>1. SharedTypes' /\ Core1Types' /\ HostTypes' /\ HistoryTypes'
      BY DEF TypeOK, SharedTypes, Core1Types, HostTypes, HistoryTypes
    <2>2. Core0Types'  BY DEF TypeOK, Core0Types
    <2> QED  BY <2>1, <2>2 DEF TypeOK
  <1>2. TaskInv' /\ AddingInv' /\ QueueInv'  BY DEF TaskInv, AddingInv, QueueInv
  <1>3. EventInv'
    <2>1. \A u \in Uuids :
             /\ Serves(u, {"send", "fifo", "report", "wind_down", "remove"})
                    => Serves(u, {"send", "fifo", "report", "wind_down", "remove"})'
             /\ Serves(u, {"wind_down", "remove"})
                    => Serves(u, {"wind_down", "remove"})' /\ UNCHANGED outcome
      BY DEF Serves
    <2> QED  BY <2>1, QuietStep
  <1>4. SentInv'  BY SentStays
  <1> QED  BY <1>1, <1>2, <1>3, <1>4

-----------------------------------------------------------------------------
(* Core 1: what every way of queueing or refusing a message has in common. *)

(* A new message goes to the end of the queue, behind the one in service.  *)
LEMMA PutMessage ==
    ASSUME SharedTypes, HostTypes, TaskInv, QueueInv,
           NEW m \in Message,
           fate[m.uuid] \in {"unused", "pending"},
           Fifo!Put(m),
           fate' = [fate EXCEPT ![m.uuid] = "accepted"],
           UNCHANGED taskVars
    PROVE  /\ queue' \in Seq(Message)
           /\ UNCHANGED serving
           /\ fate' \in [Uuids -> {"unused", "pending", "refused", "accepted", "done", "failed"}]
           /\ TaskInv' /\ QueueInv'
  <1>1. m.uuid \in Uuids  BY DEF Message
  <1>2. queue \in Seq(Message) /\ queue' = Append(queue, m) /\ serving' = serving
    BY DEF SharedTypes, Fifo!Put
  <1>3. /\ Len(queue) \in Nat /\ Len(queue') = Len(queue) + 1
        /\ queue'[Len(queue) + 1] = m
        /\ \A i \in 1 .. Len(queue) : queue'[i] = queue[i] /\ queue[i] \in Message
        /\ queue' \in Seq(Message) /\ queue' # <<>>
    BY <1>2
  <1>4. queue # <<>> => Head(queue') = Head(queue)  BY <1>2
  <1>5. TaskInv'  BY <1>2, <1>3, <1>4 DEF TaskInv, taskVars
  <1>6. \A i \in 1 .. Len(queue) : queue[i].uuid # m.uuid /\ fate'[queue[i].uuid] = "accepted"
    <2> SUFFICES ASSUME NEW i \in 1 .. Len(queue)
                 PROVE  queue[i].uuid # m.uuid /\ fate'[queue[i].uuid] = "accepted"
      OBVIOUS
    <2>1. fate[queue[i].uuid] = "accepted"  BY DEF QueueInv
    <2>2. queue[i].uuid \in Uuids  BY <1>3 DEF Message
    <2> QED  BY <2>1, <2>2 DEF HostTypes
  <1>7. fate'[m.uuid] = "accepted"  BY <1>1 DEF HostTypes
  <1>8. QueueInv'
    <2>1. \A i \in 1 .. Len(queue') : i \in 1 .. Len(queue) \/ i = Len(queue) + 1
      BY <1>3
    <2>2. \A i \in 1 .. Len(queue') : fate'[queue'[i].uuid] = "accepted"
      BY <2>1, <1>3, <1>6, <1>7
    <2>3. \A i, j \in 1 .. Len(queue') : queue'[i].uuid = queue'[j].uuid => i = j
      <3> SUFFICES ASSUME NEW i \in 1 .. Len(queue'), NEW j \in 1 .. Len(queue'),
                          queue'[i].uuid = queue'[j].uuid
                   PROVE  i = j
        OBVIOUS
      <3>1. CASE i \in 1 .. Len(queue) /\ j \in 1 .. Len(queue)
        BY <3>1, <1>3 DEF QueueInv
      <3>2. CASE i = Len(queue) + 1 \/ j = Len(queue) + 1
        BY <3>2, <2>1, <1>3, <1>6
      <3> QED  BY <3>1, <3>2, <2>1
    <2> QED  BY <2>2, <2>3 DEF QueueInv
  <1> QED  BY <1>1, <1>2, <1>3, <1>5, <1>8 DEF HostTypes

(* A message nothing was sent about may get any fate, if Core 1 does not   *)
(* start to add another one.                                               *)
LEMMA QuietFate ==
    ASSUME EventInv, HostTypes,
           NEW u \in Uuids, Packets(u) = {},
           \A v \in Uuids \ {u} : fate'[v] = fate[v],
           UNCHANGED <<events, task, outcome, serving>>,
           \A v \in Uuids \ {u} :
               /\ Adds(v, {"add", "ack"})' => Adds(v, {"add", "ack"})
               /\ Adds(v, {"add", "ack", "queued"})' => Adds(v, {"add", "ack", "queued"})
    PROVE  EventInv'
  <1> SUFFICES ASSUME NEW v \in Uuids PROVE PacketsTrue(v)' /\ PacketsOrdered(v)'
    BY DEF EventInv
  <1>1. PacketsTrue(v) /\ PacketsOrdered(v)  BY DEF EventInv
  <1>2. Packets(v)' = Packets(v) /\ PacketsOrdered(v)' = PacketsOrdered(v)
    BY SilentPackets
  <1>3. CASE v = u
    BY <1>1, <1>2, <1>3 DEF PacketsTrue
  <1>4. CASE v # u
    <2>1. \A places : Serves(v, places)' = Serves(v, places)  BY DEF Serves
    <2> QED  BY <1>1, <1>2, <1>4, <2>1 DEF PacketsTrue, Serves, Adds
  <1> QED  BY <1>1, <1>2, <1>3, <1>4

(* A new message is refused: it is in no queue.                            *)
LEMMA RefusedMessage ==
    ASSUME SharedTypes, HostTypes, QueueInv,
           NEW u \in Uuids, fate[u] \in {"unused", "pending"},
           NEW f \in {"pending", "refused"},
           fate' = [fate EXCEPT ![u] = f],
           UNCHANGED queue
    PROVE  /\ QueueInv'
           /\ fate' \in [Uuids -> {"unused", "pending", "refused", "accepted", "done", "failed"}]
  <1>1. \A i \in 1 .. Len(queue) : fate'[queue[i].uuid] = "accepted"
    <2> SUFFICES ASSUME NEW i \in 1 .. Len(queue)
                 PROVE  fate'[queue[i].uuid] = "accepted"
      OBVIOUS
    <2>1. fate[queue[i].uuid] = "accepted"  BY DEF QueueInv
    <2>2. queue[i] \in Message  BY DEF SharedTypes
    <2>3. queue[i].uuid \in Uuids  BY <2>2 DEF Message
    <2> QED  BY <2>1, <2>3 DEF HostTypes
  <1>2. QueueInv'  BY <1>1 DEF QueueInv
  <1> QED  BY <1>2 DEF HostTypes

-----------------------------------------------------------------------------
(* The binary handlers of Core 1.                                          *)

LEMMA BinaryTypeOK == ASSUME IInv, Binary PROVE TypeOK'
  <1> USE DEF BinaryKeeps, dialogueVars, queueVars, airVars, bufferVars, airHistory,
              taskVars, hostVars
  <1>0. SharedTypes /\ Core0Types /\ Core1Types /\ HostTypes /\ HistoryTypes
    BY DEF IInv, TypeOK
  <1>a. AddingInv /\ TaskInv /\ QueueInv  BY DEF IInv
  <1>b. \A m \in Message : m.uuid \in Uuids  BY DEF Message
  <1>1. Core0Types'
    BY <1>0 DEF Core0Types, Binary, ReceiveSendFlex, RejectSendFlex, QueueAlert,
                AddSendFlex, RefuseSendFlex, SendAck, SendQueued, AnswerCommand
  <1>2. Core1Types'
    BY <1>0 DEF Core1Types, Binary, HostMessage, ReceiveSendFlex, RejectSendFlex, QueueAlert,
                AddSendFlex, RefuseSendFlex, SendAck, SendQueued, AnswerCommand
  <1>3. SharedTypes' /\ HostTypes'
    <2>e. ASSUME NEW p \in PacketKinds, core1 \in {"add", "ack", "queued"},
                 Emit(adding.uuid, p)
          PROVE  events' \in [Uuids -> Seq(PacketKinds)]
      <3>1. events \in [Uuids -> Seq(PacketKinds)]  BY <1>0 DEF HostTypes, PacketKinds
      <3>2. adding.uuid \in Uuids  BY <2>e, <1>a, <1>b DEF AddingInv
      <3> QED  BY <2>e, <3>1, <3>2 DEF Emit
    <2>1. ASSUME NEW m \in HostMessage, ReceiveSendFlex(m)
          PROVE  SharedTypes' /\ HostTypes'
      BY <2>1, <1>0, <1>b DEF ReceiveSendFlex, FrameArrives, HostMessage, SharedTypes, HostTypes
    <2>2. ASSUME NEW u \in Uuids, RejectSendFlex(u)
          PROVE  SharedTypes' /\ HostTypes'
      <3>1. SharedTypes'  BY <2>2, <1>0 DEF RejectSendFlex, FrameArrives, SharedTypes
      <3>2. events' \in [Uuids -> Seq(PacketKinds)]
        BY <2>2, <1>0 DEF RejectSendFlex, HostTypes, PacketKinds
      <3> QED  BY <2>2, <3>1, <3>2, <1>0 DEF RejectSendFlex, HostTypes, PacketKinds
    <2>3. ASSUME NEW u \in Uuids, QueueAlert(u)
          PROVE  SharedTypes' /\ HostTypes'
      <3>1. PICK m \in Message : m.uuid = u /\ Fifo!Put(m)
        BY <2>3 DEF QueueAlert, Message
      <3>2. fate[m.uuid] = "unused" /\ fate' = [fate EXCEPT ![m.uuid] = "accepted"]
            /\ UNCHANGED taskVars
        BY <2>3, <3>1 DEF QueueAlert
      <3>3. queue' \in Seq(Message) /\ UNCHANGED serving
            /\ fate' \in [Uuids -> {"unused", "pending", "refused", "accepted", "done", "failed"}]
        BY <1>0, <1>a, <3>1, <3>2, PutMessage
      <3> QED  BY <2>3, <3>3, <1>0 DEF QueueAlert, SharedTypes, HostTypes
    <2>4. CASE AddSendFlex
      <3>1. PICK m \in Message : m = adding  BY <2>4, <1>a DEF AddSendFlex, AddingInv
      <3>2. fate[m.uuid] = "pending" /\ fate' = [fate EXCEPT ![m.uuid] = "accepted"]
            /\ UNCHANGED taskVars /\ Fifo!Put(m)
        BY <2>4, <3>1, <1>a DEF AddSendFlex, AddingInv
      <3>3. queue' \in Seq(Message) /\ UNCHANGED serving
            /\ fate' \in [Uuids -> {"unused", "pending", "refused", "accepted", "done", "failed"}]
        BY <1>0, <1>a, <3>1, <3>2, PutMessage
      <3> QED  BY <2>4, <3>3, <1>0 DEF AddSendFlex, SharedTypes, HostTypes
    <2>5. CASE RefuseSendFlex
      <3>1. adding.uuid \in Uuids  BY <2>5, <1>a, <1>b DEF RefuseSendFlex, AddingInv
      <3>2. events' \in [Uuids -> Seq(PacketKinds)]
        BY <2>5, <2>e DEF RefuseSendFlex, PacketKinds
      <3> QED  BY <2>5, <3>1, <3>2, <1>0 DEF RefuseSendFlex, SharedTypes, HostTypes, PacketKinds
    <2>6. CASE SendAck \/ SendQueued
      <3>1. events' \in [Uuids -> Seq(PacketKinds)]
        BY <2>6, <2>e DEF SendAck, SendQueued, PacketKinds
      <3> QED  BY <2>6, <3>1, <1>0 DEF SendAck, SendQueued, SharedTypes, HostTypes, PacketKinds
    <2>7. CASE AnswerCommand
      BY <2>7, <1>0 DEF AnswerCommand, FrameArrives, SharedTypes, HostTypes
    <2> QED  BY <2>1, <2>2, <2>3, <2>4, <2>5, <2>6, <2>7 DEF Binary
  <1>4. HistoryTypes'
    BY <1>0 DEF HistoryTypes, Binary, ReceiveSendFlex, RejectSendFlex, QueueAlert,
                AddSendFlex, RefuseSendFlex, SendAck, SendQueued, AnswerCommand
  <1> QED  BY <1>0, <1>1, <1>2, <1>3, <1>4 DEF TypeOK

LEMMA BinaryTaskQueueInv == ASSUME IInv, Binary PROVE TaskInv' /\ QueueInv'
  <1> USE DEF BinaryKeeps, dialogueVars, queueVars, airVars, bufferVars, airHistory,
              taskVars, hostVars
  <1>0. SharedTypes /\ HostTypes /\ AddingInv /\ TaskInv /\ QueueInv
    BY DEF IInv, TypeOK
  <1>1. ASSUME UNCHANGED <<queueVars, taskVars>> PROVE TaskInv'
    BY <1>0, <1>1 DEF TaskInv
  <1>2. ASSUME NEW u \in Uuids, fate[u] \in {"unused", "pending"},
               NEW f \in {"pending", "refused"},
               fate' = [fate EXCEPT ![u] = f],
               UNCHANGED <<queueVars, taskVars>>
        PROVE  TaskInv' /\ QueueInv'
    BY <1>0, <1>1, <1>2, RefusedMessage
  <1>3. ASSUME NEW m \in HostMessage, ReceiveSendFlex(m)
        PROVE  TaskInv' /\ QueueInv'
    <2>1. m.uuid \in Uuids  BY DEF HostMessage, Message
    <2> QED  BY <1>2, <1>3, <2>1 DEF ReceiveSendFlex
  <1>4. ASSUME NEW u \in Uuids, RejectSendFlex(u)
        PROVE  TaskInv' /\ QueueInv'
    BY <1>2, <1>4 DEF RejectSendFlex
  <1>5. ASSUME NEW u \in Uuids, QueueAlert(u)
        PROVE  TaskInv' /\ QueueInv'
    <2>1. PICK m \in Message : m.uuid = u /\ Fifo!Put(m)
      BY <1>5 DEF QueueAlert, Message
    <2>2. fate[m.uuid] = "unused" /\ fate' = [fate EXCEPT ![m.uuid] = "accepted"]
          /\ UNCHANGED taskVars
      BY <1>5, <2>1 DEF QueueAlert
    <2> QED  BY <1>0, <2>1, <2>2, PutMessage
  <1>6. CASE AddSendFlex
    <2>1. PICK m \in Message : m = adding  BY <1>6, <1>0 DEF AddSendFlex, AddingInv
    <2>2. fate[m.uuid] = "pending" /\ fate' = [fate EXCEPT ![m.uuid] = "accepted"]
          /\ UNCHANGED taskVars /\ Fifo!Put(m)
      BY <1>6, <2>1, <1>0 DEF AddSendFlex, AddingInv
    <2> QED  BY <1>0, <2>1, <2>2, PutMessage
  <1>7. CASE RefuseSendFlex
    <2>1. PICK u \in Uuids : u = adding.uuid
      BY <1>7, <1>0 DEF RefuseSendFlex, AddingInv, Message
    <2> QED  BY <1>2, <1>7, <2>1, <1>0 DEF RefuseSendFlex, AddingInv
  <1>8. CASE SendAck \/ SendQueued \/ AnswerCommand
    BY <1>0, <1>8 DEF TaskInv, QueueInv, SendAck, SendQueued, AnswerCommand
  <1> QED  BY <1>3, <1>4, <1>5, <1>6, <1>7, <1>8 DEF Binary

LEMMA BinaryAddingInv == ASSUME IInv, Binary PROVE AddingInv'
  <1> USE DEF BinaryKeeps, dialogueVars, queueVars, airVars, bufferVars, airHistory,
              taskVars, hostVars
  <1>0. HostTypes /\ AddingInv  BY DEF IInv, TypeOK
  <1>1. \A m \in Message : m.uuid \in Uuids  BY DEF Message
  <1>2. CASE core1 = "loop" /\ core1' = "loop"
    BY <1>2 DEF AddingInv
  <1>3. ASSUME NEW m \in HostMessage, ReceiveSendFlex(m)
        PROVE  AddingInv'
    BY <1>0, <1>1, <1>3 DEF ReceiveSendFlex, HostMessage, AddingInv, HostTypes
  <1>4. CASE AddSendFlex
    BY <1>0, <1>1, <1>4 DEF AddSendFlex, AddingInv, HostTypes
  <1>5. CASE RefuseSendFlex \/ SendQueued
    BY <1>5 DEF RefuseSendFlex, SendQueued, AddingInv
  <1>6. CASE SendAck
    BY <1>0, <1>6 DEF SendAck, AddingInv
  <1> QED  BY <1>2, <1>3, <1>4, <1>5, <1>6
           DEF Binary, FrameArrives, RejectSendFlex, QueueAlert, AnswerCommand

(* A packet of Core 1 about the message it adds: the message keeps its     *)
(* fate, or is refused with the only packet it ever gets.                  *)
LEMMA AnsweredMessage ==
    ASSUME EventInv, HostTypes,
           NEW u \in Uuids, NEW p \in {"ACK", "NACK", "QUEUED"},
           events' \in [Uuids -> Seq(PacketKinds)],
           Packets(u)' \in {Packets(u), Packets(u) \union {p}},
           MayFollow(u, p) /\ PacketsOrdered(u) => PacketsOrdered(u)',
           \A v \in Uuids \ {u} :
             Packets(v)' = Packets(v) /\ PacketsOrdered(v)' = PacketsOrdered(v),
           \A v \in Uuids \ {u} : fate'[v] = fate[v],
           UNCHANGED <<task, outcome, serving>>,
           \A v \in Uuids \ {u} :
               /\ Adds(v, {"add", "ack"})' => Adds(v, {"add", "ack"})
               /\ Adds(v, {"add", "ack", "queued"})' => Adds(v, {"add", "ack", "queued"}),
           \/ p = "NACK" /\ Packets(u) = {} /\ fate'[u] = "refused"
           \/ p = "ACK" /\ Adds(u, {"ack"}) /\ Adds(u, {"queued"})' /\ fate'[u] = fate[u]
                /\ fate[u] \in {"accepted", "done", "failed"}
           \/ p = "QUEUED" /\ Adds(u, {"queued"}) /\ core1' = "loop" /\ fate'[u] = fate[u]
                /\ fate[u] \in {"accepted", "done", "failed"}
    PROVE  EventInv'
  <1>1. PacketsTrue(u) /\ PacketsOrdered(u)  BY DEF EventInv
  <1>2. MayFollow(u, p)
    BY <1>1 DEF MayFollow, PacketsTrue, Adds
  <1>3. PacketsTrue(u)'
    <2>1. \A places : Serves(u, places)' = Serves(u, places)  BY DEF Serves
    <2>2. CASE p = "NACK"  BY <2>2, <1>1 DEF PacketsTrue, Adds
    <2>3. CASE p = "ACK"  BY <2>1, <2>3, <1>1 DEF PacketsTrue, Adds
    <2>4. CASE p = "QUEUED"  BY <2>1, <2>4, <1>1 DEF PacketsTrue, Adds
    <2> QED  BY <2>2, <2>3, <2>4
  <1>4. ASSUME NEW v \in Uuids \ {u}
        PROVE  PacketsTrue(v)' /\ PacketsOrdered(v)'
    <2>1. PacketsTrue(v) /\ PacketsOrdered(v)  BY DEF EventInv
    <2>2. \A places : Serves(v, places)' = Serves(v, places)  BY DEF Serves
    <2> QED  BY <2>1, <2>2 DEF PacketsTrue, Adds
  <1> QED  BY <1>1, <1>2, <1>3, <1>4 DEF EventInv

LEMMA BinaryEventInv == ASSUME IInv, Binary PROVE EventInv'
  <1> USE DEF BinaryKeeps, dialogueVars, queueVars, airVars, bufferVars, airHistory,
              taskVars, hostVars
  <1>0. HostTypes /\ AddingInv /\ EventInv /\ events \in [Uuids -> Seq(PacketKinds)]
    BY DEF IInv, TypeOK, HostTypes, PacketKinds
  <1>a. \A u \in Uuids : fate[u] \in {"unused", "pending"} => Packets(u) = {}
    BY <1>0 DEF EventInv, PacketsTrue
  <1>b. \A m \in Message : m.uuid \in Uuids  BY DEF Message
  <1>1. ASSUME NEW m \in HostMessage, ReceiveSendFlex(m)
        PROVE  EventInv'
    <2>1. PICK u \in Uuids : u = m.uuid  BY <1>b DEF HostMessage
    <2>2. Packets(u) = {}  BY <2>1, <1>a, <1>1 DEF ReceiveSendFlex
    <2>3. \A v \in Uuids \ {u} : fate'[v] = fate[v]
      BY <2>1, <1>0, <1>1 DEF ReceiveSendFlex, HostTypes
    <2>4. \A v \in Uuids \ {u} :
               /\ Adds(v, {"add", "ack"})' => Adds(v, {"add", "ack"})
               /\ Adds(v, {"add", "ack", "queued"})' => Adds(v, {"add", "ack", "queued"})
      BY <2>1, <1>1 DEF ReceiveSendFlex, Adds
    <2> QED  BY <1>0, <1>1, <2>2, <2>3, <2>4, QuietFate DEF ReceiveSendFlex
  <1>2. ASSUME NEW u \in Uuids, RejectSendFlex(u)
        PROVE  EventInv'
    <2>1. Packets(u) = {} /\ fate' = [fate EXCEPT ![u] = "refused"]
      BY <1>a, <1>2 DEF RejectSendFlex
    <2>2. events' = [events EXCEPT ![u] = Append(@, "NACK")]  BY <1>2 DEF RejectSendFlex
    <2>3. "NACK" \in PacketKinds  BY DEF PacketKinds
    <2>4. /\ events' \in [Uuids -> Seq(PacketKinds)]
          /\ Packets(u)' = Packets(u) \union {"NACK"}
          /\ MayFollow(u, "NACK") /\ PacketsOrdered(u) => PacketsOrdered(u)'
          /\ \A v \in Uuids \ {u} :
                Packets(v)' = Packets(v) /\ PacketsOrdered(v)' = PacketsOrdered(v)
      BY <2>2, <2>3, <1>0, AppendedPacket
    <2>5. fate'[u] = "refused" /\ \A v \in Uuids \ {u} : fate'[v] = fate[v]
      BY <2>1, <1>0 DEF HostTypes
    <2>6. \A v \in Uuids \ {u} :
               /\ Adds(v, {"add", "ack"})' => Adds(v, {"add", "ack"})
               /\ Adds(v, {"add", "ack", "queued"})' => Adds(v, {"add", "ack", "queued"})
      BY <1>2 DEF RejectSendFlex, Adds
    <2>7. UNCHANGED <<task, outcome, serving>>  BY <1>2 DEF RejectSendFlex
    <2> QED  BY <1>0, <2>1, <2>4, <2>5, <2>6, <2>7, AnsweredMessage
  <1>3. ASSUME NEW u \in Uuids, QueueAlert(u)
        PROVE  EventInv'
    <2>1. Packets(u) = {} /\ fate' = [fate EXCEPT ![u] = "accepted"]
          /\ UNCHANGED <<events, task, outcome, serving, core1, adding>>
      BY <1>a, <1>3 DEF QueueAlert, Fifo!Put
    <2>2. \A v \in Uuids \ {u} : fate'[v] = fate[v]  BY <2>1, <1>0 DEF HostTypes
    <2>3. \A v \in Uuids \ {u} :
               /\ Adds(v, {"add", "ack"})' => Adds(v, {"add", "ack"})
               /\ Adds(v, {"add", "ack", "queued"})' => Adds(v, {"add", "ack", "queued"})
      BY <2>1 DEF Adds
    <2> QED  BY <1>0, <2>1, <2>2, <2>3, QuietFate
  <1>4. CASE AddSendFlex
    <2>1. PICK u \in Uuids : u = adding.uuid  BY <1>0, <1>4, <1>b DEF AddSendFlex, AddingInv
    <2>2. Packets(u) = {} /\ fate' = [fate EXCEPT ![u] = "accepted"]
          /\ UNCHANGED <<events, task, outcome, serving, adding>>
      BY <2>1, <1>0, <1>a, <1>4 DEF AddSendFlex, AddingInv, Fifo!Put
    <2>3. \A v \in Uuids \ {u} : fate'[v] = fate[v]  BY <2>2, <1>0 DEF HostTypes
    <2>4. \A v \in Uuids \ {u} :
               /\ Adds(v, {"add", "ack"})' => Adds(v, {"add", "ack"})
               /\ Adds(v, {"add", "ack", "queued"})' => Adds(v, {"add", "ack", "queued"})
      BY <2>1, <2>2 DEF Adds
    <2> QED  BY <1>0, <2>2, <2>3, <2>4, QuietFate
  <1>5. CASE RefuseSendFlex \/ SendAck \/ SendQueued
    <2>1. PICK u \in Uuids : u = adding.uuid
      BY <1>0, <1>5, <1>b DEF RefuseSendFlex, SendAck, SendQueued, AddingInv
    <2>2. PICK p \in {"ACK", "NACK", "QUEUED"} :
            /\ Emit(u, p)
            /\ \/ p = "NACK" /\ RefuseSendFlex
               \/ p = "ACK" /\ SendAck
               \/ p = "QUEUED" /\ SendQueued
      BY <2>1, <1>5 DEF RefuseSendFlex, SendAck, SendQueued
    <2>3. /\ events' \in [Uuids -> Seq(PacketKinds)]
          /\ Packets(u)' \in {Packets(u), Packets(u) \union {p}}
          /\ MayFollow(u, p) /\ PacketsOrdered(u) => PacketsOrdered(u)'
          /\ \A v \in Uuids \ {u} :
                Packets(v)' = Packets(v) /\ PacketsOrdered(v)' = PacketsOrdered(v)
      <3>1. p \in PacketKinds  BY DEF PacketKinds
      <3> QED  BY <3>1, <2>2, <1>0, EmittedPacket
    <2>4. \A v \in Uuids \ {u} :
               /\ Adds(v, {"add", "ack"})' => Adds(v, {"add", "ack"})
               /\ Adds(v, {"add", "ack", "queued"})' => Adds(v, {"add", "ack", "queued"})
      BY <2>1, <2>2 DEF RefuseSendFlex, SendAck, SendQueued, Adds
    <2>5. UNCHANGED <<task, outcome, serving>>
      BY <2>2 DEF RefuseSendFlex, SendAck, SendQueued
    <2>6. \A v \in Uuids \ {u} : fate'[v] = fate[v]
      BY <2>1, <2>2, <1>0 DEF RefuseSendFlex, SendAck, SendQueued, HostTypes
    <2>7. \/ p = "NACK" /\ Packets(u) = {} /\ fate'[u] = "refused"
          \/ p = "ACK" /\ Adds(u, {"ack"}) /\ Adds(u, {"queued"})' /\ fate'[u] = fate[u]
                /\ fate[u] \in {"accepted", "done", "failed"}
          \/ p = "QUEUED" /\ Adds(u, {"queued"}) /\ core1' = "loop" /\ fate'[u] = fate[u]
                /\ fate[u] \in {"accepted", "done", "failed"}
      BY <2>1, <2>2, <1>0, <1>a
         DEF RefuseSendFlex, SendAck, SendQueued, Adds, AddingInv, HostTypes
    <2> QED  BY <1>0, <2>3, <2>4, <2>5, <2>6, <2>7, AnsweredMessage
  <1>6. CASE AnswerCommand
    <2>1. UNCHANGED <<fate, events, core1, adding, task, outcome, serving>>
      BY <1>6 DEF AnswerCommand
    <2> QED  BY <2>1, <1>0, QuietStep DEF Serves
  <1> QED  BY <1>1, <1>2, <1>3, <1>4, <1>5, <1>6 DEF Binary

(* The binary handlers touch neither the transmission nor what has ended.  *)
LEMMA BinarySentInv == ASSUME IInv, Binary PROVE SentInv'
  <1> USE DEF BinaryKeeps, dialogueVars, queueVars, airVars, bufferVars, airHistory,
              taskVars, hostVars
  <1>0. HostTypes /\ AddingInv /\ SentInv  BY DEF IInv, TypeOK
  <1>1. UNCHANGED <<airVars, taskVars, serving>>
    BY DEF Binary, ReceiveSendFlex, RejectSendFlex, QueueAlert, AddSendFlex,
           RefuseSendFlex, SendAck, SendQueued, AnswerCommand, Fifo!Put
  <1>2. \/ UNCHANGED fate
        \/ \E u \in Uuids, f \in {"pending", "refused", "accepted"} :
              fate[u] \in {"unused", "pending"} /\ fate' = [fate EXCEPT ![u] = f]
    <2>1. ASSUME NEW m \in HostMessage, ReceiveSendFlex(m)
          PROVE  m.uuid \in Uuids /\ fate[m.uuid] = "unused"
                 /\ fate' = [fate EXCEPT ![m.uuid] = "pending"]
      BY <2>1 DEF ReceiveSendFlex, HostMessage, Message
    <2>2. ASSUME NEW u \in Uuids, RejectSendFlex(u) \/ QueueAlert(u)
          PROVE  /\ fate[u] = "unused"
                 /\ \/ fate' = [fate EXCEPT ![u] = "refused"]
                    \/ fate' = [fate EXCEPT ![u] = "accepted"]
      BY <2>2 DEF RejectSendFlex, QueueAlert
    <2>3. CASE AddSendFlex \/ RefuseSendFlex
      <3>1. adding.uuid \in Uuids /\ fate[adding.uuid] = "pending"
        BY <2>3, <1>0 DEF AddSendFlex, RefuseSendFlex, AddingInv, Message
      <3>2. \/ fate' = [fate EXCEPT ![adding.uuid] = "refused"]
            \/ fate' = [fate EXCEPT ![adding.uuid] = "accepted"]
        BY <2>3 DEF AddSendFlex, RefuseSendFlex
      <3> QED  BY <3>1, <3>2
    <2>4. CASE SendAck \/ SendQueued \/ AnswerCommand
      BY <2>4 DEF SendAck, SendQueued, AnswerCommand
    <2> QED  BY <2>1, <2>2, <2>3, <2>4 DEF Binary
  <1>3. \A u \in Uuids : fate'[u] = "done" <=> fate[u] = "done"
    BY <1>0, <1>2 DEF HostTypes
  <1> QED  BY <1>0, <1>1, <1>3, SentStays

(* Every step of the binary handlers keeps the invariant.                  *)
LEMMA BinaryIInv == ASSUME IInv, Binary PROVE IInv'
  BY BinaryTypeOK, BinaryTaskQueueInv, BinaryAddingInv, BinaryEventInv, BinarySentInv
     DEF IInv

-----------------------------------------------------------------------------
(* The invariant of a host that speaks binary only.                        *)

LEMMA InitBinaryInv == Init => BinaryInv
  <1> SUFFICES ASSUME Init PROVE BinaryInv  OBVIOUS
  <1>1. BinaryOnly /\ AirInv  BY DEF Init, BinaryOnly, AirInv
  <1>2. \A u \in Uuids : events[u] = <<>> /\ fate[u] = "unused"  BY DEF Init
  <1>3. ASSUME NEW u \in Uuids PROVE Packets(u) = {}
    <2>1. events[u] = <<>>  BY <1>2
    <2> QED  BY <2>1 DEF Packets
  <1>4. ReportInv  BY <1>3 DEF Init, ReportInv, Acknowledged, Adds
  <1> QED  BY <1>1, <1>4 DEF BinaryInv

(* Core 0 tunes, encodes and transmits the message in service, and the     *)
(* radio leaves the transmission before device_state does.                 *)
LEMMA Core0AirInv == ASSUME IInv, AirInv, Core0 PROVE AirInv'
  <1> USE DEF taskVars, core1Vars, dialogueVars, hostVars, airVars, bufferVars,
              airHistory, queueVars, Core1Keeps, AirInv
  <1>0. radio \in [mode : {"standby", "transmit"}, freq : Freqs]
    BY DEF IInv, TypeOK, SharedTypes
  <1>1. CASE TakeMessage \/ TuneRadio \/ TuneFails \/ Encode \/ EncodeFails
    BY <1>0, <1>1, DeviceAssumption
       DEF TakeMessage, TuneRadio, TuneFails, Tuned, Encode, EncodeFails
  <1>2. CASE ReportFailure \/ EnterTransmitting \/ SendEmr \/ AnnounceStart
    BY <1>0, <1>2 DEF ReportFailure, EnterTransmitting, SendEmr, AnnounceStart
  <1>3. CASE StartRadio
    BY <1>0, <1>3 DEF StartRadio
  <1>4. CASE FeedFifo \/ ReportOutcome \/ WindDown
    BY <1>0, <1>4 DEF FeedFifo, ReportOutcome, WindDown
  <1>5. CASE RemoveMessage
    BY <1>0, <1>5 DEF RemoveMessage
  <1> QED  BY <1>1, <1>2, <1>3, <1>4, <1>5 DEF Core0

(* Nothing of Core 1's binary handlers reaches the transmission.           *)
LEMMA BinaryAirInv == ASSUME IInv, AirInv, Binary PROVE AirInv'
  <1>1. UNCHANGED <<serving, task, radio, tx_data_buffer, current_tx_total_length,
                    device_state>>
    BY DEF Binary, BinaryKeeps, queueVars, airVars, bufferVars, airHistory, taskVars,
           ReceiveSendFlex,
           RejectSendFlex, QueueAlert, AddSendFlex, RefuseSendFlex, SendAck, SendQueued,
           AnswerCommand, Fifo!Put
  <1> QED  BY <1>1 DEF AirInv

LEMMA BinaryStaysBinary ==
    ASSUME BinaryOnly, Core0 \/ FifoInterrupt \/ Binary PROVE BinaryOnly'
  <1> USE DEF BinaryOnly
  <1>1. CASE Core0
    BY <1>1 DEF Core0, Core1Keeps, core1Vars, dialogueVars, hostVars, TakeMessage,
           TuneRadio, TuneFails,
       Encode, EncodeFails, ReportFailure, EnterTransmitting, SendEmr, AnnounceStart,
       StartRadio, FeedFifo, ReportOutcome, WindDown, RemoveMessage
  <1>2. CASE FifoInterrupt
    BY <1>2 DEF FifoInterrupt, Core1Keeps, core1Vars, dialogueVars, hostVars
  <1>3. CASE Binary
    BY <1>3 DEF Binary, BinaryKeeps, hostVars, ReceiveSendFlex, FrameArrives,
       RejectSendFlex, QueueAlert, AddSendFlex, RefuseSendFlex, SendAck, SendQueued,
       AnswerCommand
  <1> QED  BY <1>1, <1>2, <1>3

(* The reports due about a message in service are sent before Core 0 goes  *)
(* on: events are on since its CMD_SEND_FLEX, and nothing turns them off.  *)
LEMMA Core0ReportInv == ASSUME IInv, ReportInv, Core0 PROVE ReportInv'
  <1> USE DEF taskVars, core1Vars, dialogueVars, hostVars, airVars, bufferVars,
              airHistory, queueVars, Core1Keeps
  <1>0. TypeOK /\ HostTypes /\ TaskInv /\ QueueInv /\ EventInv
        /\ events \in [Uuids -> Seq(PacketKinds)]
    BY DEF IInv, TypeOK, HostTypes, PacketKinds
  <1>1. UNCHANGED <<core1, adding, binary_protocol_active>>
    BY DEF Core0, TakeMessage, TuneRadio, TuneFails, Encode, EncodeFails,
        ReportFailure, EnterTransmitting, SendEmr, AnnounceStart, StartRadio, FeedFifo,
        ReportOutcome, WindDown, RemoveMessage
  <1>2. CASE TakeMessage \/ TuneRadio \/ TuneFails \/ Encode \/ EncodeFails
                 \/ EnterTransmitting \/ SendEmr
    <2>1. UNCHANGED <<fate, events>>
          /\ task' \notin {"send", "fifo", "report", "wind_down", "remove"}
      BY <1>2 DEF TakeMessage, TuneRadio, TuneFails, Encode, EncodeFails,
                  EnterTransmitting, SendEmr
    <2>2. \A u \in Uuids : Packets(u)' = Packets(u)  BY <2>1, SilentPackets
    <2> QED  BY <1>1, <2>1, <2>2 DEF ReportInv, Acknowledged, Adds, Serves
  <1>3. CASE StartRadio \/ FeedFifo \/ WindDown
    <2>1. /\ UNCHANGED <<fate, events, serving>>
          /\ \/ task \in {"send", "fifo"} /\ task' \in {"fifo", "report"}
             \/ task = "wind_down" /\ task' = "remove" /\ UNCHANGED outcome
      BY <1>3 DEF StartRadio, FeedFifo, WindDown
    <2>2. \A u \in Uuids : Packets(u)' = Packets(u)  BY <2>1, SilentPackets
    <2> QED  BY <1>1, <2>1, <2>2 DEF ReportInv, Acknowledged, Adds, Serves
  <1>4. CASE AnnounceStart \/ ReportFailure \/ ReportOutcome
    <2>1. PICK u \in Uuids : u = serving.uuid
      BY <1>0, <1>4, ServedMessage DEF AnnounceStart, ReportFailure, ReportOutcome
    <2>2. fate[u] = "accepted"
      BY <2>1, <1>0, <1>4, ServedMessage DEF AnnounceStart, ReportFailure, ReportOutcome
    <2>3. PICK p \in {"START", "DONE", "FAILED"} :
            /\ Emit(u, p)
            /\ \/ p = "START" /\ task' = "send"
               \/ p = "DONE" /\ outcome = "done" /\ task = "report" /\ task' = "wind_down"
               \/ p = "FAILED" /\ outcome = "failed" /\ task' \in {"wind_down", "remove"}
      BY <2>1, <1>0, <1>4 DEF AnnounceStart, ReportFailure, ReportOutcome, TaskInv
    <2>4. UNCHANGED <<fate, serving, outcome>>
      BY <1>4 DEF AnnounceStart, ReportFailure, ReportOutcome
    <2>5. /\ Packets(u)' = IF binary_protocol_active THEN Packets(u) \union {p}
                                                     ELSE Packets(u)
          /\ \A v \in Uuids \ {u} : Packets(v)' = Packets(v)
      <3>1. p \in PacketKinds  BY DEF PacketKinds
      <3> QED  BY <3>1, <1>0, <2>3, EmittedPacket
    <2>6. ASSUME NEW v \in Uuids, Acknowledged(v)'
          PROVE  /\ binary_protocol_active'
                 /\ fate'[v] = "done" => {"START", "DONE"} \subseteq Packets(v)'
                 /\ fate'[v] = "failed" => "FAILED" \in Packets(v)'
                 /\ Serves(v, {"send", "fifo", "report"})' => "START" \in Packets(v)'
                 /\ Serves(v, {"wind_down", "remove"})' =>
                      /\ outcome' = "done" => {"START", "DONE"} \subseteq Packets(v)'
                      /\ outcome' = "failed" => "FAILED" \in Packets(v)'
      <3>1. Acknowledged(v)
        BY <2>6, <1>1, <2>3, <2>5 DEF Acknowledged, Adds
      <3>2. CASE v = u
        BY <3>1, <3>2, <1>1, <2>1, <2>2, <2>3, <2>4, <2>5 DEF ReportInv, Serves
      <3>3. CASE v # u
        BY <3>1, <3>3, <1>1, <2>1, <2>4, <2>5 DEF ReportInv, Serves
      <3> QED  BY <3>2, <3>3
    <2> QED  BY <2>6 DEF ReportInv
  <1>5. CASE RemoveMessage
    <2>1. PICK u \in Uuids : u = serving.uuid  BY <1>0, <1>5, ServedMessage DEF RemoveMessage
    <2>2. /\ outcome \in {"done", "failed"} /\ task = "remove" /\ task' = "idle"
          /\ fate' = [fate EXCEPT ![u] = outcome] /\ UNCHANGED events
      BY <2>1, <1>0, <1>5 DEF RemoveMessage, TaskInv
    <2>3. \A v \in Uuids : fate'[v] = IF v = u THEN outcome ELSE fate[v]
      BY <2>2, <1>0 DEF HostTypes
    <2>4. \A v \in Uuids : Packets(v)' = Packets(v)  BY <2>2, SilentPackets
    <2> QED  BY <1>1, <2>1, <2>2, <2>3, <2>4 DEF ReportInv, Acknowledged, Adds, Serves
  <1> QED  BY <1>2, <1>3, <1>4, <1>5 DEF Core0

(* The binary handlers acknowledge nothing that is over, and switch the    *)
(* events on.                                                              *)
LEMMA BinaryReportInv == ASSUME IInv, ReportInv, Binary PROVE ReportInv'
  <1> USE DEF BinaryKeeps, dialogueVars, queueVars, airVars, bufferVars, airHistory,
              taskVars, hostVars
  <1>0. HostTypes /\ TypeOK /\ AddingInv /\ TaskInv /\ QueueInv /\ EventInv
        /\ events \in [Uuids -> Seq(PacketKinds)]
    BY DEF IInv, TypeOK, HostTypes, PacketKinds
  <1>a. \A m \in Message : m.uuid \in Uuids  BY DEF Message
  <1>b. \A u \in Uuids : fate[u] \in {"unused", "pending"} => Packets(u) = {}
    BY <1>0 DEF EventInv, PacketsTrue
  <1>c. UNCHANGED <<task, outcome, serving>>
    BY DEF Binary, ReceiveSendFlex, RejectSendFlex, QueueAlert, AddSendFlex,
           RefuseSendFlex, SendAck, SendQueued, AnswerCommand, Fifo!Put
  <1>d. \A u \in Uuids : Serves(u, {"send", "fifo", "report", "wind_down", "remove"})
            => fate[u] = "accepted"
    <2>1. task # "idle" => fate[serving.uuid] = "accepted"  BY <1>0, ServedMessage
    <2> QED  BY <2>1 DEF Serves
  <1>1. ASSUME NEW m \in HostMessage, ReceiveSendFlex(m)
        PROVE  ReportInv'
    <2>1. UNCHANGED events /\ binary_protocol_active' /\ fate[m.uuid] = "unused"
          /\ fate' = [fate EXCEPT ![m.uuid] = "pending"] /\ adding' = m /\ core1 = "loop"
      BY <1>1 DEF ReceiveSendFlex, FrameArrives
    <2>2. \A v \in Uuids : fate'[v] = IF v = m.uuid THEN "pending" ELSE fate[v]
      BY <2>1, <1>0 DEF HostTypes
    <2>3. \A v \in Uuids : Packets(v)' = Packets(v)  BY <2>1, SilentPackets
    <2> QED  BY <1>c, <1>d, <2>1, <2>2, <2>3 DEF ReportInv, Acknowledged, Adds, Serves
  <1>2. ASSUME NEW u \in Uuids, RejectSendFlex(u)
        PROVE  ReportInv'
    <2>1. /\ events' = [events EXCEPT ![u] = Append(@, "NACK")] /\ "NACK" \in PacketKinds
          /\ binary_protocol_active' /\ fate[u] = "unused"
          /\ fate' = [fate EXCEPT ![u] = "refused"] /\ UNCHANGED <<core1, adding>>
          /\ core1 = "loop"
      BY <1>2 DEF RejectSendFlex, FrameArrives, PacketKinds
    <2>2. \A v \in Uuids : fate'[v] = IF v = u THEN "refused" ELSE fate[v]
      BY <2>1, <1>0 DEF HostTypes
    <2>3. Packets(u)' = {"NACK"} /\ \A v \in Uuids \ {u} : Packets(v)' = Packets(v)
      BY <2>1, <1>0, <1>b, AppendedPacket
    <2> QED  BY <1>c, <1>d, <2>1, <2>2, <2>3 DEF ReportInv, Acknowledged, Adds, Serves
  <1>3. ASSUME NEW u \in Uuids, fate[u] = "unused", core1 = "loop",
               fate' = [fate EXCEPT ![u] = "accepted"],
               UNCHANGED <<core1, adding, events, binary_protocol_active>>
        PROVE  ReportInv'
    <2>1. \A v \in Uuids : fate'[v] = IF v = u THEN "accepted" ELSE fate[v]
      BY <1>3, <1>0 DEF HostTypes
    <2>2. \A v \in Uuids : Packets(v)' = Packets(v)  BY <1>3, SilentPackets
    <2> QED  BY <1>c, <1>3, <2>1, <2>2 DEF ReportInv, Acknowledged, Adds, Serves
  <1>4. CASE AddSendFlex
    <2>1. PICK u \in Uuids : u = adding.uuid  BY <1>0, <1>4, <1>a DEF AddSendFlex, AddingInv
    <2>2. /\ fate' = [fate EXCEPT ![u] = "accepted"] /\ core1 = "add" /\ core1' = "ack"
          /\ UNCHANGED <<events, adding, binary_protocol_active>>
      BY <2>1, <1>4 DEF AddSendFlex
    <2>3. \A v \in Uuids : fate'[v] = IF v = u THEN "accepted" ELSE fate[v]
      BY <2>2, <1>0 DEF HostTypes
    <2>4. \A v \in Uuids : Packets(v)' = Packets(v)  BY <2>2, SilentPackets
    <2> QED  BY <1>c, <2>1, <2>2, <2>3, <2>4 DEF ReportInv, Acknowledged, Adds, Serves
  <1>5. CASE RefuseSendFlex \/ SendAck \/ SendQueued
    <2>1. PICK u \in Uuids : u = adding.uuid
      BY <1>0, <1>5, <1>a DEF RefuseSendFlex, SendAck, SendQueued, AddingInv
    <2>2. PICK p \in {"ACK", "NACK", "QUEUED"} :
            /\ Emit(u, p)
            /\ \/ p = "NACK" /\ RefuseSendFlex
               \/ p = "ACK" /\ SendAck
               \/ p = "QUEUED" /\ SendQueued
      BY <2>1, <1>5 DEF RefuseSendFlex, SendAck, SendQueued
    <2>3. /\ Packets(u)' \in {Packets(u), Packets(u) \union {p}}
          /\ \A v \in Uuids \ {u} : Packets(v)' = Packets(v)
      <3>1. p \in PacketKinds  BY DEF PacketKinds
      <3> QED  BY <3>1, <2>2, <1>0, EmittedPacket
    <2>4. /\ UNCHANGED binary_protocol_active /\ Adds(u, {"add", "ack", "queued"})
          /\ \A v \in Uuids : fate'[v] = IF v = u /\ p = "NACK" THEN "refused" ELSE fate[v]
      BY <2>1, <2>2, <1>0 DEF RefuseSendFlex, SendAck, SendQueued, Adds, HostTypes
    <2>5. \A v \in Uuids : Acknowledged(v)' => Acknowledged(v)
      BY <2>1, <2>2, <2>3, <2>4
         DEF Acknowledged, Adds, RefuseSendFlex, SendAck, SendQueued
    <2> QED  BY <1>c, <2>3, <2>4, <2>5 DEF ReportInv, Serves
  <1>6. CASE AnswerCommand
    <2>1. UNCHANGED <<fate, events, core1, adding>> /\ binary_protocol_active'
      BY <1>6 DEF AnswerCommand, FrameArrives
    <2>2. \A v \in Uuids : Packets(v)' = Packets(v)  BY <2>1, SilentPackets
    <2> QED  BY <1>c, <2>1, <2>2 DEF ReportInv, Acknowledged, Adds, Serves
  <1> QED  BY <1>1, <1>2, <1>3, <1>4, <1>5, <1>6 DEF Binary, QueueAlert

(* With a host that speaks binary only, every step keeps the rest too.     *)
LEMMA BinaryStepInv ==
    ASSUME IInv, BinaryInv, Core0 \/ FifoInterrupt \/ Binary
    PROVE  BinaryInv'
  <1>1. BinaryOnly'  BY BinaryStaysBinary DEF BinaryInv
  <1>2. CASE Core0
    BY <1>1, <1>2, Core0AirInv, Core0ReportInv DEF BinaryInv
  <1>3. CASE Binary
    BY <1>1, <1>3, BinaryAirInv, BinaryReportInv DEF BinaryInv
  <1>4. CASE FifoInterrupt
    <2>1. UNCHANGED <<serving, task, outcome, radio, tx_data_buffer,
                      current_tx_total_length, device_state, core1, adding, fate, events,
                      binary_protocol_active>>
      BY <1>4 DEF FifoInterrupt, queueVars, airVars, bufferVars, airHistory, core1Vars,
             dialogueVars, hostVars, Core1Keeps
    <2>2. \A u \in Uuids : Packets(u)' = Packets(u)  BY <2>1, SilentPackets
    <2>3. AirInv'  BY <2>1 DEF BinaryInv, AirInv
    <2>4. ReportInv'
      BY <2>1, <2>2 DEF BinaryInv, ReportInv, Acknowledged, Adds, Serves
    <2> QED  BY <1>1, <2>3, <2>4 DEF BinaryInv
  <1> QED  BY <1>2, <1>3, <1>4

(* A step that changes nothing of the device keeps everything.             *)
LEMMA StutterInv ==
    ASSUME UNCHANGED vars
    PROVE  (IInv => IInv') /\ (BinaryInv => BinaryInv')
  <1> USE DEF vars, queueVars, airVars, bufferVars, airHistory, taskVars, core1Vars,
              dialogueVars, hostVars
  <1>1. \A u \in Uuids : Packets(u)' = Packets(u) /\ PacketsOrdered(u)' = PacketsOrdered(u)
    BY SilentPackets
  <1>2. TypeOK => TypeOK'
    BY DEF TypeOK, SharedTypes, Core0Types, Core1Types, HostTypes, HistoryTypes
  <1>3. TaskInv /\ AddingInv /\ QueueInv => TaskInv' /\ AddingInv' /\ QueueInv'
    BY DEF TaskInv, AddingInv, QueueInv
  <1>4. EventInv => EventInv'
    BY <1>1 DEF EventInv, PacketsTrue, Serves, Adds
  <1>6. SentInv => SentInv'  BY SentStays
  <1>5. BinaryInv => BinaryInv'
    BY <1>1 DEF BinaryInv, BinaryOnly, AirInv, ReportInv, Acknowledged, Serves, Adds
  <1> QED  BY <1>2, <1>3, <1>4, <1>5, <1>6 DEF IInv
=============================================================================

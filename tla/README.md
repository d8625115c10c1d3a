# FlexDevice: the transmitter in TLA+

The repository holds the firmware of a FLEX paging transmitter (an ESP32 with two
cores and an SX1276 radio, `flex-fsk-tx-v2.5/`) and the host libraries that talk
to it over one serial line (`cli/`).  This directory models what in it is hard to
test: two cores that share a message queue, a radio, a transmit buffer, a log
and one state variable; two protocols that share the serial line; libraries that
wait for answers on it with time-outs; and settings that must outlive a reset.
Paths below are relative to the repository; `FW` is `flex-fsk-tx-v2.5/src`.

## 1. Inventory

| Component | State | Operations | Interacts with |
|---|---|---|---|
| **Message queue**, `FW/protocol/flex_protocol.cpp` | `message_queue`, `queue_head`, `queue_tail`, `queue_count`, the spin lock `queue_mutex` | `queue_add_message[_with_uuid]`, `queue_get_next_message`, `queue_remove_message` | producers on Core 1; the transmission task on Core 0, which it notifies |
| **Transmission task**, `FW/protocol/transmission.cpp` | `device_state`, `current_tx_*`, `tx_data_buffer`, `fifo_empty`, the radio | one endless loop: take, tune, encode, announce, send, report, remove; the FIFO interrupt | queue, radio, events to the host |
| **Binary handlers**, `FW/binary/binary_handlers.cpp`, `binary_events.cpp` | `binary_protocol_active` | nine commands, of which `CMD_SEND_FLEX` changes state; ACK, NACK and event packets | queue, serial line |
| **AT parser**, `FW/protocol/at_commands.cpp` | `device_state` (again), the message under construction, `flex_mail_drop`, the two time-outs | commands, the `AT+MSG` and `AT+SEND` dialogues | queue, radio, `tx_data_buffer`, storage, clock |
| **Serial input and framing**, `flex-fsk-tx-v2.5.ino` `loop()`, `at_commands.cpp:743-862`, `cobs.cpp`, `crc16.cpp` | the frame buffer, its start time | dispatch of bytes to the two protocols, COBS, CRC, frame time-out | both protocols |
| **Packets and codec**, `FW/binary/binary_packet.*`, `cobs.cpp`, `crc16.cpp`, again in both libraries | none | build, frame, check, read | both ends of the line |
| **Log buffer**, `FW/core/logging.cpp` | `log_buffer`, `log_buffer_len`, the log file | append, flush, trim, delete; called from both cores | SPIFFS, serial line |
| **Storage and boot tracker**, `FW/core/storage.cpp`, `.ino` `setup()` | settings file, core configuration, boot failure counter | load, save, factory reset, boot failure history | SPIFFS, NVS, radio |
| **Battery and power alerts**, `.ino`, `FW/core/hardware.cpp` | sent flags, confirmation count, last power state | one check a minute | queue |
| **Clock synchronisation**, `at_commands.cpp:818-849` | system time, time zone, RTC | drift check of every packet, `AT+CCLK`, boot | packets, logging |
| **Host libraries**, `cli/libraries/*/FlexDevice.*` | the open port, the call in progress | send, wait for an answer or for the end of a transmission, time out | serial line |
| Hardware access, display, UUIDs, TinyFlex (vendored), build script | - | - | - |

What is hard about it:

- Both cores write `device_state`, and its value is both the guard of the AT
  parser and the state of its dialogues.
- The queue asks "full?" and "empty?" in one critical section and acts in
  another, and Core 0 reads the message it serves through a bare pointer.
- The message is visible to Core 0 before Core 1 has answered the host.
- Events are dropped without a trace while the line is in AT mode.
- The feeding loop ends only if the radio keeps asking for data.
- Time-outs are looked at only when a byte arrives.
- Settings are overwritten in place; a reset can fall in the middle, and what
  cannot be read is replaced by defaults that are saved over it.
- The libraries take the next packet for the answer; events of earlier messages
  and late answers are in the same stream.
- One packet layout is written down three times, as a struct and as offsets.
- Both cores append to the log buffer without a lock.

`PROJECT.json`, "hazards", has all of them at their lines, with the property
that covers each or the reason why none does yet.

## 2. Modules

```
FifoQueue  <-- refined by --  MessageQueue      <- MessageQueue_proofs
    |  (instance)
DeviceState <- TransmissionTask, BinaryCommands, AtCommands <- Device -- refines --> TxService
  ^                                                             ^
  +------------------ HostLibrary <- HostedDevice --------------+  (extends the device's modules)
SerialInput <- SerialInput_proofs
Cobs, Crc16 <- Packet <- Link <- Link_proofs
Storage, PowerMonitor <- Housekeeping <- Housekeeping_proofs
LogBuffer <- LogBuffer_proofs

TransmissionTask, BinaryCommands <- TransmissionTask_proofs <- Device_proofs (with Device)
                                                            <- HostedDevice_proofs (with HostedDevice)
```

- **FifoQueue** states what the queue promises: `Put`, `Take`, `Complete`.  A
  message in service keeps its place and counts against the capacity.
- **MessageQueue** is the ring buffer between the cores.  Each side has a program
  counter.  An add is `AddCheck` (first critical section), `AddEnter` and
  `AddExit` (the second one, with a `Torn` slot in between) and `Notify`.  Core 0
  is `Wake`, `GetNothing`/`GetNext`, `CopyUuid`, `UseMessage`, `RemoveCheck`,
  `Remove`.  `queue_mutex` is kept for the one section that spans two steps;
  Core 0 spins while it is held.  `Wake` may happen without a notification: that
  is the five second time-out of `ulTaskNotifyTake`.
- **DeviceState** declares everything both cores share, and takes the queue as
  the abstract `FifoQueue` that `MessageQueue` is shown to implement.
- **TransmissionTask** is Core 0, one action per stretch of `transmission_task`
  between two points Core 1 can see or disturb.  `TuneFails`, `EncodeFails` and
  the second case of `StartRadio` are the three failures, switched on by
  `RadioFaults`.  `FifoInterrupt` is the interrupt handler.
- **BinaryCommands** is Core 1 on the binary protocol.  `CMD_SEND_FLEX` is
  `ReceiveSendFlex`, `AddSendFlex` or `RefuseSendFlex`, `SendAck`, `SendQueued`,
  because Core 0 can send its own events between any two of them.  `QueueAlert`
  is a battery alert.
- **AtCommands** is Core 1 on the AT protocol.  A command is admitted or refused
  by the guard (`AtAdmit`, `AtRefuse`) and carried out in a later step (`SetFreq`,
  `OpenMsg`, ...).  A line that arrives while a dialogue is open is its text
  (`TextArrives`, `DataArrives`), too late (`TooLate`), or, when the device has
  left the dialogue by itself, taken for a command (`Misread`).
- **Device** puts the two cores together and states the properties.
- **TxService** states what the transmitter promises about each message:
  accepted or refused once, served in the order of acceptance, ended exactly
  once.  In the mapping, a message is accepted when it is in the queue and ended
  when Core 0 removes it; a message being handled by Core 1 is still unused.

- **SerialInput** is the way from bytes to lines, dialogues and frames, which
  `Device` takes whole. `DispatchFrame`, `DispatchAt`, `DispatchDialogue` and
  `DialogueTimesOut` are the branches of `loop()`; each handler then reads one byte
  per step until it returns to `loop()`, and bytes may arrive between any two of
  them. The host sends items (`BeginItem`, `SendByte`), breaks frames off or pauses
  in the middle of them, gives up waiting and gives up dialogues (`BreakOff`,
  `Silence`). A pause is short, longer than the time-out of a frame, or long, longer
  than that of a dialogue, which the device notices only at the next byte (`late`).
  `StartsFresh` says, from what the host knows of all this (`pause`, `dialogue`,
  `abandoned`), when an item starts in step. A byte carries its class, which is all
  the dispatch looks at, and the number of its item and its place there, which stand
  for COBS, CRC and the text of commands: a frame is valid, or a line a command,
  when it is made of exactly the bytes of one. The place tells the bytes of an item
  apart; no handler looks at it.

- **HostLibrary** puts a program that calls `FlexDevice.h` or `FlexDevice.py` in front
  of the modules of `Device`.  `CallSend` and `CallQuery` write one frame;
  `SendAnswered`, `SendWaitAnswered` and `QueryAnswered` take the first packet for
  the answer, as the code does, and `EventSeen` compares uuids, which only the wait
  for the end of a transmission does.  The libraries differ in what a broken frame
  does to that wait (`EventBroken`).  `ServeSend` and `ServeQuery` are the device
  reading commands in order.  **HostedDevice** says what the program may believe.
- **Cobs**, **Crc16** and **Packet** are the codec and the packet, with the sizes of the
  fields as parameters: how either end builds and reads one.  **Link** is one
  exchange after another byte by byte over a line that changes, loses or doubles
  one byte, with the clock of the device, which a packet or `AT+CCLK` may set.
- **LogBuffer** has one step for each load and store of `log_buffer_len` that the
  compiled append makes, for two cores; flush, cut of the file and deletion; a
  reset.  A line is the unit of all lengths.
- **Storage** is what outlives a reset and the boot that reads it: every call of
  `setup()` that touches it in order, a save as the three steps a reset can fall
  between, `AT+FLEX`, `AT+FREQPPM`, both resets.  `Faults` says which operations
  may fail.  **PowerMonitor** is the battery check with both alerts.  **Housekeeping**
  composes them and lets the device be reset anywhere.

Operators called *Mutant* stand before some definitions.  Each is that definition
with one plausible mistake in it; nothing uses them, and putting one in the place
of the original must make a property of a run fail.

### Abstractions

A message is its uuid, frequency and maildrop flag; capcode, power and text
travel with it unchanged and are left out.  `tx_data_buffer` is the uuid whose
frame each of its FIFO loads holds or `"user"` for bytes of `AT+SEND`, a frame has
`FrameChunks` of them, the buffer room for `BufferLoads`; the radio is a mode and a
frequency.  The data of `AT+SEND` are announced in whole loads (`DataLoads`, shorter or
longer than a frame) and arrive one load at a time, wherever the length stands when
they do, which Core 0 may have changed meanwhile; a load is stored in one step, so
that the two halves of the `++` on the shared length are not told apart.
`AT+POWER` and `AT+FREQPPM` reach the radio the way `AT+FREQ` does and are not
repeated in `Device`; what `AT+FREQPPM` saves is in `Storage`. Queries change
nothing and are `AnswerCommand` or left out. In `Device` a line and a frame arrive
whole; how bytes become lines and frames is for `SerialInput`. `fate`, `events` and
`at_host` are history the host could keep, not state of the firmware; `aired` is
what somebody would know who listens to the radio (how many loads of each message's
frame were sent, in order and on its frequency), and `disturbed` are the messages
under whose transmission an AT command took the radio or the buffer. So are `result`
in `HostLibrary`, `asked` and `told` in `Link`, `lines`, `overlapped`, `lost` and
`uncut` in `LogBuffer`, `acked`, `asked`, `acked_ppm` and `damaged` in `Storage`,
and the two counts of alerts in `PowerMonitor`.

In `HostLibrary` a frame is one element of the line, and one whose beginning was
missed or that a time-out cut is a packet that decodes to nothing; `Link` is what
justifies it.  In `Link` a packet has all its fields with smaller sizes, frequency and
power travel with the capcode, and the CRC is computed, not assumed.  In `Storage`
a setting has two values, and a file is absent, torn or whole: a torn one does not
parse.  The age of a boot failure is a choice.

## 3. Runs

| Run | Instance | What it shows |
|---|---|---|
| `queue` | 3 slots, 2 contents | `ServedMessageIsStable`, `RingIsConsistent`, `NoLostWakeup`, refinement of `FifoQueue` with liveness |
| `binary` | 3 messages, 2 frequencies, 2 places | a binary host with alerts: `TypeOK` of both cores, `HostNotMisled`, `NothingUnreported`, `CoreIsolation`, `GuardCoversAir`, `ServiceSafety` |
| `all` | 2 messages, 2 frequencies, 1 place, frames of 2 loads, data of 1 and of 3, all faults and all commands but `AT+MAILDROP` | `HostNotMisled` and `ServiceSafety` survive any mixture |
| `mixed` | 2 messages, 1 frequency, 1 place, `CMD_SEND_FLEX`, `AT+MSG`, `AT+SEND`, `AT+MAILDROP` | liveness: `ImplementsService`, `SendFlexAnswered` |
| `serial` | 3 items of 8 kinds, buffers of 2 to 5 bytes | a host that mixes protocols, breaks off, pauses and gives up: the device is in step with it again after a pause, a long one if a dialogue was abandoned (`FreshItemsServed`, `FreshItemAnswered`), events are on when its last word was a frame (`BinaryHostHeard`) |
| `host` | 2 messages, 1 place, frames of 1 load, both libraries, slow device, cut frames, 3 unread | a program that calls, times out and calls again: `TransmittedIsTrue`, `AcksCountOnce` |
| `codec` | packets of 27 bytes, runs of 4, 3 uuids, 3 texts | `UndamagedIsHandled`, `AnswerIsRead` (all but the timestamp), and over a line that damages one byte of an exchange `HandledIsAsked`, `NothingElseIsRead` |
| `log` | 5 lines, buffer of 4, threshold 2, file of 3, cut to 2, every open and read may fail | `TailOfTheLog`, `FileBounded`; `TypeOK` also while the cores collide |
| `house` | 2 settings of 2 values, all faults, 6 voltages | `SettingsSurvive`, `PpmSurvives`, `OneLowAlertPerDischarge`, `NoDisconnectReported` |
| `abort`, `answer`, `clock` | smallest that shows it | three places where the code does not do what a document says (`PROJECT.json`, "findings") |

`binary` and `all` check safety only, and use the symmetry of uuids and
frequencies, which are only compared.  `mixed` checks liveness and uses none.  The
largest run is `all` with 5,573,563 states (two minutes), then `log` with 4,981,672;
`mixed` has 302,323, `serial` 222,356, `codec` 203,514 and `house` 51,422.  `AT+MAILDROP` is
in `mixed` only: nothing of the service looks at the flag it sets.

*Bounds.*  Three slots let the ring wrap while it is partly full, and let head and
tail meet full and empty; two contents tell a slot from its neighbour.  Three
messages in two places make a third one refused while the first is served; one
place and two messages do the same in the larger runs.  `FrameChunks = 2` gives the
feeding loop a first and a last round.  A uuid is used once, which bounds the
history.  With three loads in the buffer the data of `AT+SEND` end before the frame
does or run past it.  In `serial` three items are a mishap, the item it hurts and one after
it; the frame buffer holds one frame and a byte, so that two frames run into each
other overflow it, and `at_buffer` overflows on what a frame can leave in it.  The
same run with four items passes too (5,486,233 states).  A frame begins with a
byte that is not text: the first byte of its COBS form is the distance to the
first zero of the packet, 4 to 26 for a command.  It is a carriage return when the
tenth byte of the uuid is that zero, about once in 260 commands; `Link` has such a
uuid, and `UndamagedIsHandled` exempts it.

In `host` two messages are the call and the one whose packets disturb it, and an
alert can take the place of either.  Three unread elements let the packets of the
first message stand before the answer to the second.  In `codec` `MAX_CODE` is 5
instead of 255, so that packets have runs shorter, as long and longer than a block
and some end in a full one; uuids have zeros at both ends, texts lie on both sides of
both limits, and the four noise bytes are a zero, two codes and a large byte.  In
`log` five lines flush twice and cut once, and the buffer leaves two lines behind the
threshold, so that both cores can be in the append together.  In `house` the
voltages lie on both sides of every threshold; two values tell a setting from its
default; the number of resets is not bounded.

*Fairness.*  `transmission_task` has the highest priority of its own core and its
wait has a time-out, so Core 0 is weakly fair; a radio that transmits raises its
interrupt; Core 1 finishes an operation it has begun (`Core1Fairness` is about
`core1 # "loop"` only).  The host is never obliged to send anything; in
`SerialInput` it sends or breaks off what it has begun.  `FreshItemAnswered` does not
rest on the host giving up, which is not fair.  What is
shown to go wrong in `abort` is under the same fairness.

`host`, `codec`, `log` and `house` check safety and state no fairness.  Deadlock is off
in `host` (both messages used and the port closed) and in `log` (all lines logged).

*What the failing runs mean.*  `ImplementsService` holds in `mixed` and its liveness
fails in `abort`.  In `answer` the line is perfect and the device quick: a
second call on an open port is enough.  In `clock`, giving the libraries the
firmware's offset makes `HostTimeAdopted` and `AnswerTimeRead` hold over all 117342
states.

*Found too, kept as configurations.*  Eight more configurations end in a
violation and are not among the runs; `tlc -config X.cfg M` reproduces them.

| Configuration | Property | What it shows |
|---|---|---|
| `MCDevice_order.cfg` | `LifecycleInOrder` | `EVT_TX_START`, even `EVT_TX_DONE`, can reach the host before the ACK (`docs/BINARY_PROTOCOL.md:231-235` has the order) |
| `MCDevice_text.cfg` | `NextLineIsText` | the task ends the dialogue of `AT+MSG` by setting `device_state` |
| `MCDevice_maildrop.cfg` | `MailDropHonoured` | `AT+MSG` resets what `AT+MAILDROP` has set (`docs/AT_COMMANDS.md`: "maildrop behavior for next queued AT message") |
| `MCDevice_sent.cfg` | `DoneMeansSent` | `AT+SEND`, admitted before the transmission, zeroes the length of the frame Core 0 has encoded: the host gets `EVT_TX_DONE` ("Transmission completed", `README.md:205`) and nothing was sent |
| `MCDevice_isolation.cfg` | `CoreIsolation` | `AT+FREQ` retunes the radio under a transmission; with binary commands only it holds (run `binary`) |
| `MCSerialInput_overlong.cfg` | `LineIsText` | the rest of a text that was cut goes to the AT parser |
| `MCLink_stamp.cfg` | `AnswerTimeRead` | the library reads the timestamp of every answer one byte too early (time 300 as 1, flags not valid), although `README.md:276-279` has the client calculate the latency from it; the other side of the finding `clock` |
| `MCBoots.cfg` | `FailedBootCounted` | a boot after one that was never marked successful counts no failure (`README.md:49`: "Boot Failure Tracking - Auto-recovery after failures"), because the counter is incremented only when it is positive already |

*What `all` says of DONE.*  `HostNotMisled` compares the packets of a message with what
went on the air: DONE needs every load of its frame, FAILED none.  It exempts the
messages in `disturbed`, during whose transmission `AT+ABORT`, `AT+FREQ`, `AT+SEND` or its data
arrived at a place of the task that relies on the radio or the buffer; of these
the code says DONE whatever was sent (`MCDevice_sent.cfg`).  With binary commands
only there are none.

*What the log does when the cores meet.*  `TailOfTheLog` and `FileBounded` speak of runs
in which both cores were never in the append at once; `TailOfTheLog` besides of those in
which no line was lost to a reset or a file that did not open, `FileBounded` of those
in which the last flush got as far as its cut: its second look (`logging.cpp:136`) or
the cut (`:157`, `:181`) may fail, or a reset fall in front of it, and the next flush makes
good for it.  Writes that store less than they were given are not modelled.  When the
cores are in it at once, lines
overwrite each other or a length computed before a flush is stored after it.  With two
lines of slack behind the threshold that length can stand behind it for good, and a
later line is written behind the buffer.  The repository promises nothing else, so
this is no finding; `TypeOK` holds for what the model has of it.

*What `house` says of failures.*  `SettingsSurvive` exempts resets between the opening
and the writing of the file, and boots in which the file could not be read or the
radio refused the stored power: each of them ends with defaults that the next
`AT+FLEX` saves.  `PpmSurvives` exempts failures of NVS.  `NoDisconnectReported` says that a
feature never acts: the alert for lost mains is never sent, because only the step
from connected to not connected is counted, never up to three.

*What `serial` assumes.*  `FreshItemsServed` is about items begun after a pause in which
the host sent nothing, or right behind items that were fresh themselves.

- After a *long* pause, in which the time of any dialogue has run out (30 s for a text,
  5 s for data), every command and frame is served, whatever the device was left
  with: an abandoned dialogue whose time-out nobody has looked at yet answers ERROR
  at the first byte, reads nothing, and leaves the byte to the right protocol.
- After a *short* pause, longer than `BINARY_FRAME_TIMEOUT_MS`, only when the host has
  abandoned no dialogue.  Within its time the device takes the next line for the
  text it asked for, which is what `docs/AT_COMMANDS.md` says of `AT+MSG`.
- Without a pause an item is as good as the one before it.  A line sent right after half
  a frame is swallowed with it, and behind an abandoned dialogue the host cannot tell
  the late ERROR from the answer to its command, so that it may go on too early
  (`behind`).

Lines, texts and data need also that the pause left nothing in `at_buffer` (`StartsTidy`),
for no time-out clears it: the rest of a frame that was taken for a line spoils the
next command.  Two more assumptions are in the module: `loop()` is never held up for
as long as a pause (a trim of the log file can do that), and "\r" and "\n" arrive
together (a "\n" that arrives while `at_flush_serial_buffers` waits is taken for an
empty text).

## 4. Proofs

`MessageQueue_proofs` proves, for every `MESSAGE_QUEUE_SIZE > 0` and every set of
messages (`SizeAssumption`, `ValueAssumption`):

- `TypeCorrect`, `ServedStable`, `RingConsistent`, `WakeupNotLost`: the four
  invariants of the run `queue`;
- `Refinement`: `Spec => Fifo!Safety`, every step of the ring is a step of the FIFO
  queue or a stutter.

The argument is one inductive invariant, `IInv`.  `TypeOK` and the properties do
not suffice: that the slot in use is not overwritten follows from
`queue_count < MESSAGE_QUEUE_SIZE` holding not only when Core 1 checked but still
when it writes, which is true because Core 0 only ever lowers the count; and that
the message in service is the head of the window follows from Core 0 being the
only one to move the head.  `IInv` says both for each value of the two program
counters.  The arithmetic of the ring is in five lemmas (`SlotDistinct`: two places
of the window never share a slot; `SlotShift`: the window after the head has
moved), cited where the window changes.

`Housekeeping_proofs` proves the five invariants of the run `house`, for all settings,
values, voltages, thresholds and combinations of faults (`StorageAssumption`,
`PowerAssumption`: the thresholds of the low battery alert are the right way round,
and more than one confirmation is asked for):

- `TypeCorrect`, and `OneAlert` and `DisconnectUnreported` from
  `MonitorInv`: alerts and flags correspond, and the confirmation count is 0 with
  power and at most 1 without;
- `CorrectionSurvives` from `PpmInv`, which follows the correction through NVS: it is
  there from the start, and in memory after `load_core_config`;
- `FileSurvives` from `FileInv`, which says for each stage of boot and save
  where the settings are.  `SettingsSurvive` looks at two stages only; a reset that
  falls in any other is followed through `FileInv`.

`Device_proofs` proves the safety of both cores, for every queue capacity, frame length,
set of messages, frequencies and radio faults, and every mixture of commands
(`Inputs`).  `TransmissionTask_proofs` holds the lemmas about Core 0 and the binary
handlers, which the proofs about the host start from as well.

- `Invariance`, `TypeCorrect`, `HostToldTheTruth` (`HostNotMisled`) from `IInv`, which
  adds five parts to `TypeOK`: what the place of the task says about the message it
  serves (`TaskInv`) and the place of Core 1 about the one it adds (`AddingInv`); that
  exactly the accepted messages are queued, each once (`QueueInv`); and that the
  events of each message in the stream agree with its fate and stand in order
  (`EventInv`); and what of each message has been sent (`SentInv`).  `HostNotMisled` is not
  inductive: that a DONE is true when it is sent depends on the place of the task,
  since the message is removed only later.  `SentInv` follows the frame from the
  encoder to the last load: as long as no AT command has disturbed the message, buffer,
  length and frequency are those Core 0 has set (`Undisturbed`), and the loads sent and
  the rounds left add up to the frame.  `AtAir` shows that every AT command that
  changes one of them where the task relies on it leaves its mark in `disturbed`.
- `ServiceImplemented`: `Safety => ServiceSafety`, every step is one of `TxService` or
  a stutter.  A message that leaves the queue must be the one begun first, which is
  `QueueInv`.
- `HostToldEverything`, `CoresIsolated`, `GuardCovers` (`NothingUnreported`,
  `CoreIsolation`, `GuardCoversAir`) under `HostSpeaksBinary`: the host sends binary
  commands only, as in the run `binary`.  With AT commands all three fail (section 3), so
  the hypothesis is what the theorems are about.  `BinaryInv` says for each place of
  the task which events are out (`ReportInv`) and what the radio and the transmit buffer
  hold (`AirInv`).

`HostedDevice_proofs` puts the program of the host in front of this device, for both
libraries and finite sets of uuids, which are 16 bytes long:

- `HostTypeCorrect`; `SuccessIsTrue` (`TransmittedIsTrue`): a result taken from a packet
  is true because every packet in the inbox is one the device sent (`InboxTrue`);
- `AcksCounted` (`AcksCountOnce`) from `AckInv`, which counts: successes, calls that
  wait for the end and acknowledgements still unread are never more than those sent.
  It needs that no acknowledgement is in the inbox twice (`InboxOnce`), and the theorem
  about subsets and cardinalities of the library.

`LogBuffer_proofs` proves `TypeCorrect`, `LogIsWhole` (`TailOfTheLog`) and
`FileStaysBounded` for all sizes. `RacyInv` holds whatever the two cores do: no
length in memory or loaded by a core, with the lines still to be added, exceeds what
was logged. `CalmInv` holds as long as they have not met: then one core is alone in
the module, and for each of its places it says what file and buffer hold together
(`Contents`) and how long they are (`Lengths`). The loads and stores of the append
break both properties in between.

`SerialInput_proofs` proves for any number of items of any kinds and all sizes of the
buffers:

- `TypeCorrect`: no buffer is overrun and no item takes effect twice.  The second
  half needs the order of the bytes (`OrderInv`): what is in a buffer was sent before
  everything that is still to be read, no byte is in two buffers, the bytes to be read
  have no gap, and an item takes effect by its first byte, which is then gone;
- `BinaryHeard` (`BinaryHostHeard`): when a frame that was the host's last word takes
  effect, nothing is left to be read that could end the binary protocol (`HeardInv`).

The third theorem of the module is `FreshServed` (`FreshItemsServed`).  The
property speaks of the end, when everything has been read; the invariant, `SerialInv`,
has to follow each item through the handlers byte by byte:

- `StepInv` says where the device is when byte *k* of a fresh item is the next to be
  read (`Mode`): which loop reads, what the dialogue waits for, and what of the item the
  buffers hold.  A command, a text or data that is not `tidy` may have been answered
  before its end; what is left of it is then skipped (`Trails`) and must not disturb
  the item behind it.  The first byte of an item after a long pause may instead find
  the dialogue that was abandoned, with its time run out (`Overdue`); the time-out
  reads nothing, and the byte is then where it would have been without.
- `KnownInv` is what the host knows of the dialogue: what it takes for open is, unless it
  has abandoned one, only a long pause makes a dialogue late, and no frame is begun
  in one.
- `FollowInv`: a fresh item behind another one is only started when that one was fresh,
  whole, and left the device idle; `PauseInv`: after a pause, or after such an item, no
  handler is inside a loop.  Together they give `Mode` for byte 1 of the next item.
- `FreshInv`: a whole fresh item with no byte left to be read took effect.

It rests on `OrderInv`: that all bytes before the next one have been
read is what puts them in the buffer.  That an item sent whole is in the stream to its
last byte (`WholeItem`) is induction over the stream, done by a least number.

`Link_proofs` is about the bytes: the codec, the packets and the exchanges over the line,
for all uuids, texts, times, sizes of the fields and lengths of a run
(`CodeAssumption`, `PacketAssumption`, `LinkAssumption`).

- `RoundTrip`: `Decode(Encode(s)) = s` for every string of bytes.  The provers have no
  induction over a predicate, so the inductions are about *sets* of numbers
  (`Induction`, `Descent`, from the least number of a set), and `Recursion` shows in
  the same way that the functions defined by recursion exist and take the steps their
  definitions give.  `ReadUpTo` is what is carried along the bytes: the decoder that
  starts at the first code of what the encoder has sent yields what the encoder had
  read by then.
- `EncodeShape` bounds a frame and says that its only zero is its last byte;
  `ChecksumType` types the checksum; `HostBuilt`, `DeviceBuilt` and `FieldsSay` say that
  a packet of either side has the fixed size, passes, and is read field by field as
  what it was built from; `TextKept` follows a text from the payload to the queue.
- `TypeCorrect`, `UndamagedHandled` (`UndamagedIsHandled`) and `AnswersRead`
  (`AnswerIsRead`: every field but the timestamp as the device wrote it) from
  `IInv`. `AnswerTimesRead` adds that the timestamp would be read too if the
  libraries had the firmware's offset, which they have not (`MCLink_stamp.cfg`).
  While nothing was damaged the line carries exactly the packet of the program or
  the answer of the device (`Requested`, `Replied`), and what was handled is what
  was asked (`Delivered`). When something was, at most one more frame stands behind
  the first (`Tidy`), which `DamagedFrame` shows of every changed, lost or doubled
  byte: what is left of it must not make the next exchange an undamaged one with a
  line that is not its own. An answer is found behind printed text because its flags
  are zero, so that its first code is smaller than any character (`FirstCode`).
- `HostTimeIgnored` is the finding of the run `clock` for all values: with the offset the
  libraries have, no undamaged command changes the device's clock.

- `OneByteDetected`: of two packets that differ in one byte, in the payload or in the
  checksum, at most one passes.  On the bits of a word (`DigitBits`, `XorDigits`,
  `XorKnown`) the low byte of an entry of `crc16_table` determines its index
  (`TableKnown`), so a step of the checksum can be undone in the checksum before it
  and in the byte (`UpdatedKnown`), and the difference lasts to the end
  (`ChecksumDiffers`).
- `ChangedByteRejected`: a frame with one changed byte is taken by neither end unless
  that byte was a code.  A byte of a run changes one byte of what is decoded
  (`DecodedCompared`); a byte that became a zero ends the frame there, and what it
  holds is shorter than a packet (`CutShorter`); without its zero a frame never ends.

Only model-checked: the liveness of every specification (fairness and `ENABLED`
are beyond the prover), and of `Link` the two properties about what *damaged* frames
are taken for, `HandledIsAsked` and `NothingElseIsRead`.  They are true of the packets
of the run, not of all: where a code was changed, or a byte lost or doubled, several
bytes of the packet differ, and a checksum of 16 bits cannot tell every such packet
from every other.  `ChangedByteRejected` is what holds for all packets.

## 5. Not modelled, and the plan

Next, in this order:

1. `Device`: the position in `EVT_TX_QUEUED`, the frequency an AT message takes from
   `current_tx_frequency`, and the bytes that an `AT+SEND` shorter than the last frame
   leaves behind it.
2. The serial mutex, which `logMessagef` takes again inside an event in a debug build.
3. The time a cut of the log takes, against the time-out of frames.

Left out for good: display, LED, amplifier and watchdog (I/O that nothing reads
back), the queries, which change nothing (`AT+STATUS`, `AT+DEVICE`, `AT+LOGS` with
`read_log_tail`), `AT+POWER`, which acts as `AT+FREQ` does, the packets the firmware can
build and never sends, random uuids, the vendored encoder (it yields a frame or
fails) and the build script.

---------------------------- MODULE MessageQueue ----------------------------
(***************************************************************************)
(* The ring buffer of flex_protocol.cpp between the two cores.  Core 1     *)
(* (the Arduino loop: AT parser, binary handlers, battery alerts) is its   *)
(* only producer, the transmission task of Core 0 its only consumer.       *)
(*                                                                         *)
(* Both sides ask "is it full / empty?" in one critical section and act in *)
(* another, and Core 0 keeps a plain pointer into the slot at the head     *)
(* while it uses the message, outside any critical section.  Each side     *)
(* therefore has a program counter, and the copy of a message into a slot  *)
(* is two steps, with a torn slot in between.                              *)
(***************************************************************************)
EXTENDS Naturals, Sequences

CONSTANTS
    MESSAGE_QUEUE_SIZE,
    Messages,    \* the contents a QueuedMessage can have
    Blank,       \* a slot that was never written
    Torn,        \* a slot in the middle of the copy
    NoMessage    \* Core 0 uses no message

ASSUME SizeAssumption == MESSAGE_QUEUE_SIZE \in Nat \ {0}
ASSUME ValueAssumption == {Blank, Torn, NoMessage} \intersect Messages = {}

VARIABLES
    message_queue,   \* the slots
    queue_head,
    queue_tail,
    queue_count,
    queue_mutex,     \* is Core 1 inside the critical section of an add?
    notified,        \* the notification value of the task is not zero
    producer,        \* Core 1: where it is in queue_add_message_with_uuid
    adding,          \* Core 1: the argument of that call
    consumer,        \* Core 0: where it is in transmission_task
    msg,             \* Core 0: the slot its pointer msg refers to
    msg_uuid         \* Core 0: the message it copied the uuid of

ringVars == <<message_queue, queue_head, queue_tail, queue_count>>
producerVars == <<producer, adding>>
consumerVars == <<consumer, msg, msg_uuid>>
vars == <<ringVars, queue_mutex, notified, producerVars, consumerVars>>

Slots == 0 .. MESSAGE_QUEUE_SIZE - 1
SlotAfter(i) == (i + 1) % MESSAGE_QUEUE_SIZE
SlotAt(i) == (queue_head + i) % MESSAGE_QUEUE_SIZE

ProducerSteps == {"idle", "insert", "write", "notify"}
ConsumerSteps == {"sleep", "look", "copy", "use", "done", "remove"}

(* Steps at which the pointer msg is live, and at which msg_uuid is too.   *)
Pointing == {"copy", "use", "done", "remove"}
Serving == {"use", "done", "remove"}

Init ==
    /\ message_queue = [i \in Slots |-> Blank]
    /\ queue_head = 0
    /\ queue_tail = 0
    /\ queue_count = 0
    /\ queue_mutex = FALSE
    /\ notified = FALSE
    /\ producer = "idle"
    /\ adding = NoMessage
    /\ consumer = "sleep"
    /\ msg = 0
    /\ msg_uuid = NoMessage

-----------------------------------------------------------------------------
(* Core 1                                                                  *)

(* Mutant: <= for < in queue_is_full.                                      *)
AddCheckOffByOne(m) ==
    /\ producer = "idle"
    /\ queue_count <= MESSAGE_QUEUE_SIZE
    /\ producer' = "insert"
    /\ adding' = m
    /\ UNCHANGED <<ringVars, queue_mutex, notified, consumerVars>>

(* queue_is_full, in a critical section of its own, lets the add go on.    *)
AddCheck(m) ==
    /\ producer = "idle"
    /\ queue_count < MESSAGE_QUEUE_SIZE
    /\ producer' = "insert"
    /\ adding' = m
    /\ UNCHANGED <<ringVars, queue_mutex, notified, consumerVars>>

(* The second critical section starts copying into the slot at the tail.   *)
AddEnter ==
    /\ producer = "insert"
    /\ queue_mutex' = TRUE
    /\ message_queue' = [message_queue EXCEPT ![queue_tail] = Torn]
    /\ producer' = "write"
    /\ UNCHANGED <<queue_head, queue_tail, queue_count, notified, adding, consumerVars>>

(* Mutant: the tail moves before the copy.                                 *)
AddExitMovesFirst ==
    /\ producer = "write"
    /\ message_queue' = [message_queue EXCEPT ![SlotAfter(queue_tail)] = adding]
    /\ queue_tail' = SlotAfter(queue_tail)
    /\ queue_count' = queue_count + 1
    /\ queue_mutex' = FALSE
    /\ producer' = "notify"
    /\ UNCHANGED <<queue_head, notified, adding, consumerVars>>

(* The copy is complete, the indices move and the section ends.            *)
AddExit ==
    /\ producer = "write"
    /\ message_queue' = [message_queue EXCEPT ![queue_tail] = adding]
    /\ queue_tail' = SlotAfter(queue_tail)
    /\ queue_count' = queue_count + 1
    /\ queue_mutex' = FALSE
    /\ producer' = "notify"
    /\ UNCHANGED <<queue_head, notified, adding, consumerVars>>

(* Mutant: the notification is left to the five second time-out.           *)
NotifyForgotten ==
    /\ producer = "notify"
    /\ producer' = "idle"
    /\ adding' = NoMessage
    /\ UNCHANGED <<ringVars, queue_mutex, notified, consumerVars>>

(* xTaskNotifyGive, after the critical section.                            *)
Notify ==
    /\ producer = "notify"
    /\ notified' = TRUE
    /\ producer' = "idle"
    /\ adding' = NoMessage
    /\ UNCHANGED <<ringVars, queue_mutex, consumerVars>>

-----------------------------------------------------------------------------
(* Core 0.  A critical section of Core 0 waits for one of Core 1 to end.   *)

(* ulTaskNotifyTake(pdTRUE, 5 s) returns: with a notification, which it    *)
(* clears, or because the time is up.                                      *)
Wake ==
    /\ consumer = "sleep"
    /\ consumer' = "look"
    /\ notified' = FALSE
    /\ UNCHANGED <<ringVars, queue_mutex, producerVars, msg, msg_uuid>>

(* queue_get_next_message finds nothing and the inner loop ends.           *)
GetNothing ==
    /\ consumer = "look"
    /\ ~queue_mutex
    /\ queue_count = 0
    /\ consumer' = "sleep"
    /\ UNCHANGED <<ringVars, queue_mutex, notified, producerVars, msg, msg_uuid>>

(* Mutant: the newest message is handed out.                               *)
GetNextAtTail ==
    /\ consumer = "look"
    /\ ~queue_mutex
    /\ queue_count # 0
    /\ msg' = SlotAt(queue_count - 1)
    /\ consumer' = "copy"
    /\ UNCHANGED <<ringVars, queue_mutex, notified, producerVars, msg_uuid>>

(* queue_get_next_message returns a pointer into the slot at the head.     *)
GetNext ==
    /\ consumer = "look"
    /\ ~queue_mutex
    /\ queue_count # 0
    /\ msg' = queue_head
    /\ consumer' = "copy"
    /\ UNCHANGED <<ringVars, queue_mutex, notified, producerVars, msg_uuid>>

(* The task reads through the pointer, without a lock: first the uuid ...  *)
CopyUuid ==
    /\ consumer = "copy"
    /\ msg_uuid' = message_queue[msg]
    /\ consumer' = "use"
    /\ UNCHANGED <<ringVars, queue_mutex, notified, producerVars, msg>>

(* ... and later the frequency, the power and the text it encodes.         *)
UseMessage ==
    /\ consumer = "use"
    /\ consumer' = "done"
    /\ UNCHANGED <<ringVars, queue_mutex, notified, producerVars, msg, msg_uuid>>

(* queue_remove_message: the empty check in a critical section of its own  *)
RemoveCheck ==
    /\ consumer = "done"
    /\ ~queue_mutex
    /\ consumer' = IF queue_count = 0 THEN "look" ELSE "remove"
    /\ msg_uuid' = IF queue_count = 0 THEN NoMessage ELSE msg_uuid
    /\ UNCHANGED <<ringVars, queue_mutex, notified, producerVars, msg>>

(* Mutant: the head does not wrap.                                         *)
RemoveNoWrap ==
    /\ consumer = "remove"
    /\ ~queue_mutex
    /\ queue_head' = queue_head + 1
    /\ queue_count' = queue_count - 1
    /\ consumer' = "look"
    /\ msg_uuid' = NoMessage
    /\ UNCHANGED <<message_queue, queue_tail, queue_mutex, notified, producerVars, msg>>

(* ... and the removal in the next one.                                    *)
Remove ==
    /\ consumer = "remove"
    /\ ~queue_mutex
    /\ queue_head' = SlotAfter(queue_head)
    /\ queue_count' = queue_count - 1
    /\ consumer' = "look"
    /\ msg_uuid' = NoMessage
    /\ UNCHANGED <<message_queue, queue_tail, queue_mutex, notified, producerVars, msg>>

-----------------------------------------------------------------------------
Core1 == (\E m \in Messages : AddCheck(m)) \/ AddEnter \/ AddExit \/ Notify

Core0 ==
    \/ Wake
    \/ GetNothing
    \/ GetNext
    \/ CopyUuid
    \/ UseMessage
    \/ RemoveCheck
    \/ Remove

Next == Core1 \/ Core0

(* Core 0 is never starved: the task has the highest priority of its core, *)
(* and its wait ends after five seconds.  Core 1 finishes the add it       *)
(* started; nothing makes it start one.                                    *)
Fairness ==
    /\ WF_vars(AddEnter \/ AddExit \/ Notify)
    /\ WF_vars(Core0)

Safety == Init /\ [][Next]_vars
Spec == Safety /\ Fairness

-----------------------------------------------------------------------------
(* Type invariant: the indices stay in the ring and the count between zero *)
(* and its size.                                                           *)
TypeOK ==
    /\ message_queue \in [Slots -> Messages \union {Blank, Torn}]
    /\ queue_head \in Slots
    /\ queue_tail \in Slots
    /\ queue_count \in 0 .. MESSAGE_QUEUE_SIZE
    /\ queue_mutex \in BOOLEAN
    /\ notified \in BOOLEAN
    /\ producer \in ProducerSteps
    /\ adding \in Messages \union {NoMessage}
    /\ consumer \in ConsumerSteps
    /\ msg \in Slots
    /\ msg_uuid \in Messages \union {Blank, Torn, NoMessage}

(* The message Core 0 works on is whole, is the oldest one and does not    *)
(* change under the unlocked pointer, whatever Core 1 adds meanwhile: what *)
(* is encoded at the end belongs to the uuid copied at the start.          *)
ServedMessageIsStable ==
    consumer \in Serving =>
        /\ msg = queue_head
        /\ queue_count > 0
        /\ msg_uuid \in Messages
        /\ message_queue[msg] = msg_uuid

(* The three indices always describe the same window of the ring, and the  *)
(* window holds whole messages only.                                       *)
RingIsConsistent ==
    /\ queue_tail = SlotAt(queue_count)
    /\ \A i \in 0 .. queue_count - 1 : message_queue[SlotAt(i)] \in Messages

(* A wake-up is never lost: a task asleep over a message has been          *)
(* notified, or Core 1 is about to notify it, so no message waits for the  *)
(* five second time-out.                                                   *)
NoLostWakeup ==
    consumer = "sleep" /\ queue_count > 0 => notified \/ producer = "notify"

-----------------------------------------------------------------------------
(* The abstract queue: the messages of the window, oldest first.           *)
Window == [i \in 1 .. queue_count |-> message_queue[SlotAt(i - 1)]]

Fifo == INSTANCE FifoQueue WITH
            Capacity <- MESSAGE_QUEUE_SIZE,
            queue <- Window,
            serving <- IF consumer \in Serving THEN message_queue[msg] ELSE NoMessage

(* The ring buffer is a FIFO queue: every accepted message is served once, *)
(* in the order of acceptance, and leaves the queue when it is done.       *)
ImplementsFifo == Fifo!Spec
=============================================================================

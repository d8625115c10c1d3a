------------------------- MODULE MessageQueue_proofs -------------------------
(***************************************************************************)
(* Theorems about MessageQueue, for every capacity and every set of        *)
(* messages.  The argument rests on one inductive invariant, IInv: the     *)
(* window of the ring that the indices describe, and what each program     *)
(* counter knows about it between two critical sections.                   *)
(***************************************************************************)
EXTENDS MessageQueue, Integers, SequenceTheorems, TLAPS

-----------------------------------------------------------------------------
(* Arithmetic of the ring indices.                                         *)

(* An index of the window: wrapped at most once.                           *)
LEMMA SlotValue ==
    ASSUME NEW h \in Slots, NEW i \in 0 .. MESSAGE_QUEUE_SIZE
    PROVE  (h + i) % MESSAGE_QUEUE_SIZE =
             IF h + i < MESSAGE_QUEUE_SIZE THEN h + i ELSE (h + i) - MESSAGE_QUEUE_SIZE
  <1> DEFINE S == MESSAGE_QUEUE_SIZE
  <1>1. S \in Nat \ {0}  BY SizeAssumption
  <1>2. \A x \in 0 .. S - 1 : x % S = x  BY <1>1
  <1>3. \A x \in S .. 2 * S - 1 : x % S = x - S  BY <1>1
  <1>4. \A x \in 0 .. 2 * S - 1 : x % S = IF x < S THEN x ELSE x - S
    <2> SUFFICES ASSUME NEW x \in 0 .. 2 * S - 1
                 PROVE  x % S = IF x < S THEN x ELSE x - S
      OBVIOUS
    <2>1. x \in 0 .. S - 1 \/ x \in S .. 2 * S - 1  BY <1>1
    <2> QED  BY <2>1, <1>1, <1>2, <1>3
  <1>5. PICK x \in 0 .. 2 * S - 1 : x = h + i  BY <1>1 DEF Slots
  <1>6. x % S = IF x < S THEN x ELSE x - S  BY <1>4
  <1> QED  BY <1>5, <1>6, Zenon

(* Every index of the window is a slot.                                    *)
LEMMA SlotInRange ==
    ASSUME NEW h \in Slots, NEW i \in 0 .. MESSAGE_QUEUE_SIZE
    PROVE  (h + i) % MESSAGE_QUEUE_SIZE \in Slots
  BY SlotValue, SizeAssumption DEF Slots

(* The slot after the i-th one of the window is the next one of it.        *)
LEMMA SlotAdvance ==
    ASSUME NEW h \in Slots, NEW i \in 0 .. MESSAGE_QUEUE_SIZE - 1
    PROVE  SlotAfter((h + i) % MESSAGE_QUEUE_SIZE) = (h + (i + 1)) % MESSAGE_QUEUE_SIZE
  <1> DEFINE S == MESSAGE_QUEUE_SIZE
  <1> DEFINE s == (h + i) % S
  <1>1. S \in Nat \ {0} /\ i \in 0 .. S /\ i + 1 \in 0 .. S  BY SizeAssumption
  <1>2. s \in Slots /\ 1 \in 0 .. S  BY <1>1, SlotInRange
  <1>3. SlotAfter(s) = IF s + 1 < S THEN s + 1 ELSE (s + 1) - S
    BY <1>2, SlotValue DEF SlotAfter
  <1>4. s = IF h + i < S THEN h + i ELSE (h + i) - S  BY <1>1, SlotValue
  <1>5. (h + (i + 1)) % S = IF h + (i + 1) < S THEN h + (i + 1) ELSE (h + (i + 1)) - S
    BY <1>1, SlotValue
  <1> HIDE DEF s
  <1> QED  BY <1>1, <1>2, <1>3, <1>4, <1>5 DEF Slots, s

(* Moving the head forward renumbers the window by one.                    *)
LEMMA SlotShift ==
    ASSUME NEW h \in Slots, NEW i \in 0 .. MESSAGE_QUEUE_SIZE - 1
    PROVE  (SlotAfter(h) + i) % MESSAGE_QUEUE_SIZE = (h + (i + 1)) % MESSAGE_QUEUE_SIZE
  <1> DEFINE S == MESSAGE_QUEUE_SIZE
  <1> DEFINE s == SlotAfter(h)
  <1>1. S \in Nat \ {0} /\ i \in 0 .. S /\ i + 1 \in 0 .. S /\ 1 \in 0 .. S
    BY SizeAssumption
  <1>2. s = IF h + 1 < S THEN h + 1 ELSE (h + 1) - S  BY <1>1, SlotValue DEF SlotAfter
  <1>3. s \in Slots  BY <1>1, SlotInRange DEF SlotAfter
  <1>4. (s + i) % S = IF s + i < S THEN s + i ELSE (s + i) - S  BY <1>1, <1>3, SlotValue
  <1>5. (h + (i + 1)) % S = IF h + (i + 1) < S THEN h + (i + 1) ELSE (h + (i + 1)) - S
    BY <1>1, SlotValue
  <1>6. (s + i) % S = (h + (i + 1)) % S
    <2> HIDE DEF s
    <2> QED  BY <1>1, <1>2, <1>3, <1>4, <1>5 DEF Slots
  <1> QED  BY <1>6

(* Two places of a window that is not longer than the ring share no slot.  *)
LEMMA SlotDistinct ==
    ASSUME NEW h \in Slots,
           NEW i \in 0 .. MESSAGE_QUEUE_SIZE - 1, NEW j \in 0 .. MESSAGE_QUEUE_SIZE - 1,
           i # j
    PROVE  (h + i) % MESSAGE_QUEUE_SIZE # (h + j) % MESSAGE_QUEUE_SIZE
  <1> DEFINE S == MESSAGE_QUEUE_SIZE
  <1>1. S \in Nat \ {0} /\ i \in 0 .. S /\ j \in 0 .. S  BY SizeAssumption
  <1>2. (h + i) % S = IF h + i < S THEN h + i ELSE (h + i) - S  BY <1>1, SlotValue
  <1>3. (h + j) % S = IF h + j < S THEN h + j ELSE (h + j) - S  BY <1>1, SlotValue
  <1> QED  BY <1>1, <1>2, <1>3 DEF Slots

-----------------------------------------------------------------------------
(* What the program counters know between two critical sections: Core 1's  *)
(* full check still holds when it inserts, and Core 0's pointer refers to  *)
(* the head of a queue that is not empty.                                  *)
PcKnowledge ==
    /\ producer \in {"insert", "write"} => queue_count < MESSAGE_QUEUE_SIZE
    /\ producer # "idle" => adding \in Messages
    /\ queue_mutex <=> producer = "write"
    /\ consumer \in Pointing => msg = queue_head /\ queue_count > 0

IInv ==
    /\ TypeOK
    /\ PcKnowledge
    /\ RingIsConsistent
    /\ ServedMessageIsStable
    /\ NoLostWakeup

(* The initial state, an empty ring with both cores idle, satisfies IInv.  *)
LEMMA InitIInv == Init => IInv
  <1> SUFFICES ASSUME Init PROVE IInv  OBVIOUS
  <1> USE SizeAssumption DEF Init
  <1>1. TypeOK
    <2>1. 0 \in Slots /\ 0 \in 0 .. MESSAGE_QUEUE_SIZE  BY DEF Slots
    <2>2. message_queue \in [Slots -> Messages \union {Blank, Torn}]  OBVIOUS
    <2> QED  BY <2>1, <2>2 DEF TypeOK, ProducerSteps, ConsumerSteps
  <1>2. PcKnowledge  BY DEF PcKnowledge, Pointing
  <1>3. RingIsConsistent
    <2>1. 0 \in Slots /\ 0 \in 0 .. MESSAGE_QUEUE_SIZE  BY DEF Slots
    <2>2. (0 + 0) % MESSAGE_QUEUE_SIZE = 0  BY <2>1, SlotValue
    <2> QED  BY <2>2 DEF RingIsConsistent, SlotAt
  <1>4. ServedMessageIsStable /\ NoLostWakeup
    BY DEF ServedMessageIsStable, NoLostWakeup, Serving
  <1> QED  BY <1>1, <1>2, <1>3, <1>4 DEF IInv

(* While the ring is not full, the slot at the tail is outside the window, *)
(* so whatever is written to it leaves the window as it is.                *)
LEMMA TailOutsideWindow ==
    ASSUME TypeOK, RingIsConsistent, queue_count < MESSAGE_QUEUE_SIZE,
           NEW v, NEW i \in 0 .. queue_count - 1
    PROVE  /\ SlotAt(i) \in Slots
           /\ SlotAt(i) # queue_tail
           /\ [message_queue EXCEPT ![queue_tail] = v][SlotAt(i)] = message_queue[SlotAt(i)]
  <1>1. /\ queue_head \in Slots
        /\ queue_count \in 0 .. MESSAGE_QUEUE_SIZE - 1
        /\ i \in 0 .. MESSAGE_QUEUE_SIZE - 1
        /\ i \in 0 .. MESSAGE_QUEUE_SIZE
        /\ i # queue_count
    BY SizeAssumption DEF TypeOK
  <1>2. SlotAt(i) \in Slots  BY <1>1, SlotInRange DEF SlotAt
  <1>3. SlotAt(i) # queue_tail
    BY <1>1, SlotDistinct DEF SlotAt, RingIsConsistent
  <1>4. message_queue \in [Slots -> Messages \union {Blank, Torn}]  BY DEF TypeOK
  <1> QED  BY <1>2, <1>3, <1>4

(* The first place of the window is the slot at the head.                  *)
LEMMA HeadOfWindow ==
    ASSUME TypeOK
    PROVE  SlotAt(0) = queue_head
  <1>1. queue_head \in Slots /\ 0 \in 0 .. MESSAGE_QUEUE_SIZE
    BY SizeAssumption DEF TypeOK
  <1>2. SlotAt(0) = IF queue_head + 0 < MESSAGE_QUEUE_SIZE
                    THEN queue_head + 0 ELSE (queue_head + 0) - MESSAGE_QUEUE_SIZE
    BY <1>1, SlotValue DEF SlotAt
  <1> QED  BY <1>1, <1>2, SizeAssumption DEF Slots

-----------------------------------------------------------------------------
(* Every step preserves IInv.                                              *)

(* Core 1 starts to copy into the slot at the tail.                        *)
LEMMA AddEnterIInv == IInv /\ AddEnter => IInv'
  <1> SUFFICES ASSUME IInv, AddEnter PROVE IInv'  OBVIOUS
  <1> USE DEF IInv, AddEnter
  <1>1. TypeOK'
    BY DEF TypeOK, ProducerSteps, consumerVars
  <1>2. PcKnowledge'
    BY DEF PcKnowledge, TypeOK, consumerVars
  <1>3. queue_count < MESSAGE_QUEUE_SIZE  BY DEF PcKnowledge
  <1>4. RingIsConsistent'
    <2>1. SlotAt(queue_count)' = SlotAt(queue_count)  BY DEF SlotAt
    <2>2. ASSUME NEW i \in 0 .. queue_count - 1
          PROVE  message_queue'[SlotAt(i)'] \in Messages
      BY <1>3, TailOutsideWindow DEF RingIsConsistent, SlotAt
    <2> QED  BY <2>1, <2>2 DEF RingIsConsistent
  <1>5. ServedMessageIsStable'
    <2> SUFFICES ASSUME consumer \in Serving PROVE ServedMessageIsStable'
      BY DEF ServedMessageIsStable, consumerVars
    <2>1. 0 \in 0 .. queue_count - 1  BY DEF ServedMessageIsStable, TypeOK
    <2>2. message_queue'[SlotAt(0)] = message_queue[SlotAt(0)]
      BY <1>3, <2>1, TailOutsideWindow
    <2> QED  BY <2>2, HeadOfWindow DEF ServedMessageIsStable, consumerVars
  <1>6. NoLostWakeup'  BY DEF NoLostWakeup, consumerVars, PcKnowledge
  <1> QED  BY <1>1, <1>2, <1>4, <1>5, <1>6

(* Core 1 completes the copy and moves the tail.                           *)
LEMMA AddExitIInv == IInv /\ AddExit => IInv'
  <1> SUFFICES ASSUME IInv, AddExit PROVE IInv'  OBVIOUS
  <1> USE DEF IInv, AddExit
  <1>1. /\ queue_count \in 0 .. MESSAGE_QUEUE_SIZE - 1
        /\ queue_count < MESSAGE_QUEUE_SIZE
        /\ adding \in Messages
        /\ queue_head \in Slots
    BY SizeAssumption DEF PcKnowledge, TypeOK
  <1>2. queue_tail' = (queue_head + (queue_count + 1)) % MESSAGE_QUEUE_SIZE
    BY <1>1, SlotAdvance DEF RingIsConsistent, SlotAt
  <1>3. queue_tail' \in Slots
    <2>1. queue_count + 1 \in 0 .. MESSAGE_QUEUE_SIZE  BY <1>1, SizeAssumption
    <2> QED  BY <1>1, <1>2, <2>1, SlotInRange
  <1>4. TypeOK'
    <2>1. queue_count' \in 0 .. MESSAGE_QUEUE_SIZE  BY <1>1, SizeAssumption
    <2> QED  BY <1>1, <1>3, <2>1 DEF TypeOK, ProducerSteps, consumerVars
  <1>5. PcKnowledge'  BY <1>1 DEF PcKnowledge, consumerVars
  <1>6. \A i \in 0 .. queue_count - 1 :
          message_queue'[SlotAt(i)] = message_queue[SlotAt(i)]
    BY <1>1, TailOutsideWindow
  <1>7. RingIsConsistent'
    <2>1. queue_tail' = SlotAt(queue_count)'  BY <1>2 DEF SlotAt
    <2>2. message_queue'[queue_tail] \in Messages  BY <1>1 DEF TypeOK
    <2>3. ASSUME NEW i \in 0 .. queue_count' - 1
          PROVE  message_queue'[SlotAt(i)'] \in Messages
      <3>1. SlotAt(i)' = SlotAt(i)  BY DEF SlotAt
      <3>2. CASE i = queue_count
        BY <2>2, <3>1, <3>2 DEF RingIsConsistent
      <3>3. CASE i # queue_count
        <4>1. i \in 0 .. queue_count - 1  BY <1>1, <3>3
        <4> QED  BY <4>1, <3>1, <1>6 DEF RingIsConsistent
      <3> QED  BY <3>2, <3>3
    <2> QED  BY <2>1, <2>3 DEF RingIsConsistent
  <1>8. ServedMessageIsStable'
    <2> SUFFICES ASSUME consumer \in Serving PROVE ServedMessageIsStable'
      BY DEF ServedMessageIsStable, consumerVars
    <2>1. 0 \in 0 .. queue_count - 1  BY <1>1 DEF ServedMessageIsStable
    <2>2. message_queue'[queue_head] = message_queue[queue_head]
      BY <1>6, <2>1, HeadOfWindow
    <2> QED  BY <1>1, <2>2 DEF ServedMessageIsStable, consumerVars
  <1>9. NoLostWakeup'  BY DEF NoLostWakeup
  <1> QED  BY <1>4, <1>5, <1>7, <1>8, <1>9

(* Core 0 removes the message at the head.                                 *)
LEMMA RemoveIInv == IInv /\ Remove => IInv'
  <1> SUFFICES ASSUME IInv, Remove PROVE IInv'  OBVIOUS
  <1> USE DEF IInv, Remove
  <1>1. /\ queue_count \in 1 .. MESSAGE_QUEUE_SIZE
        /\ queue_count - 1 \in 0 .. MESSAGE_QUEUE_SIZE - 1
        /\ queue_head \in Slots
    BY SizeAssumption DEF PcKnowledge, TypeOK, Pointing
  <1>2. queue_head' \in Slots
    BY <1>1, SlotInRange, SizeAssumption DEF SlotAfter
  <1>3. TypeOK'
    <2>1. queue_count' \in 0 .. MESSAGE_QUEUE_SIZE  BY <1>1, SizeAssumption
    <2> QED  BY <1>2, <2>1 DEF TypeOK, ConsumerSteps, producerVars
  <1>4. PcKnowledge'
    <2>1. queue_count' < MESSAGE_QUEUE_SIZE  BY <1>1, SizeAssumption
    <2> QED  BY <2>1 DEF PcKnowledge, Pointing, producerVars
  <1>5. \A i \in 0 .. MESSAGE_QUEUE_SIZE - 1 : SlotAt(i)' = SlotAt(i + 1)
    BY <1>1, SlotShift DEF SlotAt
  <1>6. RingIsConsistent'
    <2>1. queue_tail' = SlotAt(queue_count)'
      <3>2. SlotAt(queue_count)' = SlotAt((queue_count - 1) + 1)
        <4>1. (queue_head' + queue_count') % MESSAGE_QUEUE_SIZE = SlotAt((queue_count - 1) + 1)
          BY <1>1, SlotShift DEF SlotAt
        <4> QED  BY <4>1 DEF SlotAt
      <3>3. (queue_count - 1) + 1 = queue_count  BY <1>1
      <3> QED  BY <3>2, <3>3 DEF RingIsConsistent
    <2>2. ASSUME NEW i \in 0 .. queue_count' - 1
          PROVE  message_queue'[SlotAt(i)'] \in Messages
      <3>1. i \in 0 .. MESSAGE_QUEUE_SIZE - 1 /\ i + 1 \in 0 .. queue_count - 1
        BY <1>1, SizeAssumption
      <3> QED  BY <3>1, <1>5 DEF RingIsConsistent
    <2> QED  BY <2>1, <2>2 DEF RingIsConsistent
  <1>7. ServedMessageIsStable'  BY DEF ServedMessageIsStable, Serving
  <1>8. NoLostWakeup'  BY DEF NoLostWakeup
  <1> QED  BY <1>3, <1>4, <1>6, <1>7, <1>8

(* Core 0 copies the uuid through its pointer.                             *)
LEMMA CopyUuidIInv == IInv /\ CopyUuid => IInv'
  <1> SUFFICES ASSUME IInv, CopyUuid PROVE IInv'  OBVIOUS
  <1> USE DEF IInv, CopyUuid
  <1>1. msg = queue_head /\ queue_count > 0  BY DEF PcKnowledge, Pointing
  <1>2. 0 \in 0 .. queue_count - 1  BY <1>1 DEF TypeOK
  <1>3. message_queue[msg] \in Messages
    BY <1>1, <1>2, HeadOfWindow DEF RingIsConsistent
  <1>4. TypeOK'
    BY <1>3 DEF TypeOK, ConsumerSteps, ringVars, producerVars
  <1>5. PcKnowledge'
    BY <1>1 DEF PcKnowledge, ringVars, producerVars
  <1>6. RingIsConsistent'  BY DEF RingIsConsistent, SlotAt, ringVars
  <1>7. ServedMessageIsStable'  BY <1>1, <1>3 DEF ServedMessageIsStable, ringVars
  <1>8. NoLostWakeup'  BY DEF NoLostWakeup
  <1> QED  BY <1>4, <1>5, <1>6, <1>7, <1>8

(* The steps that leave the ring as it is.                                 *)
LEMMA RingUnchangedIInv ==
    ASSUME IInv,
           \/ \E m \in Messages : AddCheck(m)
           \/ Notify \/ Wake \/ GetNothing \/ GetNext \/ UseMessage \/ RemoveCheck
           \/ UNCHANGED vars
    PROVE  IInv'
  <1> USE DEF IInv
  <1>1. UNCHANGED ringVars
    BY DEF AddCheck, Notify, Wake, GetNothing, GetNext, UseMessage, RemoveCheck, vars
  <1>2. RingIsConsistent'  BY <1>1 DEF RingIsConsistent, SlotAt, ringVars
  <1> USE DEF ringVars, producerVars, consumerVars
  <1>3. ASSUME NEW m \in Messages, AddCheck(m) PROVE IInv'
    <2>1. TypeOK'  BY <1>3 DEF AddCheck, TypeOK, ProducerSteps
    <2>2. PcKnowledge'  BY <1>3 DEF AddCheck, PcKnowledge
    <2> QED  BY <1>2, <1>3, <2>1, <2>2 DEF AddCheck, ServedMessageIsStable, NoLostWakeup
  <1>4. CASE Notify
    <2>1. TypeOK'  BY <1>4 DEF Notify, TypeOK, ProducerSteps
    <2>2. PcKnowledge'  BY <1>4 DEF Notify, PcKnowledge
    <2> QED  BY <1>2, <1>4, <2>1, <2>2 DEF Notify, ServedMessageIsStable, NoLostWakeup
  <1>5. CASE Wake
    <2>1. TypeOK'  BY <1>5 DEF Wake, TypeOK, ConsumerSteps
    <2>2. PcKnowledge'  BY <1>5 DEF Wake, PcKnowledge, Pointing
    <2> QED  BY <1>2, <1>5, <2>1, <2>2 DEF Wake, ServedMessageIsStable, Serving, NoLostWakeup
  <1>6. CASE GetNothing
    <2>1. TypeOK'  BY <1>6 DEF GetNothing, TypeOK, ConsumerSteps
    <2>2. PcKnowledge'  BY <1>6 DEF GetNothing, PcKnowledge, Pointing
    <2> QED
      BY <1>2, <1>6, <2>1, <2>2 DEF GetNothing, ServedMessageIsStable, Serving, NoLostWakeup
  <1>7. CASE GetNext
    <2>1. TypeOK'  BY <1>7 DEF GetNext, TypeOK, ConsumerSteps
    <2>2. PcKnowledge'  BY <1>7 DEF GetNext, PcKnowledge, TypeOK
    <2> QED
      BY <1>2, <1>7, <2>1, <2>2 DEF GetNext, ServedMessageIsStable, Serving, NoLostWakeup
  <1>8. CASE UseMessage
    <2>1. TypeOK'  BY <1>8 DEF UseMessage, TypeOK, ConsumerSteps
    <2>2. PcKnowledge'  BY <1>8 DEF UseMessage, PcKnowledge, Pointing
    <2> QED
      BY <1>2, <1>8, <2>1, <2>2 DEF UseMessage, ServedMessageIsStable, Serving, NoLostWakeup
  <1>9. CASE RemoveCheck
    <2>1. queue_count # 0 /\ consumer' = "remove" /\ UNCHANGED msg_uuid
      BY <1>9 DEF RemoveCheck, PcKnowledge, Pointing
    <2>2. TypeOK'  BY <1>9, <2>1 DEF RemoveCheck, TypeOK, ConsumerSteps
    <2>3. PcKnowledge'  BY <1>9, <2>1 DEF RemoveCheck, PcKnowledge, Pointing
    <2>4. ServedMessageIsStable'
      BY <1>9, <2>1 DEF RemoveCheck, ServedMessageIsStable, Serving
    <2> QED  BY <1>2, <2>1, <2>2, <2>3, <2>4 DEF NoLostWakeup
  <1>10. CASE UNCHANGED vars
    BY <1>2, <1>10 DEF vars, TypeOK, PcKnowledge, ServedMessageIsStable, NoLostWakeup
  <1> QED  BY <1>3, <1>4, <1>5, <1>6, <1>7, <1>8, <1>9, <1>10

(* No step of either core breaks IInv.                                     *)
LEMMA NextIInv == IInv /\ [Next]_vars => IInv'
  <1> SUFFICES ASSUME IInv, [Next]_vars PROVE IInv'  OBVIOUS
  <1> QED
    BY AddEnterIInv, AddExitIInv, RemoveIInv, CopyUuidIInv, RingUnchangedIInv
    DEF Next, Core1, Core0

(* IInv holds in every state the two cores can reach.                      *)
THEOREM Invariance == Spec => []IInv
  BY InitIInv, NextIInv, PTL DEF Spec, Safety

(* Every variable keeps its type: the indices stay inside the ring and the *)
(* count within its capacity, although the full check and the insertion    *)
(* are two critical sections.                                              *)
THEOREM TypeCorrect == Spec => []TypeOK
  <1>1. IInv => TypeOK  BY DEF IInv
  <1> QED  BY <1>1, Invariance, PTL

(* What Core 0 reads through its unlocked pointer is one whole message,    *)
(* the oldest of the queue, from the copy of its uuid to its removal.      *)
THEOREM ServedStable == Spec => []ServedMessageIsStable
  <1>1. IInv => ServedMessageIsStable  BY DEF IInv
  <1> QED  BY <1>1, Invariance, PTL

(* Head, tail and count describe one window of whole messages.             *)
THEOREM RingConsistent == Spec => []RingIsConsistent
  <1>1. IInv => RingIsConsistent  BY DEF IInv
  <1> QED  BY <1>1, Invariance, PTL

(* The task is never asleep over a message without a notification on its   *)
(* way.                                                                    *)
THEOREM WakeupNotLost == Spec => []NoLostWakeup
  <1>1. IInv => NoLostWakeup  BY DEF IInv
  <1> QED  BY <1>1, Invariance, PTL

-----------------------------------------------------------------------------
(* The ring buffer implements the abstract queue: each step of the two     *)
(* cores is a Put, a Take, a Complete or a stutter of FifoQueue.           *)

ServedMessage == IF consumer \in Serving THEN message_queue[msg] ELSE NoMessage

(* The window is a sequence, and its first message is at the head.         *)
LEMMA WindowIsSeq ==
    ASSUME IInv
    PROVE  /\ Window \in Seq(Messages)
           /\ Len(Window) = queue_count
           /\ queue_count > 0 => Head(Window) = message_queue[queue_head]
  <1> USE DEF IInv
  <1>1. queue_count \in Nat  BY SizeAssumption DEF TypeOK
  <1>2. \A i \in 1 .. queue_count : message_queue[SlotAt(i - 1)] \in Messages
    <2> SUFFICES ASSUME NEW i \in 1 .. queue_count
                 PROVE  message_queue[SlotAt(i - 1)] \in Messages
      OBVIOUS
    <2>1. i - 1 \in 0 .. queue_count - 1  BY <1>1
    <2> QED  BY <2>1 DEF RingIsConsistent
  <1>3. Window \in Seq(Messages) /\ Len(Window) = queue_count
    BY <1>1, <1>2 DEF Window
  <1>4. ASSUME queue_count > 0 PROVE Head(Window) = message_queue[queue_head]
    <2>1. Window[1] = message_queue[SlotAt(1 - 1)]  BY <1>1, <1>4 DEF Window
    <2> QED  BY <1>3, <2>1, HeadOfWindow
  <1> QED  BY <1>3, <1>4

(* The end of an insertion is a Put.                                       *)
LEMMA AddExitRefines == IInv /\ IInv' /\ AddExit => Fifo!Put(adding)
  <1> SUFFICES ASSUME IInv, IInv', AddExit PROVE Fifo!Put(adding)  OBVIOUS
  <1> USE DEF IInv, AddExit
  <1>1. queue_count < MESSAGE_QUEUE_SIZE /\ queue_count \in Nat
    BY SizeAssumption DEF PcKnowledge, TypeOK
  <1>2. Window \in Seq(Messages) /\ Len(Window) = queue_count  BY WindowIsSeq
  <1>3. message_queue'[SlotAt(queue_count)] = adding
    BY DEF RingIsConsistent, TypeOK
  <1>4. Window' = Append(Window, adding)
    <2>1. Window' = [i \in 1 .. queue_count + 1 |-> message_queue'[SlotAt(i - 1)]]
      BY DEF Window, SlotAt
    <2>2. ASSUME NEW i \in 1 .. queue_count + 1
          PROVE  message_queue'[SlotAt(i - 1)] = Append(Window, adding)[i]
      <3>1. CASE i = queue_count + 1
        <4>1. Append(Window, adding)[i] = adding  BY <1>1, <1>2, <3>1
        <4>2. i - 1 = queue_count  BY <1>1, <3>1
        <4> QED  BY <1>3, <4>1, <4>2
      <3>2. CASE i # queue_count + 1
        <4>1. i \in 1 .. queue_count /\ i - 1 \in 0 .. queue_count - 1  BY <1>1, <3>2
        <4>2. Append(Window, adding)[i] = Window[i]  BY <1>2, <4>1
        <4>3. Window[i] = message_queue[SlotAt(i - 1)]  BY <4>1 DEF Window
        <4>4. message_queue'[SlotAt(i - 1)] = message_queue[SlotAt(i - 1)]
          BY <1>1, <4>1, TailOutsideWindow
        <4> QED  BY <4>2, <4>3, <4>4
      <3> QED  BY <3>1, <3>2
    <2>3. /\ Append(Window, adding) \in Seq(Messages)
          /\ Len(Append(Window, adding)) = queue_count + 1
      BY <1>2 DEF PcKnowledge
    <2>4. \A i \in 1 .. queue_count + 1 : Append(Window, adding)[i] \in Messages
      BY <1>1, <2>3
    <2>5. \A i \in 1 .. queue_count + 1 : message_queue'[SlotAt(i - 1)] \in Messages
      BY <2>2, <2>4, Zenon
    <2>6. Window' \in Seq(Messages) /\ Len(Window') = queue_count + 1
      BY <1>1, <2>1, <2>5
    <2>7. \A i \in 1 .. queue_count + 1 : Window'[i] = Append(Window, adding)[i]
      BY <2>1, <2>2
    <2> QED  BY <2>3, <2>6, <2>7, SeqEqual
  <1>5. ServedMessage' = ServedMessage
    <2>1. CASE consumer \in Serving
      <3>1. message_queue'[msg'] = msg_uuid' /\ message_queue[msg] = msg_uuid
        BY <2>1 DEF ServedMessageIsStable, consumerVars
      <3> QED  BY <2>1, <3>1 DEF ServedMessage, consumerVars
    <2>2. CASE consumer \notin Serving
      BY <2>2 DEF ServedMessage, consumerVars
    <2> QED  BY <2>1, <2>2
  <1> QED  BY <1>1, <1>2, <1>4, <1>5 DEF Fifo!Put, ServedMessage

(* Copying the uuid takes the first message into service.                  *)
LEMMA CopyUuidRefines == IInv /\ IInv' /\ CopyUuid => Fifo!Take
  <1> SUFFICES ASSUME IInv, IInv', CopyUuid PROVE Fifo!Take  OBVIOUS
  <1> USE DEF IInv, CopyUuid
  <1>1. msg = queue_head /\ queue_count > 0  BY DEF PcKnowledge, Pointing
  <1>2. Window' = Window  BY DEF Window, SlotAt, ringVars
  <1>3. Window # <<>> /\ Head(Window) = message_queue[msg]
    BY <1>1, WindowIsSeq
  <1>4. ServedMessage = NoMessage /\ ServedMessage' = message_queue[msg]
    BY DEF ServedMessage, Serving, ringVars
  <1> QED  BY <1>2, <1>3, <1>4 DEF Fifo!Take, ServedMessage

(* Removing the message at the head completes it.                          *)
LEMMA RemoveRefines == IInv /\ IInv' /\ Remove => Fifo!Complete
  <1> SUFFICES ASSUME IInv, IInv', Remove PROVE Fifo!Complete  OBVIOUS
  <1> USE DEF IInv, Remove
  <1>1. queue_count \in 1 .. MESSAGE_QUEUE_SIZE /\ queue_head \in Slots
    BY SizeAssumption DEF PcKnowledge, TypeOK, Pointing
  <1>2. Window \in Seq(Messages) /\ Len(Window) = queue_count  BY WindowIsSeq
  <1>3. Window' = Tail(Window)
    <2>1. Window' = [i \in 1 .. queue_count - 1 |-> message_queue[SlotAt(i - 1)']]
      BY DEF Window, SlotAt
    <2>2. ASSUME NEW i \in 1 .. queue_count - 1
          PROVE  message_queue[SlotAt(i - 1)'] = Tail(Window)[i]
      <3>1. /\ i - 1 \in 0 .. MESSAGE_QUEUE_SIZE - 1
            /\ (i - 1) + 1 = i
            /\ i + 1 \in 1 .. queue_count
            /\ (i + 1) - 1 = i
        BY <1>1, SizeAssumption
      <3>2. SlotAt(i - 1)' = SlotAt(i)  BY <1>1, <3>1, SlotShift DEF SlotAt
      <3>3. Tail(Window)[i] = Window[i + 1]  BY <1>1, <1>2
      <3>4. Window[i + 1] = message_queue[SlotAt(i)]  BY <3>1 DEF Window
      <3> QED  BY <3>2, <3>3, <3>4
    <2>3. Tail(Window) \in Seq(Messages) /\ Len(Tail(Window)) = queue_count - 1
      BY <1>1, <1>2
    <2>4. \A i \in 1 .. queue_count - 1 : Tail(Window)[i] \in Messages
      BY <1>1, <2>3
    <2>5. \A i \in 1 .. queue_count - 1 : message_queue[SlotAt(i - 1)'] \in Messages
      BY <2>2, <2>4, Zenon
    <2>6. Window' \in Seq(Messages) /\ Len(Window') = queue_count - 1
      BY <1>1, <2>1, <2>5
    <2>7. \A i \in 1 .. queue_count - 1 : Window'[i] = Tail(Window)[i]
      BY <2>1, <2>2
    <2> QED  BY <2>3, <2>6, <2>7, SeqEqual
  <1>4. ServedMessage # NoMessage /\ ServedMessage' = NoMessage
    BY ValueAssumption DEF ServedMessage, Serving, ServedMessageIsStable
  <1> QED  BY <1>3, <1>4 DEF Fifo!Complete, ServedMessage

(* Every other step is a stutter.                                          *)
LEMMA StutterRefines ==
    ASSUME IInv, IInv',
           \/ \E m \in Messages : AddCheck(m)
           \/ AddEnter \/ Notify
           \/ Wake \/ GetNothing \/ GetNext \/ UseMessage \/ RemoveCheck
           \/ UNCHANGED vars
    PROVE  UNCHANGED Fifo!vars
  <1> USE DEF IInv
  <1>1. CASE AddEnter
    <2>1. queue_count < MESSAGE_QUEUE_SIZE /\ queue_count \in Nat
      BY <1>1, SizeAssumption DEF AddEnter, PcKnowledge, TypeOK
    <2>2. \A i \in 1 .. queue_count :
            message_queue'[SlotAt(i - 1)] = message_queue[SlotAt(i - 1)]
      <3> SUFFICES ASSUME NEW i \in 1 .. queue_count
                   PROVE  message_queue'[SlotAt(i - 1)] = message_queue[SlotAt(i - 1)]
        OBVIOUS
      <3>1. i - 1 \in 0 .. queue_count - 1  BY <2>1
      <3> QED  BY <1>1, <2>1, <3>1, TailOutsideWindow DEF AddEnter
    <2>3. Window' = Window  BY <1>1, <2>2 DEF AddEnter, Window, SlotAt
    <2>4. ServedMessage' = ServedMessage
      <3>1. CASE consumer \in Serving
        <4>1. message_queue'[msg'] = msg_uuid' /\ message_queue[msg] = msg_uuid
          BY <1>1, <3>1 DEF AddEnter, ServedMessageIsStable, consumerVars
        <4> QED  BY <1>1, <3>1, <4>1 DEF AddEnter, ServedMessage, consumerVars
      <3>2. CASE consumer \notin Serving
        BY <1>1, <3>2 DEF AddEnter, ServedMessage, consumerVars
      <3> QED  BY <3>1, <3>2
    <2> QED  BY <2>3, <2>4 DEF Fifo!vars, ServedMessage
  <1>2. CASE ~AddEnter
    <2>1. UNCHANGED ringVars
      BY <1>2 DEF AddCheck, Notify, Wake, GetNothing, GetNext, UseMessage, RemoveCheck, vars
    <2>2. Window' = Window  BY <2>1 DEF Window, SlotAt, ringVars
    <2>3. ServedMessage' = ServedMessage
      <3>1. CASE RemoveCheck
        <4>1. queue_count # 0  BY <3>1 DEF RemoveCheck, PcKnowledge, Pointing
        <4> QED  BY <2>1, <3>1, <4>1 DEF RemoveCheck, ServedMessage, Serving, ringVars
      <3>2. CASE ~RemoveCheck
        BY <1>2, <2>1, <3>2
        DEF AddCheck, Notify, Wake, GetNothing, GetNext, UseMessage, vars,
            ServedMessage, Serving, ringVars, consumerVars
      <3> QED  BY <3>1, <3>2
    <2> QED  BY <2>2, <2>3 DEF Fifo!vars, ServedMessage
  <1> QED  BY <1>1, <1>2

(* Every behaviour of the ring buffer is, through Window, a behaviour of   *)
(* the abstract queue: accepted messages are served once each and in the   *)
(* order of acceptance, and hold their place until they are complete.      *)
THEOREM Refinement == Spec => Fifo!Safety
  <1>1. Init => Fifo!Init
    <2> SUFFICES ASSUME Init PROVE Fifo!Init  OBVIOUS
    <2>1. Window = <<>>  BY DEF Init, Window
    <2> QED  BY <2>1 DEF Init, Fifo!Init, Serving
  <1>2. IInv /\ IInv' /\ [Next]_vars => [Fifo!Next]_(Fifo!vars)
    <2> SUFFICES ASSUME IInv, IInv', [Next]_vars PROVE [Fifo!Next]_(Fifo!vars)
      OBVIOUS
    <2>1. CASE AddExit
      <3>1. adding \in Messages  BY <2>1 DEF IInv, PcKnowledge, AddExit
      <3> QED  BY <2>1, <3>1, AddExitRefines DEF Fifo!Next
    <2>2. CASE CopyUuid  BY <2>2, CopyUuidRefines DEF Fifo!Next
    <2>3. CASE Remove  BY <2>3, RemoveRefines DEF Fifo!Next
    <2>4. CASE ~(AddExit \/ CopyUuid \/ Remove)
      BY <2>4, StutterRefines DEF Next, Core1, Core0
    <2> QED  BY <2>1, <2>2, <2>3, <2>4
  <1> QED  BY <1>1, <1>2, Invariance, PTL DEF Spec, Safety, Fifo!Safety
=============================================================================

------------------------- MODULE HostedDevice_proofs -------------------------
(***************************************************************************)
(* Theorems about a program that uses the library, for every program, line *)
(* and transmitter: any finite number of messages, any calls, time-outs    *)
(* and broken frames wherever they can strike, and any radio faults.       *)
(***************************************************************************)
EXTENDS HostedDevice, TransmissionTask_proofs, FiniteSetTheorems

-----------------------------------------------------------------------------
(* The inductive invariant, besides that of the device.                    *)

(* A send has a message, a query has none.                                 *)
CallInv ==
    /\ \A i \in 1 .. Len(line) : line[i].api \in Sends => line[i].uuid \in Uuids
    /\ call.api \in Queries => call.uuid = NoMessage

(* A packet of the device on its way to the program was sent, ...          *)
InboxTrue ==
    \A i \in 1 .. Len(inbox) : inbox[i].kind \in PacketKinds =>
        inbox[i].uuid \in Uuids /\ inbox[i].kind \in Packets(inbox[i].uuid)

(* ... and is there once.                                                  *)
InboxOnce ==
    \A i, j \in 1 .. Len(inbox) :
        inbox[i].kind \in PacketKinds /\ inbox[i] = inbox[j] => i = j

(* A call returned success for the end of its own transmission only.       *)
ResultTrue == \A u \in Uuids : result[u] = "transmitted" => "DONE" \in Packets(u)

Succeeded == {u \in Uuids : result[u] \in {"accepted", "transmitted"}}
Acked == {u \in Uuids : "ACK" \in Packets(u)}
Unread == {u \in Uuids : \E i \in 1 .. Len(inbox) : inbox[i] = Packet(u, "ACK")}

(* An acknowledgement is on its way, or was taken by the call that waits   *)
(* for the end, or by one that has succeeded.                              *)
AckInv ==
    Cardinality(Succeeded) + Cardinality(Unread) + (IF call.awaits = "end" THEN 1 ELSE 0)
        <= Cardinality(Acked)

HostInv ==
    /\ IInv
    /\ HostTypeOK
    /\ CallInv
    /\ InboxTrue
    /\ InboxOnce
    /\ ResultTrue
    /\ AckInv

(* Nothing was called, sent or read yet.                                   *)
LEMMA InitHostInv == HostInit => HostInv
  <1> SUFFICES ASSUME HostInit PROVE HostInv  OBVIOUS
  <1>1. IInv  BY InitIInv DEF HostInit
  <1>2. HostTypeOK  BY <1>1 DEF IInv, HostInit, HostTypeOK
  <1>3. CallInv  BY HostAssumption DEF HostInit, CallInv, NoCall, Queries
  <1>4. InboxTrue /\ InboxOnce /\ ResultTrue
    BY DEF HostInit, InboxTrue, InboxOnce, ResultTrue
  <1>5. Succeeded = {} /\ Unread = {}  BY DEF HostInit, Succeeded, Unread
  <1>6. Acked = {}
    <2> SUFFICES ASSUME NEW u \in Uuids PROVE "ACK" \notin Packets(u)  BY DEF Acked
    <2>1. events[u] = <<>>  BY DEF HostInit, Init
    <2> QED  BY <2>1 DEF Packets
  <1>7. AckInv  BY <1>5, <1>6, FS_EmptySet DEF HostInit, NoCall, AckInv
  <1> QED  BY <1>1, <1>2, <1>3, <1>4, <1>7 DEF HostInv

-----------------------------------------------------------------------------
(* Counting.                                                               *)

(* Every set of messages can be counted; a smaller one has no more, and    *)
(* one element makes a difference of at most one.                          *)
LEMMA Counting ==
    ASSUME NEW S, NEW T, S \subseteq Uuids, T \subseteq Uuids
    PROVE  /\ Cardinality(S) \in Nat
           /\ S \subseteq T => Cardinality(S) <= Cardinality(T)
           /\ \A a : S \subseteq T \union {a} => Cardinality(S) <= Cardinality(T) + 1
           /\ \A a : a \in T /\ S \subseteq T \ {a} => Cardinality(S) <= Cardinality(T) - 1
  <1>1. IsFiniteSet(S) /\ IsFiniteSet(T)
    BY HostAssumption, FS_Subset
  <1>2. Cardinality(S) \in Nat /\ Cardinality(T) \in Nat
    BY <1>1, FS_CardinalityType
  <1>3. S \subseteq T => Cardinality(S) <= Cardinality(T)
    BY <1>1, FS_Subset
  <1>4. ASSUME NEW a, S \subseteq T \union {a}
        PROVE  Cardinality(S) <= Cardinality(T) + 1
    <2>1. IsFiniteSet(T \union {a}) /\ Cardinality(T \union {a}) \in {Cardinality(T), Cardinality(T) + 1}
      BY <1>1, FS_AddElement
    <2>2. Cardinality(S) <= Cardinality(T \union {a})
      BY <1>4, <2>1, FS_Subset
    <2> QED  BY <2>1, <2>2, <1>2
  <1>5. ASSUME NEW a, a \in T, S \subseteq T \ {a}
        PROVE  Cardinality(S) <= Cardinality(T) - 1
    <2>1. IsFiniteSet(T \ {a}) /\ Cardinality(T \ {a}) = Cardinality(T) - 1
      BY <1>1, <1>5, FS_RemoveElement
    <2>2. Cardinality(S) <= Cardinality(T \ {a})
      BY <1>5, <2>1, FS_Subset
    <2> QED  BY <2>1, <2>2
  <1> QED  BY <1>2, <1>3, <1>4, <1>5

-----------------------------------------------------------------------------
(* The input of the program.                                               *)

(* What the program does to its input: a packet is read or broken, or all  *)
(* that is there is flushed.                                               *)
InputShrinks ==
    \/ inbox' \in {inbox, <<>>, <<Broken>>}
    \/ inbox # <<>> /\ inbox' \in {Tail(inbox), <<Broken>> \o Tail(inbox)}

(* A packet read, or broken, or flushed with all others, leaves the rest   *)
(* of the input as true and as single as it was.                           *)
LEMMA FewerPackets ==
    ASSUME HostTypeOK, InboxTrue, InboxOnce,
           \A u \in Uuids : Packets(u)' = Packets(u),
           InputShrinks
    PROVE  /\ inbox' \in Seq([uuid : Uuids \union {NoMessage}, kind : Kinds])
           /\ InboxTrue' /\ InboxOnce'
           /\ Unread' \subseteq Unread
  <1>0. inbox \in Seq([uuid : Uuids \union {NoMessage}, kind : Kinds])
        /\ Broken \in [uuid : Uuids \union {NoMessage}, kind : Kinds]
        /\ Broken.kind \notin PacketKinds
    BY DEF HostTypeOK, Broken, Packet, Kinds, PacketKinds
  <1>1. Len(inbox) \in Nat  BY <1>0
  <1>2. ASSUME inbox # <<>>, inbox' = Tail(inbox)
        PROVE  /\ inbox' \in Seq([uuid : Uuids \union {NoMessage}, kind : Kinds])
               /\ InboxTrue' /\ InboxOnce' /\ Unread' \subseteq Unread
    <2>1. /\ inbox' \in Seq([uuid : Uuids \union {NoMessage}, kind : Kinds])
          /\ Len(inbox') = Len(inbox) - 1
          /\ \A i \in 1 .. Len(inbox') : inbox'[i] = inbox[i + 1] /\ i + 1 \in 1 .. Len(inbox)
      BY <1>0, <1>2
    <2>2. InboxTrue'  BY <2>1 DEF InboxTrue
    <2>3. ASSUME NEW i \in 1 .. Len(inbox'), NEW j \in 1 .. Len(inbox'),
                 inbox'[i].kind \in PacketKinds, inbox'[i] = inbox'[j]
          PROVE  i = j
      <3>1. inbox[i + 1].kind \in PacketKinds /\ inbox[i + 1] = inbox[j + 1]  BY <2>1, <2>3
      <3>2. i + 1 \in 1 .. Len(inbox) /\ j + 1 \in 1 .. Len(inbox)  BY <2>1
      <3>3. i + 1 = j + 1  BY <3>1, <3>2 DEF InboxOnce
      <3> QED  BY <3>3
    <2>5. InboxOnce'  BY <2>3 DEF InboxOnce
    <2>4. Unread' \subseteq Unread  BY <2>1 DEF Unread
    <2> QED  BY <2>1, <2>2, <2>5, <2>4
  <1>3. ASSUME inbox # <<>>, inbox' = <<Broken>> \o Tail(inbox)
        PROVE  /\ inbox' \in Seq([uuid : Uuids \union {NoMessage}, kind : Kinds])
               /\ InboxTrue' /\ InboxOnce' /\ Unread' \subseteq Unread
    <2>1. /\ inbox' \in Seq([uuid : Uuids \union {NoMessage}, kind : Kinds])
          /\ Len(inbox') = Len(inbox)
          /\ inbox'[1] = Broken
          /\ \A i \in 2 .. Len(inbox') : inbox'[i] = inbox[i]
      BY <1>0, <1>3
    <2>2. \A i \in 1 .. Len(inbox') : inbox'[i].kind \in PacketKinds
                => i \in 1 .. Len(inbox) /\ inbox'[i] = inbox[i]
      BY <2>1, <1>0, <1>1
    <2>3. InboxTrue'  BY <2>2 DEF InboxTrue
    <2>4. InboxOnce'  BY <2>2 DEF InboxOnce
    <2>5. Unread' \subseteq Unread  BY <2>2 DEF Unread, Packet, PacketKinds
    <2> QED  BY <2>1, <2>3, <2>4, <2>5
  <1>4. CASE inbox' = inbox
    BY <1>0, <1>4 DEF InboxTrue, InboxOnce, Unread
  <1>5. CASE inbox' = <<>>
    BY <1>5 DEF InboxTrue, InboxOnce, Unread
  <1>6. CASE inbox' = <<Broken>>
    <2>1. Len(inbox') = 1 /\ inbox'[1] = Broken
          /\ inbox' \in Seq([uuid : Uuids \union {NoMessage}, kind : Kinds])
      BY <1>0, <1>6
    <2>0. \A i \in 1 .. Len(inbox') : i = 1  BY <2>1
    <2>2. \A i \in 1 .. Len(inbox') : inbox'[i].kind \notin PacketKinds
      BY <2>1, <2>0, <1>0, Zenon
    <2>3. InboxTrue' /\ InboxOnce'  BY <2>2 DEF InboxTrue, InboxOnce
    <2>4. Unread' \subseteq Unread  BY <2>2 DEF Unread, Packet, PacketKinds
    <2> QED  BY <2>1, <2>3, <2>4
  <1> QED  BY <1>2, <1>3, <1>4, <1>5, <1>6 DEF InputShrinks

(* An acknowledgement that was read is not there any more.                 *)
LEMMA AckRead ==
    ASSUME HostTypeOK, InboxTrue, InboxOnce,
           inbox # <<>>, inbox' = Tail(inbox), Head(inbox).kind = "ACK"
    PROVE  \E u \in Uuids : u \in Unread /\ u \notin Unread'
  <1>0. inbox \in Seq([uuid : Uuids \union {NoMessage}, kind : Kinds])
    BY DEF HostTypeOK
  <1>1. /\ Len(inbox) \in Nat /\ 1 \in 1 .. Len(inbox) /\ Head(inbox) = inbox[1]
        /\ Len(inbox') = Len(inbox) - 1
        /\ \A i \in 1 .. Len(inbox') : inbox'[i] = inbox[i + 1] /\ i + 1 \in 1 .. Len(inbox)
    BY <1>0
  <1>2. inbox[1] \in [uuid : Uuids \union {NoMessage}, kind : Kinds]
    BY <1>0, <1>1, ElementOfSeq
  <1>3. inbox[1].uuid \in Uuids /\ "ACK" \in PacketKinds
    BY <1>1 DEF InboxTrue, PacketKinds
  <1>4. PICK u \in Uuids : u = inbox[1].uuid  BY <1>3
  <1>5. inbox[1] = Packet(u, "ACK")  BY <1>1, <1>2, <1>4 DEF Packet
  <1>6. u \in Unread  BY <1>1, <1>5 DEF Unread
  <1>7. ASSUME NEW i \in 1 .. Len(inbox'), inbox'[i] = Packet(u, "ACK")
        PROVE  FALSE
    <2>1. inbox[i + 1] = inbox[1] /\ i + 1 \in 1 .. Len(inbox)  BY <1>1, <1>5, <1>7
    <2>2. inbox[1].kind \in PacketKinds  BY <1>1, <1>3
    <2>3. i + 1 = 1  BY <1>1, <2>1, <2>2 DEF InboxOnce
    <2> QED  BY <2>3
  <1>8. u \notin Unread'  BY <1>7 DEF Unread
  <1> QED  BY <1>6, <1>8

-----------------------------------------------------------------------------
(* The program.                                                            *)

(* What a call that returns does to the results.                           *)
LEMMA ReturnEffect ==
    ASSUME HostTypeOK, CallInv, call \in Call, NEW how, Return(how),
           \/ call.api \in Queries
           \/ how \in {"accepted", "transmitted", "failed", "timeout"}
    PROVE  /\ call' = NoCall
           /\ result' \in [Uuids -> {"none", "calling", "accepted", "transmitted",
                                     "failed", "timeout"}]
           /\ Succeeded' \subseteq Succeeded \union {call.uuid}
           /\ how \notin {"accepted", "transmitted"} => Succeeded' \subseteq Succeeded
           /\ \A u \in Uuids : result'[u] = "transmitted" =>
                   result[u] = "transmitted" \/ (how = "transmitted" /\ u = call.uuid)
  <1>0. result \in [Uuids -> {"none", "calling", "accepted", "transmitted",
                              "failed", "timeout"}]
        /\ call.uuid \in Uuids \union {NoMessage}
    BY DEF HostTypeOK, Call
  <1>1. CASE call.uuid = NoMessage
    <2>1. result' = result /\ call' = NoCall  BY <1>1 DEF Return
    <2> QED  BY <1>0, <2>1 DEF Succeeded
  <1>2. CASE call.uuid # NoMessage
    <2>1. PICK u \in Uuids : u = call.uuid  BY <1>0, <1>2
    <2>2. how \in {"accepted", "transmitted", "failed", "timeout"}
      BY <1>2 DEF CallInv
    <2>3. result' = [result EXCEPT ![u] = how] /\ call' = NoCall
      BY <1>2, <2>1 DEF Return
    <2>4. result' \in [Uuids -> {"none", "calling", "accepted", "transmitted",
                                 "failed", "timeout"}]
      BY <1>0, <2>2, <2>3
    <2>5. \A v \in Uuids : result'[v] = IF v = u THEN how ELSE result[v]
      BY <1>0, <2>3
    <2> QED  BY <2>1, <2>3, <2>4, <2>5 DEF Succeeded
  <1> QED  BY <1>1, <1>2

(* How a step of the program changes the count: no more is taken than      *)
(* there was, an acknowledgement is read, or the wait for the end is over. *)
CountsOn ==
    \/ /\ Succeeded' \subseteq Succeeded /\ Unread' \subseteq Unread
       /\ call'.awaits = "end" => call.awaits = "end"
    \/ /\ call.awaits = "answer"
       /\ \E u \in Uuids : u \in Unread /\ Unread' \subseteq Unread \ {u}
       /\ \/ Succeeded' = Succeeded
          \/ call'.awaits # "end" /\ \E u : Succeeded' \subseteq Succeeded \union {u}
    \/ /\ call.awaits = "end" /\ call'.awaits # "end" /\ Unread' \subseteq Unread
       /\ \E u : Succeeded' \subseteq Succeeded \union {u}

(* Each of them keeps the balance, as long as no acknowledgement is        *)
(* forgotten.                                                              *)
LEMMA CountKept ==
    ASSUME AckInv, CountsOn, Acked' = Acked
    PROVE  AckInv'
  <1>0. /\ Succeeded \subseteq Uuids /\ Unread \subseteq Uuids /\ Acked \subseteq Uuids
        /\ Succeeded' \subseteq Uuids /\ Unread' \subseteq Uuids
    BY DEF Succeeded, Unread, Acked
  <1>1. /\ Cardinality(Succeeded) \in Nat /\ Cardinality(Unread) \in Nat
        /\ Cardinality(Acked) \in Nat
        /\ Cardinality(Succeeded') \in Nat /\ Cardinality(Unread') \in Nat
    BY <1>0, Counting
  <1>2. /\ Succeeded' \subseteq Succeeded => Cardinality(Succeeded') <= Cardinality(Succeeded)
        /\ Unread' \subseteq Unread => Cardinality(Unread') <= Cardinality(Unread)
    BY <1>0, Counting
  <1>3. \A u : Succeeded' \subseteq Succeeded \union {u}
                 => Cardinality(Succeeded') <= Cardinality(Succeeded) + 1
    BY <1>0, Counting
  <1>4. \A u : u \in Unread /\ Unread' \subseteq Unread \ {u}
                 => Cardinality(Unread') <= Cardinality(Unread) - 1
    BY <1>0, Counting
  <1>5. Cardinality(Acked)' = Cardinality(Acked)  OBVIOUS
  <1> DEFINE s == Cardinality(Succeeded)
             n == Cardinality(Unread)
             a == Cardinality(Acked)
  <1>6. s + n + (IF call.awaits = "end" THEN 1 ELSE 0) <= a  BY DEF AckInv
  <1>7. s' + n' + (IF call'.awaits = "end" THEN 1 ELSE 0) <= a'
    <2>1. s \in Nat /\ n \in Nat /\ a \in Nat /\ s' \in Nat /\ n' \in Nat /\ a' = a
      BY <1>1, <1>5
    <2>2. CASE s' <= s /\ n' <= n /\ (call'.awaits = "end" => call.awaits = "end")
      BY <1>6, <2>1, <2>2
    <2>3. CASE call.awaits = "answer" /\ n' <= n - 1
                 /\ (s' <= s \/ (call'.awaits # "end" /\ s' <= s + 1))
      BY <1>6, <2>1, <2>3
    <2>4. CASE call.awaits = "end" /\ call'.awaits # "end" /\ n' <= n /\ s' <= s + 1
      BY <1>6, <2>1, <2>4
    <2> HIDE DEF s, n, a
    <2>5. Succeeded' = Succeeded => s' <= s  BY <1>1 DEF s
    <2>6. CountsOn => \/ s' <= s /\ n' <= n /\ (call'.awaits = "end" => call.awaits = "end")
                      \/ call.awaits = "answer" /\ n' <= n - 1
                           /\ (s' <= s \/ (call'.awaits # "end" /\ s' <= s + 1))
                      \/ call.awaits = "end" /\ call'.awaits # "end" /\ n' <= n /\ s' <= s + 1
      BY <1>2, <1>3, <1>4, <2>5, Zenon DEF CountsOn, s, n
    <2> QED  BY <2>2, <2>3, <2>4, <2>6
  <1> QED  BY <1>7 DEF AckInv

(* What a step of the program leaves behind.                               *)
Proceeds ==
    /\ InputShrinks
    /\ port' \in {"open", "closed"}
    /\ line' \in Seq([api : Calls, uuid : Uuids \union {NoMessage}])
    /\ call' \in Call \union {NoCall}
    /\ result' \in [Uuids -> {"none", "calling", "accepted", "transmitted",
                              "failed", "timeout"}]
    /\ CallInv' /\ ResultTrue' /\ CountsOn

(* Every step of the program, by what it does to the call, to the input    *)
(* and to the results.                                                     *)
LEMMA ProgramOutline ==
    ASSUME HostInv, Program
    PROVE  UNCHANGED vars /\ Proceeds
  <1> USE DEF deviceVars
  <1>0. /\ HostTypeOK /\ CallInv /\ InboxTrue /\ InboxOnce /\ ResultTrue
        /\ port \in {"open", "closed"} /\ call \in Call \union {NoCall}
        /\ line \in Seq([api : Calls, uuid : Uuids \union {NoMessage}])
        /\ inbox \in Seq([uuid : Uuids \union {NoMessage}, kind : Kinds])
        /\ result \in [Uuids -> {"none", "calling", "accepted", "transmitted",
                                 "failed", "timeout"}]
    BY DEF HostInv, HostTypeOK
  <1>a. UNCHANGED vars
    BY DEF Program, Open, Close, CallSend, CallQuery, Begin, SendAnswered, SendWaitAnswered,
           QueryAnswered, AnswerTimesOut, EventSeen, EventBroken, EventTimesOut, Read,
           MissPacket
  <1>b. \A u \in Uuids : Packets(u)' = Packets(u)  BY <1>a, SilentPackets DEF vars
  <1>c. NoCall.awaits = "nothing" /\ NoCall.api \notin Calls /\ NoCall.uuid = NoMessage
    BY HostAssumption DEF NoCall
  <1>d. call.awaits # "nothing" => call \in Call  BY <1>0, <1>c
  <1>1. CASE Open \/ Close
    <2>1. UNCHANGED <<call, line, result>> /\ port' \in {"open", "closed"}
          /\ InputShrinks
      BY <1>1 DEF Open, Close, InputShrinks
    <2>2. Unread' \subseteq Unread  BY <1>0, <1>b, <2>1, FewerPackets
    <2>3. CallInv' /\ ResultTrue' /\ Succeeded' = Succeeded
      BY <1>0, <1>b, <2>1 DEF CallInv, ResultTrue, Succeeded
    <2>4. CountsOn  BY <2>1, <2>2, <2>3 DEF CountsOn
    <2> QED  BY <1>0, <1>a, <2>1, <2>3, <2>4 DEF Proceeds
  <1>2. ASSUME NEW api \in Calls, NEW u \in Uuids \union {NoMessage}, Begin(api, u),
               api \in Sends => u \in Uuids, api \in Queries => u = NoMessage,
               \/ UNCHANGED result
               \/ u \in Uuids /\ result' = [result EXCEPT ![u] = "calling"]
        PROVE  Proceeds
    <2>1. /\ inbox' = inbox /\ InputShrinks /\ port' = port /\ call = NoCall
          /\ call' = [api |-> api, uuid |-> u, awaits |-> "answer"]
          /\ line' = Append(line, [api |-> api, uuid |-> u])
      BY <1>2 DEF Begin, InputShrinks
    <2>2. call' \in Call /\ call'.awaits = "answer"  BY <2>1 DEF Call
    <2>3. line' \in Seq([api : Calls, uuid : Uuids \union {NoMessage}])
      BY <1>0, <2>1
    <2>4. CallInv'
      <3>1. \A i \in 1 .. Len(line') : line'[i] = [api |-> api, uuid |-> u]
                                       \/ (i \in 1 .. Len(line) /\ line'[i] = line[i])
        BY <1>0, <2>1
      <3>2. \A i \in 1 .. Len(line') : line'[i].api \in Sends => line'[i].uuid \in Uuids
        BY <3>1, <1>0, <1>2 DEF CallInv
      <3> QED  BY <3>2, <2>1, <1>2 DEF CallInv
    <2>5. result' \in [Uuids -> {"none", "calling", "accepted", "transmitted",
                                 "failed", "timeout"}]
          /\ \A v \in Uuids : result'[v] \in {result[v], "calling"}
      BY <1>0, <1>2
    <2>6. ResultTrue'  BY <1>0, <1>b, <2>5 DEF ResultTrue
    <2>7. Succeeded' \subseteq Succeeded  BY <2>5 DEF Succeeded
    <2>8. Unread' = Unread  BY <2>1 DEF Unread
    <2>9. CountsOn  BY <2>2, <2>7, <2>8 DEF CountsOn
    <2> QED  BY <1>0, <2>1, <2>2, <2>3, <2>4, <2>5, <2>6, <2>9 DEF Proceeds
  <1>3. ASSUME NEW u \in Uuids, NEW api \in Sends, CallSend(api, u)
        PROVE  Proceeds
    BY <1>2, <1>3 DEF CallSend, Sends, Queries
  <1>4. ASSUME NEW api \in Queries, CallQuery(api)
        PROVE  Proceeds
    BY <1>2, <1>4 DEF CallQuery, Sends, Queries
  <1>5. ASSUME call \in Call, NEW how, Return(how),
               call.api \in Queries \/ how \in {"failed", "timeout"},
               how \notin {"accepted", "transmitted"},
               UNCHANGED <<port, line>>,
               InputShrinks
        PROVE  Proceeds
    <2>1. Unread' \subseteq Unread  BY <1>0, <1>b, <1>5, FewerPackets
    <2>2. /\ call' = NoCall
          /\ result' \in [Uuids -> {"none", "calling", "accepted", "transmitted",
                                    "failed", "timeout"}]
          /\ Succeeded' \subseteq Succeeded
          /\ \A u \in Uuids : result'[u] = "transmitted" => result[u] = "transmitted"
      BY <1>0, <1>5, ReturnEffect
    <2>3. CallInv'  BY <1>0, <1>5, <1>c, <2>2 DEF CallInv
    <2>4. ResultTrue'  BY <1>0, <1>b, <2>2 DEF ResultTrue
    <2>5. CountsOn  BY <1>c, <2>1, <2>2 DEF CountsOn
    <2> QED  BY <1>0, <1>5, <2>2, <2>3, <2>4, <2>5 DEF Proceeds
  <1>6. ASSUME Read("answer"), Head(inbox).kind = "ACK"
        PROVE  /\ call \in Call /\ UNCHANGED <<port, line>>
               /\ InputShrinks
               /\ call.awaits = "answer"
               /\ \E u \in Uuids : u \in Unread /\ Unread' \subseteq Unread \ {u}
    <2>1. /\ call \in Call /\ UNCHANGED <<port, line>>
          /\ inbox # <<>> /\ inbox' = Tail(inbox)
          /\ InputShrinks
          /\ call.awaits = "answer"
      BY <1>6, <1>d DEF Read, InputShrinks
    <2>2. Unread' \subseteq Unread  BY <1>0, <1>b, <2>1, FewerPackets
    <2>3. PICK u \in Uuids : u \in Unread /\ u \notin Unread'
      BY <1>0, <1>6, <2>1, AckRead
    <2> QED  BY <2>1, <2>2, <2>3
  <1>7. CASE SendAnswered
    <2>1. CASE Head(inbox).kind = "ACK"
      <3>1. Read("answer") /\ Return("accepted")  BY <1>7, <2>1 DEF SendAnswered
      <3>2. /\ call \in Call /\ UNCHANGED <<port, line>>
            /\ InputShrinks
            /\ call.awaits = "answer"
            /\ \E u \in Uuids : u \in Unread /\ Unread' \subseteq Unread \ {u}
        BY <1>6, <2>1, <3>1
      <3>3. /\ call' = NoCall
            /\ result' \in [Uuids -> {"none", "calling", "accepted", "transmitted",
                                      "failed", "timeout"}]
            /\ Succeeded' \subseteq Succeeded \union {call.uuid}
            /\ \A u \in Uuids : result'[u] = "transmitted" => result[u] = "transmitted"
        BY <1>0, <3>1, <3>2, ReturnEffect
      <3>4. CallInv'  BY <1>0, <1>c, <3>2, <3>3 DEF CallInv
      <3>5. ResultTrue'  BY <1>0, <1>b, <3>3 DEF ResultTrue
      <3>6. CountsOn  BY <1>c, <3>2, <3>3 DEF CountsOn
      <3> QED  BY <1>a, <1>0, <3>2, <3>3, <3>4, <3>5, <3>6 DEF Proceeds
    <2>2. CASE Head(inbox).kind # "ACK"
      BY <1>5, <1>7, <2>2, <1>d DEF SendAnswered, Read, InputShrinks
    <2> QED  BY <2>1, <2>2
  <1>8. CASE SendWaitAnswered
    <2>1. CASE Head(inbox).kind = "ACK"
      <3>1. Read("answer") /\ call' = [call EXCEPT !.awaits = "end"] /\ UNCHANGED result
        BY <1>8, <2>1 DEF SendWaitAnswered
      <3>2. /\ call \in Call /\ UNCHANGED <<port, line>>
            /\ InputShrinks
            /\ call.awaits = "answer"
            /\ \E u \in Uuids : u \in Unread /\ Unread' \subseteq Unread \ {u}
        BY <1>6, <2>1, <3>1
      <3>3. call' \in Call /\ call'.api = call.api /\ call'.uuid = call.uuid
        BY <3>1, <3>2 DEF Call
      <3>4. CallInv' /\ ResultTrue' /\ Succeeded' = Succeeded
        BY <1>0, <1>b, <3>1, <3>2, <3>3 DEF CallInv, ResultTrue, Succeeded
      <3>5. CountsOn  BY <3>2, <3>4 DEF CountsOn
      <3> QED  BY <1>a, <1>0, <3>1, <3>2, <3>3, <3>4, <3>5 DEF Proceeds
    <2>2. CASE Head(inbox).kind # "ACK"
      BY <1>5, <1>8, <2>2, <1>d DEF SendWaitAnswered, Read, InputShrinks
    <2> QED  BY <2>1, <2>2
  <1>9. CASE QueryAnswered
    BY <1>5, <1>9, <1>d DEF QueryAnswered, Read, InputShrinks
  <1>10. CASE AnswerTimesOut
    BY <1>5, <1>10, <1>d DEF AnswerTimesOut, MissPacket, InputShrinks
  <1>11. ASSUME call.awaits = "end", UNCHANGED <<port, line, call, result>>,
                InputShrinks
         PROVE  Proceeds
    <2>1. Unread' \subseteq Unread  BY <1>0, <1>b, <1>11, FewerPackets
    <2>2. CallInv' /\ ResultTrue' /\ Succeeded' = Succeeded
      BY <1>0, <1>b, <1>11 DEF CallInv, ResultTrue, Succeeded
    <2>3. CountsOn  BY <1>11, <2>1, <2>2 DEF CountsOn
    <2> QED  BY <1>0, <1>11, <2>2, <2>3 DEF Proceeds
  <1>12. CASE EventSeen
    <2>0. /\ call.awaits = "end" /\ call \in Call /\ UNCHANGED <<port, line>>
          /\ inbox # <<>> /\ InputShrinks
      BY <1>12, <1>d DEF EventSeen, Read, InputShrinks
    <2>1. CASE Head(inbox) = Packet(call.uuid, "DONE")
      <3>1. Return("transmitted")  BY <1>12, <2>1 DEF EventSeen, Packet
      <3>2. 1 \in 1 .. Len(inbox) /\ Head(inbox) = inbox[1]  BY <1>0, <2>0
      <3>3. call.uuid \in Uuids /\ "DONE" \in Packets(call.uuid)
        BY <1>0, <2>1, <3>2 DEF InboxTrue, Packet, PacketKinds
      <3>4. /\ call' = NoCall
            /\ result' \in [Uuids -> {"none", "calling", "accepted", "transmitted",
                                      "failed", "timeout"}]
            /\ Succeeded' \subseteq Succeeded \union {call.uuid}
            /\ \A u \in Uuids : result'[u] = "transmitted" =>
                                  result[u] = "transmitted" \/ u = call.uuid
        BY <1>0, <2>0, <3>1, ReturnEffect
      <3>5. CallInv'  BY <1>0, <1>c, <2>0, <3>4 DEF CallInv
      <3>6. ResultTrue'
        <4>1. \A u \in Uuids : result'[u] = "transmitted" => "DONE" \in Packets(u)
          BY <1>0, <3>3, <3>4 DEF ResultTrue
        <4> QED  BY <4>1, <1>b DEF ResultTrue
      <3>7. Unread' \subseteq Unread  BY <1>0, <1>b, <2>0, FewerPackets
      <3>8. CountsOn  BY <1>c, <2>0, <3>4, <3>7 DEF CountsOn
      <3> QED  BY <1>a, <1>0, <2>0, <3>4, <3>5, <3>6, <3>8 DEF Proceeds
    <2>2. CASE Head(inbox) # Packet(call.uuid, "DONE")
               /\ Head(inbox) = Packet(call.uuid, "FAILED")
      <3>1. Return("failed")  BY <1>12, <2>2 DEF EventSeen
      <3> QED  BY <1>a, <1>5, <2>0, <3>1
    <2>3. CASE Head(inbox) # Packet(call.uuid, "DONE")
               /\ Head(inbox) # Packet(call.uuid, "FAILED")
      <3>1. UNCHANGED <<call, result>>  BY <1>12, <2>3 DEF EventSeen
      <3> QED  BY <1>a, <1>11, <2>0, <3>1
    <2> QED  BY <2>1, <2>2, <2>3
  <1>13. CASE EventBroken
    BY <1>5, <1>13, <1>d DEF EventBroken, Read, InputShrinks
  <1>14. CASE EventTimesOut
    BY <1>5, <1>11, <1>14, <1>d DEF EventTimesOut, MissPacket, InputShrinks
  <1> QED  BY <1>a, <1>1, <1>3, <1>4, <1>7, <1>8, <1>9, <1>10, <1>12, <1>13, <1>14
           DEF Program

-----------------------------------------------------------------------------
(* The transmitter.                                                        *)

(* Each of its steps sends one packet about one message, or none.          *)
LEMMA DeviceSends ==
    ASSUME IInv, Core0 \/ FifoInterrupt \/ Binary
    PROVE  \/ UNCHANGED events
           \/ \E u \in Uuids, p \in PacketKinds :
                events' = [events EXCEPT ![u] = Append(@, p)]
  <1>0. TypeOK /\ TaskInv /\ AddingInv  BY DEF IInv
  <1>1. ASSUME NEW m \in Message, NEW p \in PacketKinds, Emit(m.uuid, p)
        PROVE  \/ UNCHANGED events
               \/ \E u \in Uuids, q \in PacketKinds :
                    events' = [events EXCEPT ![u] = Append(@, q)]
    <2>1. m.uuid \in Uuids  BY DEF Message
    <2> QED  BY <1>1, <2>1 DEF Emit
  <1>2. CASE ReportFailure \/ AnnounceStart \/ ReportOutcome
    <2>1. serving \in Message
      BY <1>0, <1>2 DEF TypeOK, SharedTypes, TaskInv, ReportFailure, AnnounceStart, ReportOutcome
    <2>2. \E p \in PacketKinds : Emit(serving.uuid, p)
      BY <1>2 DEF ReportFailure, AnnounceStart, ReportOutcome, PacketKinds
    <2> QED  BY <1>1, <2>1, <2>2
  <1>3. CASE RefuseSendFlex \/ SendAck \/ SendQueued
    <2>1. adding \in Message
      BY <1>0, <1>3 DEF AddingInv, RefuseSendFlex, SendAck, SendQueued
    <2>2. \E p \in PacketKinds : Emit(adding.uuid, p)
      BY <1>3 DEF RefuseSendFlex, SendAck, SendQueued, PacketKinds
    <2> QED  BY <1>1, <2>1, <2>2
  <1>4. ASSUME NEW u \in Uuids, RejectSendFlex(u)
        PROVE  \E p \in PacketKinds : events' = [events EXCEPT ![u] = Append(@, p)]
    BY <1>4 DEF RejectSendFlex, PacketKinds
  <1>5. CASE UNCHANGED events  BY <1>5
  <1> QED
    BY <1>2, <1>3, <1>4, <1>5
    DEF Core0, TakeMessage, TuneRadio, TuneFails, Encode, EncodeFails, EnterTransmitting,
        SendEmr, StartRadio, FeedFifo, WindDown, RemoveMessage, FifoInterrupt, Binary,
        ReceiveSendFlex, QueueAlert, AddSendFlex, AnswerCommand

(* The news of a step is the packet it sent, ...                           *)
LEMMA NewsOfStep ==
    ASSUME events \in [Uuids -> Seq(PacketKinds)], NEW u \in Uuids, NEW p \in PacketKinds,
           events' = [events EXCEPT ![u] = Append(@, p)]
    PROVE  News = <<Packet(u, p)>>
  <1>1. /\ events'[u] = Append(events[u], p) /\ events[u] \in Seq(PacketKinds)
        /\ \A v \in Uuids \ {u} : events'[v] = events[v]
    OBVIOUS
  <1>2. events'[u][Len(events'[u])] = p /\ events'[u] # events[u]
    BY <1>1
  <1>3. {v \in Uuids : events'[v] # events[v]} = {u}  BY <1>1, <1>2
  <1>4. (CHOOSE v \in {u} : TRUE) = u  OBVIOUS
  <1> QED  BY <1>2, <1>3, <1>4, Zenon DEF News

(* ... and none when it sent none.                                         *)
LEMMA NoNews == ASSUME UNCHANGED events PROVE News = <<>>
  <1>1. {v \in Uuids : events'[v] # events[v]} = {}  OBVIOUS
  <1> QED  BY <1>1 DEF News

(* What the program may still read, and what it has made of the rest.      *)
StreamInv ==
    /\ inbox \in Seq([uuid : Uuids \union {NoMessage}, kind : Kinds])
    /\ InboxTrue
    /\ InboxOnce
    /\ ResultTrue
    /\ AckInv

(* A packet that arrives is the last one of the input.                     *)
LEMMA LongerInput ==
    ASSUME inbox \in Seq([uuid : Uuids \union {NoMessage}, kind : Kinds]),
           NEW q \in [uuid : Uuids \union {NoMessage}, kind : Kinds],
           inbox' = inbox \o <<q>>
    PROVE  /\ inbox' \in Seq([uuid : Uuids \union {NoMessage}, kind : Kinds])
           /\ \A i \in 1 .. Len(inbox') :
                \/ i \in 1 .. Len(inbox) /\ inbox'[i] = inbox[i]
                \/ i = Len(inbox) + 1 /\ inbox'[i] = q
  OBVIOUS

(* A step that sends nothing about a message, though it may answer a       *)
(* query, keeps the balance.                                               *)
LEMMA NothingSent ==
    ASSUME StreamInv, UNCHANGED <<events, call, result>>,
           inbox' \in {<<>>, inbox, inbox \o <<Packet(NoMessage, "REPLY")>>}
    PROVE  StreamInv'
  <1>0. \A u \in Uuids : Packets(u)' = Packets(u)  BY SilentPackets
  <1>1. ResultTrue'  BY <1>0 DEF StreamInv, ResultTrue
  <1>2. Succeeded' = Succeeded  BY DEF Succeeded
  <1>3. Acked' = Acked  BY <1>0 DEF Acked
  <1>4. ASSUME inbox' \in Seq([uuid : Uuids \union {NoMessage}, kind : Kinds]),
               \A i \in 1 .. Len(inbox') : inbox'[i].kind \in PacketKinds
                    => i \in 1 .. Len(inbox) /\ inbox'[i] = inbox[i]
        PROVE  StreamInv'
    <2>1. InboxTrue' /\ InboxOnce'
      BY <1>0, <1>4 DEF StreamInv, InboxTrue, InboxOnce
    <2>2. Unread' \subseteq Unread  BY <1>4 DEF Unread, Packet, PacketKinds
    <2>3. CountsOn  BY <1>2, <2>2 DEF CountsOn
    <2>4. AckInv'  BY <1>3, <2>3, CountKept DEF StreamInv
    <2> QED  BY <1>1, <1>4, <2>1, <2>4 DEF StreamInv
  <1>5. CASE inbox' = <<>>
    BY <1>4, <1>5
  <1>6. CASE inbox' = inbox
    BY <1>4, <1>6 DEF StreamInv
  <1>7. CASE inbox' = inbox \o <<Packet(NoMessage, "REPLY")>>
    <2>1. /\ Packet(NoMessage, "REPLY") \in [uuid : Uuids \union {NoMessage}, kind : Kinds]
          /\ Packet(NoMessage, "REPLY").kind \notin PacketKinds
      BY DEF Packet, Kinds, PacketKinds
    <2>2. inbox \in Seq([uuid : Uuids \union {NoMessage}, kind : Kinds])  BY DEF StreamInv
    <2>3. /\ inbox' \in Seq([uuid : Uuids \union {NoMessage}, kind : Kinds])
          /\ \A i \in 1 .. Len(inbox') :
               \/ i \in 1 .. Len(inbox) /\ inbox'[i] = inbox[i]
               \/ i = Len(inbox) + 1 /\ inbox'[i] = Packet(NoMessage, "REPLY")
      BY <1>7, <2>1, <2>2, LongerInput
    <2> QED  BY <1>4, <2>1, <2>3
  <1> QED  BY <1>5, <1>6, <1>7

(* A packet is sent once, so it is not yet in the input; an ACK adds to    *)
(* both sides of the balance.                                              *)
LEMMA PacketSent ==
    ASSUME StreamInv, events \in [Uuids -> Seq(PacketKinds)], EventInv',
           NEW u \in Uuids, NEW p \in PacketKinds,
           events' = [events EXCEPT ![u] = Append(@, p)],
           UNCHANGED <<call, result>>,
           inbox' \in {<<>>, inbox \o <<Packet(u, p)>>}
    PROVE  StreamInv'
  <1>0. /\ Packets(u)' = Packets(u) \union {p}
        /\ \A v \in Uuids \ {u} : Packets(v)' = Packets(v)
    BY AppendedPacket
  <1>1. p \notin Packets(u)
    <2>1. events'[u] = Append(events[u], p) /\ events[u] \in Seq(PacketKinds)  OBVIOUS
    <2>2. \A i, j \in 1 .. Len(events'[u]) : events'[u][i] = events'[u][j] => i = j
      BY DEF EventInv, PacketsOrdered
    <2>3. ASSUME NEW i \in 1 .. Len(events[u]), events[u][i] = p  PROVE FALSE
      <3>1. /\ i \in 1 .. Len(events'[u]) /\ Len(events'[u]) \in 1 .. Len(events'[u])
            /\ events'[u][i] = p /\ events'[u][Len(events'[u])] = p
            /\ i # Len(events'[u])
        BY <2>1, <2>3
      <3> QED  BY <2>2, <3>1
    <2> QED  BY <2>3 DEF Packets
  <1>2. \A v \in Uuids : Packets(v) \subseteq Packets(v)'  BY <1>0
  <1>3. ResultTrue'  BY <1>2 DEF StreamInv, ResultTrue
  <1>4. /\ inbox' \in Seq([uuid : Uuids \union {NoMessage}, kind : Kinds])
        /\ \A i \in 1 .. Len(inbox') :
             \/ i \in 1 .. Len(inbox) /\ inbox'[i] = inbox[i]
             \/ i = Len(inbox) + 1 /\ inbox'[i] = Packet(u, p)
    <2>1. CASE inbox' = <<>>  BY <2>1
    <2>2. CASE inbox' = inbox \o <<Packet(u, p)>>
      <3>1. Packet(u, p) \in [uuid : Uuids \union {NoMessage}, kind : Kinds]
        BY DEF Packet, Kinds, PacketKinds
      <3> QED  BY <2>2, <3>1, LongerInput DEF StreamInv
    <2> QED  BY <2>1, <2>2
  <1>5. InboxTrue'
    <2> SUFFICES ASSUME NEW i \in 1 .. Len(inbox'), inbox'[i].kind \in PacketKinds
                 PROVE  (inbox[i].uuid \in Uuids /\ inbox[i].kind \in Packets(inbox[i].uuid))'
      BY DEF InboxTrue
    <2>1. CASE i \in 1 .. Len(inbox) /\ inbox'[i] = inbox[i]
      BY <1>2, <2>1 DEF StreamInv, InboxTrue
    <2>2. CASE inbox'[i] = Packet(u, p)
      BY <1>0, <2>2 DEF Packet
    <2> QED  BY <1>4, <2>1, <2>2
  <1>6. \A i \in 1 .. Len(inbox) : inbox[i] # Packet(u, p)
    BY <1>1 DEF StreamInv, InboxTrue, Packet
  <1>7. InboxOnce'
    BY <1>4, <1>6 DEF StreamInv, InboxOnce
  <1>8. AckInv'
    <2>1. Succeeded' = Succeeded  BY DEF Succeeded
    <2>2. CASE p # "ACK"
      <3>1. Acked' = Acked  BY <1>0, <2>2 DEF Acked
      <3>2. \A v \in Uuids : Packet(u, p) # Packet(v, "ACK")  BY <2>2 DEF Packet
      <3>3. Unread' \subseteq Unread  BY <1>4, <3>2 DEF Unread
      <3>4. CountsOn  BY <2>1, <3>3 DEF CountsOn
      <3> QED  BY <3>1, <3>4, CountKept DEF StreamInv
    <2>3. CASE p = "ACK"
      <3>1. u \in Acked' /\ Acked \subseteq Acked' \ {u}
        BY <1>0, <1>1, <2>3 DEF Acked
      <3>2. \A v \in Uuids : Packet(u, p) = Packet(v, "ACK") => v = u  BY DEF Packet
      <3>3. Unread' \subseteq Unread \union {u}  BY <1>4, <3>2 DEF Unread
      <3>4. /\ Succeeded \subseteq Uuids /\ Unread \subseteq Uuids /\ Acked \subseteq Uuids
            /\ Unread' \subseteq Uuids /\ Acked' \subseteq Uuids
        BY DEF Succeeded, Unread, Acked
      <3>5. /\ Cardinality(Succeeded) \in Nat /\ Cardinality(Unread) \in Nat
            /\ Cardinality(Acked) \in Nat
            /\ Cardinality(Acked') \in Nat /\ Cardinality(Unread') \in Nat
        BY <3>4, Counting
      <3>6. Cardinality(Unread') <= Cardinality(Unread) + 1
        BY <3>3, <3>4, Counting
      <3>7. Cardinality(Acked) <= Cardinality(Acked') - 1
        BY <3>1, <3>4, Counting
      <3> QED  BY <2>1, <3>5, <3>6, <3>7 DEF StreamInv, AckInv
    <2> QED  BY <2>2, <2>3
  <1> QED  BY <1>3, <1>4, <1>5, <1>7, <1>8 DEF StreamInv

(* Every step of the device, by what it does to the two lines.             *)
LEMMA DeviceOutline ==
    ASSUME HostInv, ServeSend \/ ServeQuery \/ DeviceGoesOn
    PROVE  /\ Core0 \/ FifoInterrupt \/ Binary
           /\ UNCHANGED <<port, call, result>>
           /\ line' = line \/ (line # <<>> /\ line' = Tail(line))
           /\ \/ Arrives(News)
              \/ UNCHANGED events /\ Arrives(<<Packet(NoMessage, "REPLY")>>)
  <1>1. CASE ServeSend
    <2>1. line # <<>> /\ Head(line).api \in Sends  BY <1>1 DEF ServeSend
    <2>2. 1 \in 1 .. Len(line) /\ Head(line) = line[1]
      BY <2>1 DEF HostInv, HostTypeOK
    <2>3. Head(line).uuid \in Uuids  BY <2>1, <2>2 DEF HostInv, CallInv
    <2>4. Binary  BY <1>1, <2>3 DEF ServeSend, Binary
    <2> QED  BY <1>1, <2>4 DEF ServeSend
  <1>2. CASE ServeQuery
    BY <1>2 DEF ServeQuery, AnswerCommand, Binary
  <1>3. CASE DeviceGoesOn
    BY <1>3 DEF DeviceGoesOn, Alert, Binary
  <1> QED  BY <1>1, <1>2, <1>3

(* A step of the device keeps the invariant of the program.                *)
LEMMA DeviceHostInv ==
    ASSUME HostInv, ServeSend \/ ServeQuery \/ DeviceGoesOn
    PROVE  HostInv'
  <1>0. /\ Core0 \/ FifoInterrupt \/ Binary
        /\ UNCHANGED <<port, call, result>>
        /\ line' = line \/ (line # <<>> /\ line' = Tail(line))
        /\ \/ Arrives(News)
           \/ UNCHANGED events /\ Arrives(<<Packet(NoMessage, "REPLY")>>)
    BY DeviceOutline
  <1>1. /\ IInv /\ StreamInv /\ CallInv
        /\ events \in [Uuids -> Seq(PacketKinds)]
        /\ line \in Seq([api : Calls, uuid : Uuids \union {NoMessage}])
    BY DEF HostInv, HostTypeOK, StreamInv, IInv, TypeOK, HostTypes, PacketKinds
  <1>2. IInv'  BY <1>0, <1>1, Core0IInv, InterruptIInv, BinaryIInv
  <1>3. line' \in Seq([api : Calls, uuid : Uuids \union {NoMessage}]) /\ CallInv'
    <2>1. CASE line' = line  BY <1>0, <1>1, <2>1 DEF CallInv
    <2>2. CASE line # <<>> /\ line' = Tail(line)
      <3>1. /\ line' \in Seq([api : Calls, uuid : Uuids \union {NoMessage}])
            /\ \A i \in 1 .. Len(line') : line'[i] = line[i + 1] /\ i + 1 \in 1 .. Len(line)
        BY <1>1, <2>2
      <3> QED  BY <1>0, <1>1, <3>1 DEF CallInv
    <2> QED  BY <1>0, <2>1, <2>2
  <1>4. StreamInv'
    <2>1. CASE UNCHANGED events
      <3>1. \/ Arrives(<<>>)
            \/ Arrives(<<Packet(NoMessage, "REPLY")>>)
        BY <1>0, <2>1, NoNews
      <3>2. inbox \o <<>> = inbox  BY <1>1 DEF StreamInv
      <3>3. inbox' \in {<<>>, inbox, inbox \o <<Packet(NoMessage, "REPLY")>>}
        BY <3>1, <3>2 DEF Arrives
      <3> QED  BY <1>0, <1>1, <2>1, <3>3, NothingSent
    <2>2. ASSUME NEW u \in Uuids, NEW p \in PacketKinds,
                 events' = [events EXCEPT ![u] = Append(@, p)], ~UNCHANGED events
          PROVE  StreamInv'
      <3>1. Arrives(<<Packet(u, p)>>)  BY <1>0, <1>1, <2>2, NewsOfStep
      <3>2. inbox' \in {<<>>, inbox \o <<Packet(u, p)>>}  BY <3>1 DEF Arrives
      <3>3. EventInv'  BY <1>2 DEF IInv
      <3> QED  BY <1>0, <1>1, <2>2, <3>2, <3>3, PacketSent
    <2> QED  BY <1>0, <1>1, <2>1, <2>2, DeviceSends
  <1>5. HostTypeOK'
    BY <1>0, <1>2, <1>3, <1>4 DEF IInv, StreamInv, HostInv, HostTypeOK
  <1> QED  BY <1>2, <1>3, <1>4, <1>5 DEF HostInv, StreamInv

(* So does a step of the program.                                          *)
LEMMA ProgramHostInv == ASSUME HostInv, Program PROVE HostInv'
  <1>0. UNCHANGED vars /\ Proceeds  BY ProgramOutline
  <1>1. IInv'  BY <1>0, StutterInv DEF HostInv
  <1>2. \A u \in Uuids : Packets(u)' = Packets(u)  BY <1>0, SilentPackets DEF vars
  <1>3. /\ inbox' \in Seq([uuid : Uuids \union {NoMessage}, kind : Kinds])
        /\ InboxTrue' /\ InboxOnce'
    BY <1>0, <1>2, FewerPackets DEF HostInv, Proceeds
  <1>4. Acked' = Acked  BY <1>2 DEF Acked
  <1>5. AckInv'  BY <1>0, <1>4, CountKept DEF HostInv, Proceeds
  <1>6. HostTypeOK'  BY <1>0, <1>1, <1>3 DEF IInv, Proceeds, HostTypeOK
  <1> QED  BY <1>0, <1>1, <1>3, <1>5, <1>6 DEF Proceeds, HostInv

-----------------------------------------------------------------------------
(* Theorems.                                                               *)

(* Every behaviour of a program and its device stays within the inductive  *)
(* invariant.                                                              *)
THEOREM HostInvariance == HostSafety => []HostInv
  <1>1. HostInv /\ [HostNext]_<<vars, libVars>> => HostInv'
    <2> SUFFICES ASSUME HostInv, [HostNext]_<<vars, libVars>> PROVE HostInv'  OBVIOUS
    <2>1. CASE UNCHANGED <<vars, libVars>>
      <3>1. UNCHANGED vars /\ UNCHANGED <<port, call, line, inbox, result>>
        BY <2>1 DEF libVars
      <3>2. IInv'  BY <3>1, StutterInv DEF HostInv
      <3>3. StreamInv'
        <4>1. StreamInv  BY DEF HostInv, HostTypeOK, StreamInv
        <4>2. UNCHANGED <<events, call, result>>  BY <3>1 DEF vars
        <4> QED  BY <3>1, <4>1, <4>2, NothingSent
      <3>4. HostTypeOK' /\ CallInv'
        BY <3>1, <3>2 DEF HostInv, HostTypeOK, CallInv, IInv
      <3> QED  BY <3>2, <3>3, <3>4 DEF HostInv, StreamInv
    <2> QED  BY <2>1, DeviceHostInv, ProgramHostInv DEF HostNext
  <1> QED  BY InitHostInv, <1>1, PTL DEF HostSafety

(* Calls, results and both directions of the line stay within their types  *)
(* whatever the program calls and whatever the stream breaks.              *)
THEOREM HostTypeCorrect == HostSafety => []HostTypeOK
  <1>1. HostInv => HostTypeOK  BY DEF HostInv
  <1> QED  BY <1>1, HostInvariance, PTL

(* flex_send_msg_wait returns 0 only for a message that has gone out: the  *)
(* DONE it read named this message, and the device sends it after the      *)
(* last FIFO load only.                                                    *)
THEOREM SuccessIsTrue == HostSafety => []TransmittedIsTrue
  <1>1. HostInv => TransmittedIsTrue
    <2> SUFFICES ASSUME HostInv, NEW u \in Uuids, result[u] = "transmitted"
                 PROVE  "DONE" \in Packets(u) /\ Ends(u, "done")
      BY DEF TransmittedIsTrue
    <2>1. "DONE" \in Packets(u)  BY DEF HostInv, ResultTrue
    <2>2. \/ fate[u] = "done"
          \/ Serves(u, {"wind_down", "remove"}) /\ outcome = "done"
      BY <2>1 DEF HostInv, IInv, EventInv, PacketsTrue
    <2>3. Serves(u, {"wind_down", "remove"}) => serving # NoMessage /\ serving.uuid = u
      BY DEF HostInv, IInv, TaskInv, Serves
    <2> QED  BY <2>1, <2>2, <2>3 DEF Ends
  <1> QED  BY <1>1, HostInvariance, PTL

(* However many calls time out and however many answers come late, a       *)
(* program counts no more successes than messages the device has taken.    *)
THEOREM AcksCounted == HostSafety => []AcksCountOnce
  <1>1. HostInv => AcksCountOnce
    <2> SUFFICES ASSUME HostInv PROVE Cardinality(Succeeded) <= Cardinality(Acked)
      BY DEF AcksCountOnce, Succeeded, Acked
    <2>1. Succeeded \subseteq Uuids /\ Unread \subseteq Uuids /\ Acked \subseteq Uuids
      BY DEF Succeeded, Unread, Acked
    <2>2. /\ Cardinality(Succeeded) \in Nat /\ Cardinality(Unread) \in Nat
          /\ Cardinality(Acked) \in Nat
      BY <2>1, Counting
    <2> QED  BY <2>2 DEF HostInv, AckInv
  <1> QED  BY <1>1, HostInvariance, PTL
=============================================================================

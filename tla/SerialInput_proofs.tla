------------------------- MODULE SerialInput_proofs -------------------------
(***************************************************************************)
(* Theorems about the serial input: any number of items of any kinds, all  *)
(* sizes of the buffers, pauses, broken frames and impatient hosts.        *)
(***************************************************************************)
EXTENDS SerialInput, Integers, SequenceTheorems, WellFoundedInduction, TLAPS

-----------------------------------------------------------------------------
(* The inductive invariant: first the order of the bytes.                  *)

(* What the device has still to read: what has arrived, and the rest of    *)
(* the last item.                                                          *)
Stream == rx \o sending

KindOf(b) == items[b[2]].kind
BytesOf(i) == Bytes(i, items[i].kind)

IsByte(b) ==
    /\ b[2] \in 1 .. Len(items)
    /\ b[3] \in 1 .. Len(Form[KindOf(b)])
    /\ b = BytesOf(b[2])[b[3]]

Earlier(b, d) == b[2] < d[2] \/ (b[2] = d[2] /\ b[3] < d[3])

(* Every byte belongs to an item; a buffer holds only what came before     *)
(* everything that is still to be read.                                    *)
Passed(b) == \A k \in 1 .. Len(Stream) : Earlier(b, Stream[k])

BytesIn(s) == {s[j] : j \in 1 .. Len(s)}

HeldInv(buffer) == \A b \in BytesIn(buffer) : IsByte(b) /\ Passed(b)

(* No byte is in two buffers.                                              *)
Apart(one, other) == BytesIn(one) \intersect BytesIn(other) = {}

BufferInv ==
    /\ HeldInv(binary_frame_buffer) /\ HeldInv(at_buffer) /\ HeldInv(received)
    /\ Apart(binary_frame_buffer, at_buffer)
    /\ Apart(binary_frame_buffer, received)
    /\ Apart(at_buffer, received)

(* The bytes to be read are in order: those of one item without a gap, and *)
(* an item that went out whole to its end.                                 *)
LastOfItem(j) == j = Len(Stream) \/ Stream[j][2] # Stream[j + 1][2]

StreamInv ==
    /\ \A j \in 1 .. Len(Stream) : IsByte(Stream[j])
    /\ \A j, k \in 1 .. Len(Stream) : j < k =>
           \/ Stream[j][2] = Stream[k][2] /\ Stream[k][3] - Stream[j][3] = k - j
           \/ Stream[j][2] < Stream[k][2]
    /\ \A j \in 1 .. Len(Stream) : LastOfItem(j) =>
           /\ items[Stream[j][2]].whole => Stream[j][3] = Len(Form[KindOf(Stream[j])])
           /\ j # Len(Stream) => Stream[j + 1][3] = 1

(* The last item is whole once it has gone out.  Both ends of a line go    *)
(* out together.                                                           *)
SendingInv ==
    /\ items = <<>> => pause = "long"
    /\ sending # <<>> => items # <<>> /\ ~Last.whole
    /\ \A j \in 1 .. Len(sending) : sending[j][2] = Len(items)
    /\ Stream # <<>> /\ (sending # <<>> \/ Last.whole) =>
           Stream[Len(Stream)] = BytesOf(Len(items))[Len(Form[Last.kind])]
    /\ sending # <<>> /\ Last.kind \in {"line", "msg", "send", "text", "long"} =>
           sending[1][3] # Len(Form[Last.kind])

(* An item takes effect by its first byte, which is used up.               *)
Begins(b, i) == b[2] = i /\ b[3] = 1

UsedUp(i) ==
    \A b \in BytesIn(Stream) \union BytesIn(binary_frame_buffer) \union BytesIn(at_buffer)
             \union BytesIn(received) : ~Begins(b, i)

ServedInv == \A i \in 1 .. MaxItems : served[i] = 1 => i <= Len(items) /\ UsedUp(i)

(* What the loops of Core 1 leave alone.                                   *)
LoopInv ==
    /\ frame_stalled => core1 = "loop"
    /\ core1 \in {"at", "text", "data"} => binary_frame_buffer = <<>>
    /\ core1 = "at" => device_state = "IDLE"
    /\ core1 = "text" => device_state = "WAITING_FOR_MSG"
    /\ core1 = "data" => device_state = "WAITING_FOR_DATA"
    /\ core1 \in {"text", "data"} => ~late
    /\ device_state = "IDLE" => received = <<>> /\ ~late
    /\ device_state \in Dialogues => at_buffer = <<>>
    /\ device_state = "WAITING_FOR_MSG" /\ Len(received) = MAX_FLEX_MESSAGE_LENGTH
           => core1 = "text"

OrderInv ==
    /\ HostTypes /\ InputTypes /\ DialogueTypes
    /\ served \in [1 .. MaxItems -> {0, 1}]
    /\ BufferInv /\ StreamInv /\ SendingInv /\ ServedInv /\ LoopInv

(* When a frame that was the last item has taken effect, nothing is left   *)
(* to be read.                                                             *)
HeardInv ==
    items # <<>> /\ Last.kind \in Frames /\ served[Len(items)] = 1
        => Stream = <<>> /\ binary_protocol_active

-----------------------------------------------------------------------------
(* The forms of the items.                                                 *)

Classes == {"c", "r", "n", "h", "z"}
LineKinds == {"line", "msg", "send", "text"}
AllKinds == LineKinds \union {"long", "data"} \union Frames

LEMMA KindNames ==
    /\ DOMAIN Form = AllKinds
    /\ Kinds \subseteq AllKinds
    /\ DOMAIN Answers = {"IDLE", "WAITING_FOR_MSG", "WAITING_FOR_DATA"}
    /\ Answers["IDLE"] = {"line", "msg", "send"} \union Frames
    /\ Answers["WAITING_FOR_MSG"] = {"text", "long"}
    /\ Answers["WAITING_FOR_DATA"] = {"data"}
    /\ DOMAIN Asks = {"msg", "send"}
    /\ Asks["msg"] = "WAITING_FOR_MSG" /\ Asks["send"] = "WAITING_FOR_DATA"
  BY SerialAssumption DEF Form, Answers, Asks, AllKinds, LineKinds, Frames

LEMMA LineForm ==
    ASSUME NEW kind \in LineKinds
    PROVE  Form[kind] = <<"c", "r", "n">>
  BY DEF Form, LineKinds

LEMMA FrameForm ==
    /\ Form["frame"] = <<"h", "c", "z">>
    /\ Form["odd"] = <<"h", "n", "z">>
  BY DEF Form

LEMMA DataForm ==
    /\ DataLength \in Nat \ {0}
    /\ Form["data"] \in Seq(Classes)
    /\ Len(Form["data"]) = DataLength
    /\ \A j \in 1 .. DataLength : Form["data"][j] = (IF j = DataLength THEN "z" ELSE "n")
  <1>1. Form["data"] = [j \in 1 .. DataLength |-> IF j = DataLength THEN "z" ELSE "n"]
    BY DEF Form
  <1> QED  BY <1>1, SerialAssumption DEF Classes

LEMMA LongForm ==
    LET max == MAX_FLEX_MESSAGE_LENGTH
    IN  /\ max \in Nat \ {0}
        /\ Form["long"] \in Seq(Classes)
        /\ Len(Form["long"]) = max + 3
        /\ \A j \in 1 .. max + 1 : Form["long"][j] = "c"
        /\ Form["long"][max + 2] = "r" /\ Form["long"][max + 3] = "n"
  <1> DEFINE max == MAX_FLEX_MESSAGE_LENGTH
             text == [j \in 1 .. max + 1 |-> "c"]
             end == <<"r", "n">>
  <1>1. Form["long"] = text \o end  BY DEF Form
  <1>2. max \in Nat \ {0}  BY SerialAssumption
  <1>3. text \in Seq(Classes) /\ Len(text) = max + 1 /\ \A j \in 1 .. max + 1 : text[j] = "c"
    BY <1>2 DEF Classes
  <1>4. end \in Seq(Classes) /\ Len(end) = 2 /\ end[1] = "r" /\ end[2] = "n"
    BY DEF Classes
  <1> HIDE DEF text, end, max
  <1>5. /\ text \o end \in Seq(Classes)
        /\ Len(text \o end) = Len(text) + Len(end)
        /\ \A j \in 1 .. Len(text) + Len(end) :
               (text \o end)[j] = IF j <= Len(text) THEN text[j] ELSE end[j - Len(text)]
    <2>1. \A S : \A s1, s2 \in Seq(S) :
               /\ s1 \o s2 \in Seq(S)
               /\ Len(s1 \o s2) = Len(s1) + Len(s2)
               /\ \A j \in 1 .. Len(s1) + Len(s2) :
                      (s1 \o s2)[j] = IF j <= Len(s1) THEN s1[j] ELSE s2[j - Len(s1)]
      BY ConcatProperties
    <2> QED  BY <2>1, <1>3, <1>4, Zenon
  <1> QED  BY <1>1, <1>2, <1>3, <1>4, <1>5 DEF max

(* Every item has at least one byte, and does not end with "\r".           *)
LEMMA FormFacts ==
    ASSUME NEW kind \in AllKinds
    PROVE  /\ Form[kind] \in Seq(Classes)
           /\ Len(Form[kind]) \in Nat \ {0}
           /\ Form[kind][Len(Form[kind])] # "r"
  <1>0. ASSUME NEW a \in Classes, NEW b \in Classes, NEW c \in Classes, c # "r",
               Form[kind] = <<a, b, c>>
        PROVE  /\ Form[kind] \in Seq(Classes)
               /\ Len(Form[kind]) \in Nat \ {0}
               /\ Form[kind][Len(Form[kind])] # "r"
    <2>1. <<a, b, c>> \in Seq(Classes) /\ Len(<<a, b, c>>) = 3 /\ <<a, b, c>>[3] = c
      OBVIOUS
    <2>2. Len(Form[kind]) = 3 /\ Form[kind][3] = c  BY <1>0, <2>1, Zenon
    <2> QED  BY <1>0, <2>1, <2>2
  <1> "c" \in Classes /\ "r" \in Classes /\ "n" \in Classes /\ "h" \in Classes
      /\ "z" \in Classes /\ "n" # "r" /\ "z" # "r"
    BY DEF Classes
  <1>1. CASE kind \in LineKinds
    BY <1>0, <1>1, LineForm, Zenon
  <1>2. CASE kind \in Frames
    <2>1. kind = "frame" \/ kind = "odd"  BY <1>2 DEF Frames
    <2> QED  BY <1>0, <2>1, FrameForm, Zenon
  <1>3. CASE kind = "data"
    BY <1>3, DataForm
  <1>4. CASE kind = "long"
    BY <1>4, LongForm
  <1> QED  BY <1>1, <1>2, <1>3, <1>4 DEF AllKinds

LEMMA ItemBytes ==
    ASSUME NEW kind \in AllKinds, NEW i \in 1 .. MaxItems
    PROVE  /\ Bytes(i, kind) \in Seq(Byte)
           /\ Len(Bytes(i, kind)) = Len(Form[kind])
           /\ \A j \in 1 .. Len(Form[kind]) :
                  /\ Bytes(i, kind)[j] = <<Form[kind][j], i, j>>
                  /\ Bytes(i, kind)[j][1] = Form[kind][j]
                  /\ Bytes(i, kind)[j][2] = i
                  /\ Bytes(i, kind)[j][3] = j
  <1>1. Form[kind] \in Seq(Classes) /\ Len(Form[kind]) \in Nat \ {0}  BY FormFacts
  <1>2. ASSUME NEW j \in 1 .. Len(Form[kind])
        PROVE  <<Form[kind][j], i, j>> \in Byte
    BY <1>1, ElementOfSeq DEF Byte, Classes
  <1> QED  BY <1>1, <1>2 DEF Bytes

-----------------------------------------------------------------------------
(* The stream.                                                             *)

LEMMA Concatenation ==
    ASSUME NEW s \in Seq(Byte), NEW t \in Seq(Byte)
    PROVE  /\ s \o t \in Seq(Byte)
           /\ Len(s) \in Nat /\ Len(t) \in Nat
           /\ Len(s \o t) = Len(s) + Len(t)
           /\ \A j \in 1 .. Len(s) : (s \o t)[j] = s[j]
           /\ \A j \in 1 .. Len(t) : (s \o t)[Len(s) + j] = t[j]
           /\ s \o t = <<>> <=> s = <<>> /\ t = <<>>
  <1>1. Len(s) \in Nat /\ Len(t) \in Nat  BY LenProperties
  <1>2. /\ s \o t \in Seq(Byte)
        /\ Len(s \o t) = Len(s) + Len(t)
        /\ \A j \in 1 .. Len(s) + Len(t) :
               (s \o t)[j] = IF j <= Len(s) THEN s[j] ELSE t[j - Len(s)]
    BY ConcatProperties
  <1>3. PICK m \in Nat, n \in Nat : m = Len(s) /\ n = Len(t)  BY <1>1
  <1>4. \A j \in 1 .. m : (s \o t)[j] = s[j]  BY <1>2, <1>3
  <1>5. \A j \in 1 .. n : (s \o t)[m + j] = t[j]
    <2> TAKE j \in 1 .. n
    <2>1. m + j \in 1 .. m + n /\ ~(m + j <= m) /\ (m + j) - m = j  BY <1>3
    <2> QED  BY <1>2, <1>3, <2>1
  <1>6. s \o t = <<>> <=> s = <<>> /\ t = <<>>
    BY ConcatEqualIffEmpty, ConcatEmptySeq, ConcatSimplifications
  <1> QED  BY <1>1, <1>2, <1>3, <1>4, <1>5, <1>6

LEMMA StreamFacts ==
    ASSUME rx \in Seq(Byte), sending \in Seq(Byte)
    PROVE  /\ Stream \in Seq(Byte)
           /\ Len(rx) \in Nat /\ Len(sending) \in Nat
           /\ Len(Stream) = Len(rx) + Len(sending)
           /\ \A j \in 1 .. Len(rx) : Stream[j] = rx[j]
           /\ \A j \in 1 .. Len(sending) : Stream[Len(rx) + j] = sending[j]
           /\ Stream = <<>> <=> rx = <<>> /\ sending = <<>>
           /\ rx # <<>> => Head(rx) = Stream[1] /\ Head(rx) \in Byte /\ Len(rx) > 0
  <1>1. rx # <<>> => Head(rx) = rx[1] /\ Head(rx) \in Byte /\ Len(rx) > 0  OBVIOUS
  <1> QED  BY <1>1, Concatenation DEF Stream

LEMMA ByteTypes ==
    ASSUME NEW b \in Byte
    PROVE  b[1] \in Classes /\ b[2] \in 1 .. MaxItems /\ b[3] \in Nat \ {0}
  BY DEF Byte, Classes

(* The first m bytes of what is to be read are gone.                       *)
Drops(m) ==
    /\ m \in 0 .. Len(Stream)
    /\ rx' \in Seq(Byte) /\ sending' \in Seq(Byte)
    /\ Len(Stream') = Len(Stream) - m
    /\ \A j \in 1 .. Len(Stream') : Stream'[j] = Stream[j + m]

(* A step of Core 1 reads nothing, or one byte, or drops what has arrived. *)
LEMMA ReadingDrops ==
    ASSUME HostTypes, InputTypes, UNCHANGED sending
    PROVE  /\ UNCHANGED rx => Drops(0)
           /\ rx # <<>> /\ rx' = Tail(rx) => Drops(1)
           /\ rx' = <<>> => Drops(Len(rx))
  <1>0. rx \in Seq(Byte) /\ sending \in Seq(Byte) /\ sending' \in Seq(Byte)
    BY DEF HostTypes, InputTypes
  <1>1. PICK l \in Nat, n \in Nat : l = Len(rx) /\ n = Len(sending)  BY <1>0, StreamFacts
  <1>2. Len(Stream) = l + n /\ (\A j \in 1 .. l : Stream[j] = rx[j])
        /\ (\A j \in 1 .. n : Stream[l + j] = sending[j])
    BY <1>0, <1>1, StreamFacts
  <1>3. CASE UNCHANGED rx
    <2>1. Stream' = Stream  BY <1>3 DEF Stream
    <2> QED  BY <1>0, <1>1, <1>2, <1>3, <2>1 DEF Drops
  <1>4. ASSUME rx # <<>>, rx' = Tail(rx)
        PROVE  Drops(1)
    <2>1. /\ rx' \in Seq(Byte) /\ Len(rx') = l - 1 /\ l > 0
          /\ \A j \in 1 .. l - 1 : rx'[j] = rx[j + 1]
      BY <1>0, <1>1, <1>4
    <2>2. rx' \in Seq(Byte) /\ sending' \in Seq(Byte) =>
              /\ Len(Stream') = Len(rx') + Len(sending')
              /\ \A j \in 1 .. Len(rx') : Stream'[j] = rx'[j]
              /\ \A j \in 1 .. Len(sending') : Stream'[Len(rx') + j] = sending'[j]
      BY Concatenation DEF Stream
    <2>3. Len(Stream') = l - 1 + n
          /\ (\A j \in 1 .. l - 1 : Stream'[j] = rx'[j])
          /\ (\A j \in 1 .. n : Stream'[l - 1 + j] = sending[j])
      BY <1>0, <1>1, <2>1, <2>2
    <2>4. ASSUME NEW j \in 1 .. l - 1 + n
          PROVE  Stream'[j] = Stream[j + 1]
      <3>1. CASE j \in 1 .. l - 1  BY <1>2, <2>1, <2>3, <3>1
      <3>2. CASE j \notin 1 .. l - 1
        <4>1. PICK i \in 1 .. n : j = l - 1 + i  BY <3>2
        <4>2. Stream'[l - 1 + i] = sending[i] /\ Stream[l + i] = sending[i]  BY <1>2, <2>3
        <4>3. j + 1 = l + i  BY <4>1
        <4> QED  BY <4>1, <4>2, <4>3
      <3> QED  BY <3>1, <3>2
    <2> QED  BY <1>0, <1>2, <2>1, <2>3, <2>4 DEF Drops
  <1>5. ASSUME rx' = <<>>
        PROVE  Drops(Len(rx))
    <2>1. Stream' = sending  BY <1>0, <1>5, ConcatEmptySeq DEF Stream
    <2>2. rx' \in Seq(Byte)  BY <1>5
    <2>3. \A j \in 1 .. n : Stream'[j] = Stream[j + l]  BY <1>2, <2>1
    <2> QED  BY <1>0, <1>1, <1>2, <2>1, <2>2, <2>3 DEF Drops
  <1> QED  BY <1>3, <1>4, <1>5

-----------------------------------------------------------------------------
(* What dropping bytes keeps.                                              *)

(* The bytes that are left.                                                *)
LEMMA DropPlaces ==
    ASSUME HostTypes, InputTypes, NEW m, Drops(m)
    PROVE  /\ m \in Nat /\ Len(Stream) \in Nat /\ Len(Stream') \in Nat
           /\ Len(Stream) = Len(Stream') + m
           /\ Stream \in Seq(Byte) /\ Stream' \in Seq(Byte)
           /\ \A j \in 1 .. Len(Stream') : j + m \in 1 .. Len(Stream) /\ Stream'[j] = Stream[j + m]
  <1>1. Stream \in Seq(Byte) /\ Len(Stream) \in Nat
    BY StreamFacts, LenProperties DEF HostTypes, InputTypes
  <1>2. Stream' \in Seq(Byte) /\ Len(Stream') \in Nat
    BY Concatenation, LenProperties DEF Drops, Stream
  <1>3. PICK l \in Nat, n \in Nat : l = Len(Stream) /\ n = Len(Stream')
    BY <1>1, <1>2, Zenon
  <1>4. m \in 0 .. l /\ n = l - m /\ \A j \in 1 .. n : Stream'[j] = Stream[j + m]
    BY <1>3, Zenon DEF Drops
  <1>5. m \in Nat /\ l = n + m /\ \A j \in 1 .. n : j + m \in 1 .. l
    BY <1>4
  <1> QED  BY <1>1, <1>2, <1>3, <1>4, <1>5, Zenon

LEMMA DropStream ==
    ASSUME HostTypes, InputTypes, StreamInv, NEW m, Drops(m), UNCHANGED items
    PROVE  StreamInv'
  <1>1. PICK l \in Nat, n \in Nat : l = Len(Stream) /\ n = Len(Stream')
    BY DropPlaces, Zenon
  <1>2. m \in Nat /\ l = n + m
        /\ \A j \in 1 .. n : j + m \in 1 .. l /\ Stream'[j] = Stream[j + m]
    BY <1>1, DropPlaces, Zenon
  <1>3. (\A j \in 1 .. Len(Stream) : IsByte(Stream[j]))'
    BY <1>1, <1>2 DEF StreamInv, IsByte, BytesOf, KindOf
  <1>4. \A j, k \in 1 .. n : j < k =>
           \/ Stream'[j][2] = Stream'[k][2] /\ Stream'[k][3] - Stream'[j][3] = k - j
           \/ Stream'[j][2] < Stream'[k][2]
    <2> TAKE j, k \in 1 .. n
    <2>1. j < k => j + m < k + m /\ (k + m) - (j + m) = k - j  BY <1>2
    <2>2. \/ ~(j + m < k + m)
          \/ Stream[j + m][2] = Stream[k + m][2]
             /\ Stream[k + m][3] - Stream[j + m][3] = (k + m) - (j + m)
          \/ Stream[j + m][2] < Stream[k + m][2]
      BY <1>1, <1>2 DEF StreamInv
    <2> QED  BY <1>2, <2>1, <2>2
  <1>5. \A j \in 1 .. n : j = n \/ Stream'[j][2] # Stream'[j + 1][2] =>
           /\ items[Stream'[j][2]].whole => Stream'[j][3] = Len(Form[items[Stream'[j][2]].kind])
           /\ j # n => Stream'[j + 1][3] = 1
    <2> TAKE j \in 1 .. n
    <2>1. /\ j + m \in 1 .. l /\ Stream'[j] = Stream[j + m]
          /\ j = n <=> j + m = l
          /\ j # n => j + 1 \in 1 .. n /\ (j + 1) + m = (j + m) + 1
      BY <1>2
    <2>2. j # n => Stream'[j + 1] = Stream[(j + m) + 1]
      BY <1>2, <2>1
    <2> QED  BY <1>1, <2>1, <2>2 DEF StreamInv, LastOfItem, KindOf
  <1> QED  BY <1>1, <1>3, <1>4, <1>5 DEF StreamInv, LastOfItem, KindOf

LEMMA ReadByte ==
    ASSUME HostTypes, InputTypes, StreamInv, Stream # <<>>, Drops(1), UNCHANGED items
    PROVE  \E b \in Byte :
               /\ b = Stream[1] /\ b \in BytesIn(Stream)
               /\ IsByte(b) /\ IsByte(b)' /\ Passed(b)'
               /\ \A d : Passed(d) => d # b
  <1>1. PICK l \in Nat, n \in Nat : l = Len(Stream) /\ n = Len(Stream')
    BY DropPlaces, Zenon
  <1>2. /\ l = n + 1
        /\ \A j \in 1 .. n : j + 1 \in 1 .. l /\ Stream'[j] = Stream[j + 1]
        /\ Stream \in Seq(Byte)
    BY <1>1, DropPlaces, Zenon
  <1>3. 1 \in 1 .. l  BY <1>2
  <1>4. PICK b \in Byte : b = Stream[1]  BY <1>1, <1>2, <1>3, ElementOfSeq
  <1>5. IsByte(b)  BY <1>1, <1>3, <1>4 DEF StreamInv
  <1>6. Passed(b)'
    <2> SUFFICES ASSUME NEW j \in 1 .. n PROVE Earlier(b, Stream[j + 1])
      BY <1>1, <1>2 DEF Passed, Earlier
    <2>1. j + 1 \in 1 .. l /\ 1 < j + 1  BY <1>2
    <2>2. Stream[j + 1] \in Byte  BY <1>1, <1>2, <2>1, ElementOfSeq
    <2>3. b[3] \in Nat /\ Stream[j + 1][3] \in Nat  BY <1>4, <2>2, ByteTypes
    <2>4. \/ b[2] = Stream[j + 1][2] /\ Stream[j + 1][3] - b[3] = (j + 1) - 1
          \/ b[2] < Stream[j + 1][2]
      BY <1>1, <1>3, <1>4, <2>1 DEF StreamInv
    <2> QED  BY <2>3, <2>4 DEF Earlier
  <1>7. ASSUME NEW d, Passed(d) PROVE d # b
    <2>1. Earlier(d, b)  BY <1>1, <1>3, <1>4, <1>7 DEF Passed
    <2>2. b[2] \in Int /\ b[3] \in Int  BY <1>4, ByteTypes
    <2>3. ~Earlier(b, b)  BY <2>2 DEF Earlier
    <2> QED  BY <2>1, <2>3
  <1>8. IsByte(b)'  BY <1>5 DEF IsByte, BytesOf, KindOf
  <1>9. b \in BytesIn(Stream)  BY <1>1, <1>3, <1>4 DEF BytesIn
  <1> QED  BY <1>4, <1>5, <1>6, <1>7, <1>8, <1>9

(* Where the byte that is read goes; what the buffers hold otherwise is    *)
(* kept or lost.                                                           *)
Into(place, target) == IF place = target THEN {Stream[1]} ELSE {}

Moves(m, target) ==
    /\ Drops(m)
    /\ target # "none" => m = 1 /\ Stream # <<>>
    /\ BytesIn(binary_frame_buffer)' \subseteq BytesIn(binary_frame_buffer) \union Into("frame", target)
    /\ BytesIn(at_buffer)' \subseteq BytesIn(at_buffer) \union Into("at", target)
    /\ BytesIn(received)' \subseteq BytesIn(received) \union Into("received", target)

LEMMA MovedBytes ==
    ASSUME HostTypes, InputTypes, BufferInv, StreamInv, UNCHANGED items,
           NEW m, NEW target, Moves(m, target)
    PROVE  BufferInv' /\ StreamInv' /\ \A i : UsedUp(i) => UsedUp(i)'
  <1>0. Drops(m)  BY DEF Moves
  <1>1. \A j \in 1 .. Len(Stream') : j + m \in 1 .. Len(Stream) /\ Stream'[j] = Stream[j + m]
    BY <1>0, DropPlaces
  <1>2. BytesIn(Stream)' \subseteq BytesIn(Stream)  BY <1>1 DEF BytesIn
  <1>3. \A b : IsByte(b) => IsByte(b)'  BY DEF IsByte, BytesOf, KindOf
  <1>4. \A b : Passed(b) => Passed(b)'  BY <1>1 DEF Passed
  <1>5. PICK b : target # "none" =>
            /\ b = Stream[1] /\ b \in BytesIn(Stream)
            /\ IsByte(b)' /\ Passed(b)'
            /\ \A d : Passed(d) => d # b
    <2>1. CASE target # "none"
      BY <2>1, ReadByte DEF Moves
    <2> QED  BY <2>1
  <1>6. HeldInv(binary_frame_buffer)' /\ HeldInv(at_buffer)' /\ HeldInv(received)'
    BY <1>3, <1>4, <1>5 DEF BufferInv, HeldInv, Moves, Into
  <1>7. /\ Apart(binary_frame_buffer, at_buffer)'
        /\ Apart(binary_frame_buffer, received)'
        /\ Apart(at_buffer, received)'
    BY <1>5 DEF BufferInv, HeldInv, Apart, Moves, Into
  <1>8. \A i : UsedUp(i) => UsedUp(i)'
    BY <1>2, <1>5 DEF UsedUp, Moves, Into
  <1>9. StreamInv'  BY <1>0, DropStream
  <1> QED  BY <1>6, <1>7, <1>8, <1>9 DEF BufferInv

-----------------------------------------------------------------------------
(* Core 1 reads what the host has sent: the order of the bytes.            *)

LEMMA BytesInFacts ==
    /\ BytesIn(<<>>) = {}
    /\ \A s \in Seq(Byte), b \in Byte :
           /\ BytesIn(Append(s, b)) = BytesIn(s) \union {b}
           /\ Append(s, b) \in Seq(Byte)
           /\ Len(Append(s, b)) = Len(s) + 1
           /\ Len(s) \in Nat
  <1>1. BytesIn(<<>>) = {}  BY DEF BytesIn
  <1>2. ASSUME NEW s \in Seq(Byte), NEW b \in Byte
        PROVE  /\ BytesIn(Append(s, b)) = BytesIn(s) \union {b}
               /\ Append(s, b) \in Seq(Byte)
               /\ Len(Append(s, b)) = Len(s) + 1
               /\ Len(s) \in Nat
    <2>1. PICK n \in Nat : n = Len(s)  BY LenProperties
    <2>2. /\ Append(s, b) \in Seq(Byte)
          /\ Len(Append(s, b)) = n + 1
          /\ \A j \in 1 .. n : Append(s, b)[j] = s[j]
          /\ Append(s, b)[n + 1] = b
      BY <2>1
    <2>3. \A j : j \in 1 .. n + 1 <=> j \in 1 .. n \/ j = n + 1  BY <2>1
    <2> QED  BY <2>1, <2>2, <2>3 DEF BytesIn
  <1> QED  BY <1>1, <1>2

(* What an action of Core 1 does to its input, and where the byte it reads *)
(* goes.                                                                   *)
LEMMA Core1Moves ==
    ASSUME HostTypes, InputTypes, DialogueTypes, Core1
    PROVE  /\ UNCHANGED hostVars
           /\ \E m, target : Moves(m, target) /\ (UNCHANGED served \/ target = "none")
  <1> USE DEF hostVars
  <1>0. /\ rx \in Seq(Byte) /\ sending \in Seq(Byte)
        /\ binary_frame_buffer \in Seq(Byte) /\ at_buffer \in Seq(Byte) /\ received \in Seq(Byte)
    BY DEF HostTypes, InputTypes, DialogueTypes
  <1>1. rx # <<>> => Head(rx) = Stream[1] /\ Head(rx) \in Byte /\ Stream # <<>>
    BY <1>0, StreamFacts
  <1>2. UNCHANGED sending =>
            /\ UNCHANGED rx => Drops(0)
            /\ rx # <<>> /\ rx' = Tail(rx) => Drops(1)
            /\ rx' = <<>> => Drops(Len(rx))
    BY ReadingDrops
  <1>3. ASSUME NEW loop, Dispatch(loop), UNCHANGED <<rx, hostVars, at_buffer>>,
               received' \in {received, <<>>}
        PROVE  UNCHANGED hostVars /\ Moves(0, "none")
    BY <1>2, <1>3, BytesInFacts DEF Dispatch, Pending, Moves, Into
  <1>4. CASE DispatchFrame \/ DispatchAt \/ DispatchDialogue \/ DialogueTimesOut
    BY <1>3, <1>4 DEF DispatchFrame, DispatchAt, DispatchDialogue, DialogueTimesOut, otherVars,
       dialogueVars, at_reset_state
  <1>5. CASE Drained
    <2>1. Moves(0, "none")
      BY <1>2, <1>5 DEF Drained, deviceVars, frameVars, otherVars, dialogueVars, Moves, Into
    <2> QED  BY <1>5, <2>1 DEF Drained
  <1>6. CASE FrameOverflow \/ FrameEnds
    <2>1. Moves(1, "none")
      BY <1>1, <1>2, <1>6, BytesInFacts DEF FrameOverflow, FrameEnds, EndFrame, Read, otherVars,
         dialogueVars, Moves, Into
    <2> QED  BY <1>6, <2>1 DEF FrameOverflow, FrameEnds, EndFrame
  <1>7. CASE FrameByte
    <2>1. Moves(1, "frame")
      BY <1>0, <1>1, <1>2, <1>7, BytesInFacts DEF FrameByte, Read, otherVars, dialogueVars, Moves,
         Into
    <2> QED  BY <1>7, <2>1 DEF FrameByte, otherVars
  <1>8. CASE AtOverflow
    <2>1. Moves(1, "none")
      BY <1>1, <1>2, <1>8, BytesInFacts DEF AtOverflow, Read, frameVars, dialogueVars, Moves, Into
    <2> QED  BY <1>8, <2>1 DEF AtOverflow
  <1>9. CASE AtByte
    <2>1. Moves(1, "at")
      BY <1>0, <1>1, <1>2, <1>9, BytesInFacts DEF AtByte, StoreBelow, Read, frameVars,
         dialogueVars, Moves, Into
    <2> QED  BY <1>9, <2>1 DEF AtByte, StoreBelow
  <1>10. CASE AtLine
    <2>1. /\ rx' = Tail(rx) \/ rx' = <<>>
          /\ received' \in {received, <<>>}
      BY <1>10 DEF AtLine, EmptyLine, Command, OpenDialogue, BadLine, dialogueVars
    <2>2. \E m \in {1, Len(rx)} : Drops(m)
      BY <1>2, <1>10, <2>1 DEF AtLine
    <2>3. \E m : Moves(m, "none")
      BY <1>10, <2>1, <2>2, BytesInFacts DEF AtLine, frameVars, Moves, Into
    <2> QED  BY <1>10, <2>3 DEF AtLine
  <1>11. CASE TextByte
    <2>1. BytesIn(received)' \subseteq BytesIn(received) \union {Stream[1]}
      <3>1. PICK b \in Byte : b = Head(rx) /\ b = Stream[1]  BY <1>1, <1>11 DEF TextByte, Read
      <3>2. received' = received \/ received' = Append(received, b)
        BY <1>11, <3>1 DEF TextByte
      <3>3. BytesIn(Append(received, b)) = BytesIn(received) \union {b}
        BY <1>0, BytesInFacts
      <3> QED  BY <3>1, <3>2, <3>3 DEF BytesIn
    <2>2. Moves(1, "received")
      BY <1>1, <1>2, <1>11, <2>1 DEF TextByte, Read, frameVars, Moves, Into
    <2> QED  BY <1>11, <2>2 DEF TextByte
  <1>12. CASE DataByte
    <2>1. \/ Moves(1, "received") /\ UNCHANGED served
          \/ Moves(1, "none")
      BY <1>0, <1>1, <1>2, <1>12, BytesInFacts DEF DataByte, Complete, at_reset_state, Read,
         frameVars, Moves, Into
    <2> QED  BY <1>12, <2>1 DEF DataByte
  <1>13. CASE TextEnds
    <2>1. Moves(1, "none")
      BY <1>1, <1>2, <1>13, BytesInFacts DEF TextEnds, Complete, at_reset_state, Read, frameVars,
         Moves, Into
    <2> QED  BY <1>13, <2>1 DEF TextEnds
  <1>14. CASE TextIsFull
    <2>1. Moves(Len(rx), "none")
      BY <1>1, <1>2, <1>14, BytesInFacts DEF TextIsFull, Complete, at_reset_state, frameVars,
         Moves, Into
    <2> QED  BY <1>14, <2>1 DEF TextIsFull
  <1> QED  BY <1>4, <1>5, <1>6, <1>7, <1>8, <1>9, <1>10, <1>11, <1>12, <1>13, <1>14 DEF Core1

LEMMA Core1Types ==
    ASSUME HostTypes, InputTypes, DialogueTypes, LoopInv, Core1
    PROVE  HostTypes' /\ InputTypes' /\ DialogueTypes'
  <1> USE KindNames
  <1>0. /\ FrameBufferSize \in Nat \ {0, 1, 2} /\ AtBufferSize \in Nat \ {0, 1, 2}
        /\ MAX_FLEX_MESSAGE_LENGTH \in Nat \ {0} /\ DataLength \in Nat \ {0}
    BY SerialAssumption
  <1>1. <<>> \in Seq(Byte) /\ Len(<<>>) = 0  OBVIOUS
  <1>2. rx # <<>> => Head(rx) \in Byte /\ Tail(rx) \in Seq(Byte)
    BY DEF InputTypes
  <1>3. UNCHANGED hostVars  BY Core1Moves
  <1>4. HostTypes'
    <2>1. UNCHANGED answerVars \/ \E asked \in DOMAIN Answers : Answer(asked)
      BY DEF Core1, DispatchFrame, DispatchAt, DispatchDialogue, DialogueTimesOut, Drained,
         FrameOverflow, FrameByte, FrameEnds, EndFrame, AtOverflow, AtByte, StoreBelow, AtLine,
         EmptyLine, Command, OpenDialogue, BadLine, TextByte, TextEnds, TextIsFull, DataByte,
         Complete
    <2> QED  BY <1>3, <2>1 DEF HostTypes, answerVars, hostVars, Answer
  <1>5. InputTypes'
    <2>1. ASSUME NEW loop \in {"loop", "frame", "at", "text", "data"}, Dispatch(loop),
                 UNCHANGED <<rx, at_buffer>>, binary_protocol_active' \in BOOLEAN
          PROVE  InputTypes'
      <3>1. binary_frame_buffer' = <<>> \/ binary_frame_buffer' = binary_frame_buffer
        BY <2>1 DEF Dispatch, Pending
      <3>2. binary_frame_buffer' \in Seq(Byte) /\ Len(binary_frame_buffer') <= FrameBufferSize
        <4>1. CASE binary_frame_buffer' = <<>>
          <5>1. binary_frame_buffer' \in Seq(Byte) /\ Len(binary_frame_buffer') = 0
            BY <1>1, <4>1, Zenon
          <5> QED  BY <1>0, <5>1
        <4> QED  BY <3>1, <4>1 DEF InputTypes
      <3> QED  BY <2>1, <3>2 DEF InputTypes, Dispatch
    <2>2. CASE DispatchFrame \/ DispatchAt \/ DispatchDialogue \/ DialogueTimesOut
      <3>1. binary_protocol_active' \in BOOLEAN
        BY <2>2 DEF InputTypes, DispatchFrame, DispatchAt, DispatchDialogue, DialogueTimesOut,
           otherVars
      <3> QED
        BY <2>1, <2>2, <3>1 DEF DispatchFrame, DispatchAt, DispatchDialogue, DialogueTimesOut,
           otherVars
    <2>3. CASE Drained
      BY <2>3 DEF InputTypes, Drained, deviceVars, frameVars, otherVars
    <2>4. CASE FrameOverflow \/ FrameEnds
      <3>1. binary_protocol_active' \in BOOLEAN
        BY <2>4 DEF InputTypes, FrameOverflow, FrameEnds, EndFrame, otherVars
      <3>2. binary_frame_buffer' \in Seq(Byte) /\ Len(binary_frame_buffer') = 0
        BY <1>1, <2>4, Zenon DEF FrameOverflow, FrameEnds, EndFrame
      <3>3. rx' \in Seq(Byte) /\ frame_stalled' = FALSE /\ UNCHANGED at_buffer
            /\ core1' \in {"frame", "loop"}
        BY <1>2, <2>4 DEF FrameOverflow, FrameEnds, EndFrame, Read, otherVars
      <3>4. Len(binary_frame_buffer') <= FrameBufferSize  BY <1>0, <3>2
      <3> QED  BY <3>1, <3>2, <3>3, <3>4 DEF InputTypes
    <2>5. CASE FrameByte
      <3>1. PICK b \in Byte : b = Head(rx)  BY <1>2, <2>5 DEF FrameByte, Read
      <3>2. /\ binary_frame_buffer' \in Seq(Byte)
            /\ Len(binary_frame_buffer') = Len(binary_frame_buffer) + 1
            /\ Len(binary_frame_buffer) \in Nat
        BY <2>5, <3>1, BytesInFacts DEF FrameByte, InputTypes
      <3> QED  BY <1>0, <1>2, <2>5, <3>2 DEF InputTypes, FrameByte, Read, otherVars
    <2>6. CASE AtByte
      <3>1. PICK b \in Byte : b = Head(rx)  BY <1>2, <2>6 DEF AtByte, StoreBelow, Read
      <3>2. /\ at_buffer' \in Seq(Byte)
            /\ Len(at_buffer') = Len(at_buffer) + 1
            /\ Len(at_buffer) \in Nat
        BY <2>6, <3>1, BytesInFacts DEF AtByte, StoreBelow, InputTypes
      <3> QED  BY <1>0, <1>2, <2>6, <3>2 DEF InputTypes, AtByte, StoreBelow, Read, frameVars
    <2>7. CASE AtOverflow
      BY <1>0, <1>1, <1>2, <2>7 DEF InputTypes, AtOverflow, Read, frameVars
    <2>8. CASE AtLine
      <3>1. rx' \in Seq(Byte)
        BY <1>1, <1>2, <2>8 DEF AtLine, EmptyLine, Command, OpenDialogue, BadLine
      <3> QED  BY <1>0, <1>1, <2>8, <3>1 DEF InputTypes, AtLine, frameVars
    <2>9. CASE TextByte \/ TextEnds \/ TextIsFull \/ DataByte
      <3>1. rx' \in Seq(Byte)
        BY <1>1, <1>2, <2>9 DEF TextByte, TextEnds, TextIsFull, DataByte, Read
      <3> QED  BY <2>9, <3>1 DEF InputTypes, TextByte, TextEnds, TextIsFull, DataByte, Complete,
                  frameVars
    <2> QED  BY <2>2, <2>3, <2>4, <2>5, <2>6, <2>7, <2>8, <2>9 DEF Core1
  <1>6. DialogueTypes'
    <2>1. CASE UNCHANGED dialogueVars
      BY <2>1 DEF DialogueTypes, dialogueVars
    <2>2. CASE at_reset_state
      <3>1. received' \in Seq(Byte) /\ Len(received') = 0
        BY <1>1, <2>2, Zenon DEF at_reset_state
      <3>2. Len(received') <= DataLength - 1 /\ Len(received') <= MAX_FLEX_MESSAGE_LENGTH
        BY <1>0, <3>1
      <3> QED  BY <2>2, <3>1, <3>2 DEF DialogueTypes, at_reset_state
    <2>3. CASE \E i \in 1 .. Len(items) : OpenDialogue(i)
      <3>1. received' \in Seq(Byte) /\ Len(received') = 0
        BY <1>1, <2>3, Zenon DEF OpenDialogue
      <3>2. Len(received') <= DataLength - 1 /\ Len(received') <= MAX_FLEX_MESSAGE_LENGTH
        BY <1>0, <3>1
      <3>3. device_state' \in DOMAIN Answers /\ late' = FALSE  BY <2>3 DEF OpenDialogue
      <3> QED  BY <3>1, <3>2, <3>3 DEF DialogueTypes
    <2>4. CASE TextByte
      <3>1. PICK b \in Byte : b = Head(rx)  BY <1>2, <2>4 DEF TextByte, Read
      <3>2. received' = Append(received, b) \/ received' = received  BY <2>4, <3>1 DEF TextByte
      <3>3. /\ received' \in Seq(Byte)
            /\ Len(received') \in {Len(received), Len(received) + 1}
            /\ Len(received) \in Nat
        BY <3>2, BytesInFacts DEF DialogueTypes
      <3>4. device_state = "WAITING_FOR_MSG"  BY <2>4 DEF TextByte, Read, LoopInv
      <3>5. Len(received') <= MAX_FLEX_MESSAGE_LENGTH  BY <1>0, <2>4, <3>3 DEF TextByte
      <3> QED  BY <2>4, <3>3, <3>4, <3>5 DEF DialogueTypes, TextByte
    <2>5. CASE DataByte
      <3>1. PICK b \in Byte : b = Head(rx)  BY <1>2, <2>5 DEF DataByte, Read
      <3>2. at_reset_state
            \/ /\ received' = Append(received, b) /\ Len(received') < DataLength
               /\ late' = FALSE /\ UNCHANGED device_state
        BY <2>5, <3>1 DEF DataByte, Complete
      <3>3. /\ Append(received, b) \in Seq(Byte)
            /\ Len(Append(received, b)) = Len(received) + 1
            /\ Len(received) \in Nat
        BY <3>1, BytesInFacts DEF DialogueTypes
      <3>4. device_state = "WAITING_FOR_DATA"  BY <2>5 DEF DataByte, Read, LoopInv
      <3>5. CASE received' = Append(received, b) /\ Len(received') < DataLength
                 /\ late' = FALSE /\ UNCHANGED device_state
        <4>1. received' \in Seq(Byte) /\ Len(received') \in Nat  BY <3>3, <3>5
        <4>2. Len(received') <= DataLength - 1  BY <1>0, <3>5, <4>1
        <4> QED  BY <3>4, <3>5, <4>1, <4>2 DEF DialogueTypes
      <3> QED  BY <2>2, <3>2, <3>5
    <2> QED
      BY <2>1, <2>2, <2>3, <2>4, <2>5
      DEF Core1, DispatchFrame, DispatchAt, DispatchDialogue, DialogueTimesOut, Drained,
          FrameOverflow, FrameByte, FrameEnds, EndFrame, AtOverflow, AtByte, StoreBelow, AtLine,
          EmptyLine, Command, BadLine, TextEnds, TextIsFull, Complete, otherVars, deviceVars
  <1> QED  BY <1>4, <1>5, <1>6

LEMMA Core1LoopInv ==
    ASSUME InputTypes, DialogueTypes, LoopInv, Core1
    PROVE  LoopInv'
  <1> USE DEF LoopInv, Dialogues
  <1>0. MAX_FLEX_MESSAGE_LENGTH # 0 /\ Len(<<>>) = 0  BY SerialAssumption
  <1>1. CASE DispatchFrame \/ DispatchAt
    BY <1>1 DEF DispatchFrame, DispatchAt, Dispatch, Pending, otherVars, dialogueVars
  <1>2. CASE DispatchDialogue
    BY <1>2 DEF DispatchDialogue, Dispatch, Pending, dialogueVars
  <1>3. CASE DialogueTimesOut
    BY <1>3 DEF DialogueTimesOut, Dispatch, at_reset_state
  <1>4. CASE Drained
    BY <1>4 DEF Drained, deviceVars, frameVars, otherVars, dialogueVars, DialogueTypes
  <1>5. CASE FrameOverflow \/ FrameByte \/ FrameEnds
    BY <1>5 DEF FrameOverflow, FrameByte, FrameEnds, EndFrame, Read, otherVars, dialogueVars
  <1>6. CASE AtOverflow \/ AtByte
    BY <1>6 DEF AtOverflow, AtByte, StoreBelow, Read, frameVars, dialogueVars
  <1>7. CASE AtLine
    <2>1. UNCHANGED dialogueVars \/ (received' = <<>> /\ late' = FALSE
                                     /\ device_state' \in {"WAITING_FOR_MSG", "WAITING_FOR_DATA"})
      BY <1>7, KindNames DEF AtLine, EmptyLine, Command, OpenDialogue, BadLine
    <2> QED  BY <1>0, <1>7, <2>1 DEF AtLine, frameVars, dialogueVars
  <1>8. CASE TextByte
    BY <1>8 DEF TextByte, Read, frameVars
  <1>9. CASE TextEnds \/ TextIsFull
    BY <1>9 DEF TextEnds, TextIsFull, Complete, at_reset_state, Read, frameVars
  <1>10. CASE DataByte
    BY <1>10 DEF DataByte, Complete, at_reset_state, Read, frameVars
  <1> QED  BY <1>1, <1>2, <1>3, <1>4, <1>5, <1>6, <1>7, <1>8, <1>9, <1>10 DEF Core1

LEMMA Core1Sending ==
    ASSUME HostTypes, InputTypes, SendingInv, UNCHANGED hostVars, NEW m, Drops(m)
    PROVE  SendingInv'
  <1>1. UNCHANGED <<items, sending, pause>>  BY DEF hostVars
  <1>2. PICK l \in Nat, n \in Nat : l = Len(Stream) /\ n = Len(Stream')
    BY DropPlaces, Zenon
  <1>3. /\ m \in Nat /\ l = n + m
        /\ \A j \in 1 .. n : j + m \in 1 .. l /\ Stream'[j] = Stream[j + m]
        /\ Stream \in Seq(Byte) /\ Stream' \in Seq(Byte)
    BY <1>2, DropPlaces, Zenon
  <1>4. ASSUME Stream' # <<>>, sending # <<>> \/ Last.whole
        PROVE  Stream'[n] = BytesOf(Len(items))[Len(Form[Last.kind])]
    <2>1. n \in 1 .. n /\ n + m = l /\ l > 0  BY <1>2, <1>3, <1>4
    <2>2. Stream # <<>>
      <3>1. Len(<<>>) = 0  OBVIOUS
      <3> QED  BY <1>2, <2>1, <3>1
    <2>3. Stream'[n] = Stream[l]  BY <1>3, <2>1
    <2> QED  BY <1>2, <1>4, <2>2, <2>3 DEF SendingInv
  <1>5. Last' = Last /\ \A i : BytesOf(i)' = BytesOf(i)  BY <1>1 DEF Last, BytesOf
  <1> QED  BY <1>1, <1>2, <1>4, <1>5 DEF SendingInv

(* An item that takes effect has not done so before, and will not again.   *)
LEMMA TakenOnce ==
    ASSUME OrderInv, UNCHANGED items, NEW m, Moves(m, "none"),
           NEW i \in 1 .. Len(items), NEW b, Begins(b, i),
           \/ b \in BytesIn(binary_frame_buffer) /\ BytesIn(binary_frame_buffer)' = {}
           \/ b \in BytesIn(at_buffer) /\ BytesIn(at_buffer)' = {}
           \/ b \in BytesIn(received) /\ BytesIn(received)' = {}
           \/ b = Stream[1] /\ Stream # <<>> /\ Drops(1)
    PROVE  i \in 1 .. MaxItems /\ served[i] = 0 /\ UsedUp(i)'
  <1>0. /\ HostTypes /\ InputTypes /\ BufferInv /\ StreamInv /\ ServedInv
        /\ served \in [1 .. MaxItems -> {0, 1}]
    BY DEF OrderInv
  <1>1. i \in 1 .. MaxItems
    <2>1. Len(items) \in Nat /\ Len(items) <= MaxItems /\ MaxItems \in Nat
      BY <1>0, SerialAssumption DEF HostTypes
    <2> QED  BY <2>1
  <1>2. BufferInv' /\ Drops(m)  BY <1>0, MovedBytes DEF Moves
  <1>3. /\ IsByte(b) /\ Passed(b)'
        /\ b \in BytesIn(Stream) \union BytesIn(binary_frame_buffer) \union BytesIn(at_buffer)
                 \union BytesIn(received)
        /\ b \notin BytesIn(binary_frame_buffer)'
        /\ b \notin BytesIn(at_buffer)'
        /\ b \notin BytesIn(received)'
    <2>1. CASE b = Stream[1] /\ Stream # <<>> /\ Drops(1)
      <3>1. IsByte(b) /\ Passed(b)' /\ b \in BytesIn(Stream) /\ \A d : Passed(d) => d # b
        BY <1>0, <2>1, ReadByte
      <3> QED  BY <1>0, <3>1 DEF BufferInv, HeldInv, Moves, Into
    <2>2. CASE ~(b = Stream[1] /\ Stream # <<>> /\ Drops(1))
      <3>1. IsByte(b) /\ Passed(b)  BY <1>0, <2>2 DEF BufferInv, HeldInv
      <3>2. Passed(b)'
        BY <1>0, <1>2, <3>1, DropPlaces DEF Passed
      <3> QED  BY <1>0, <2>2, <3>1, <3>2 DEF BufferInv, Apart, Moves, Into
    <2> QED  BY <2>1, <2>2
  <1>4. served[i] = 0  BY <1>0, <1>1, <1>3 DEF ServedInv, UsedUp
  <1>5. ASSUME NEW d, Begins(d, i), IsByte(d) PROVE d = b
    BY <1>3, <1>5 DEF Begins, IsByte
  <1>6. ASSUME NEW d, IsByte(d)' PROVE IsByte(d)
    BY <1>6 DEF IsByte, BytesOf, KindOf
  <1>7. UsedUp(i)'
    <2> SUFFICES ASSUME NEW d \in (BytesIn(Stream) \union BytesIn(binary_frame_buffer)
                                   \union BytesIn(at_buffer) \union BytesIn(received))',
                        Begins(d, i)
                 PROVE  FALSE
      BY DEF UsedUp, Begins
    <2>1. CASE d \in BytesIn(Stream)'
      <3>1. Earlier(b, d)  BY <1>3, <2>1 DEF Passed, BytesIn, Earlier
      <3> QED  BY <1>1, <3>1 DEF Earlier, Begins
    <2>2. CASE d \notin BytesIn(Stream)'
      <3>1. IsByte(d)'  BY <1>2, <2>2 DEF BufferInv, HeldInv
      <3> QED  BY <1>3, <1>5, <1>6, <2>2, <3>1
    <2> QED  BY <2>1, <2>2
  <1> QED  BY <1>1, <1>4, <1>7

(* The line a command is read from begins as the buffer does.              *)
LEMMA LineBegins ==
    ASSUME InputTypes, NEW b, Line = {b}
    PROVE  at_buffer # <<>> /\ b = at_buffer[1] /\ b \in BytesIn(at_buffer)
  <1>0. at_buffer \in Seq(Byte)  BY DEF InputTypes
  <1>1. PICK n \in Nat : n = Len(at_buffer)  BY <1>0, LenProperties
  <1>2. PICK j \in 1 .. n : \A k \in 1 .. j : at_buffer[k][1] # "z"  BY <1>1 DEF Line
  <1>3. 1 \in 1 .. n /\ \A k \in 1 .. 1 : k \in 1 .. j  BY <1>1, <1>2
  <1>4. at_buffer[1] \in Line  BY <1>1, <1>2, <1>3 DEF Line
  <1>5. at_buffer # <<>>
    <2>1. Len(<<>>) = 0  OBVIOUS
    <2> QED  BY <1>1, <1>3, <2>1
  <1> QED  BY <1>1, <1>3, <1>4, <1>5 DEF BytesIn

(* The item of an entry of the host's output.                              *)
LEMMA ItemFacts ==
    ASSUME HostTypes, NEW i \in 1 .. Len(items)
    PROVE  /\ i \in 1 .. MaxItems /\ items[i].kind \in AllKinds
           /\ BytesOf(i) \in Seq(Byte) /\ Len(BytesOf(i)) = Len(Form[items[i].kind])
           /\ Len(BytesOf(i)) \in Nat \ {0}
           /\ Begins(BytesOf(i)[1], i)
  <1>1. Len(items) \in Nat /\ Len(items) <= MaxItems /\ MaxItems \in Nat
    BY SerialAssumption DEF HostTypes
  <1>2. i \in 1 .. MaxItems  BY <1>1
  <1>3. items[i].kind \in AllKinds
    <2>1. items[i] \in ItemRecord
      BY ElementOfSeq DEF HostTypes
    <2> QED  BY <2>1, KindNames DEF ItemRecord
  <1>4. Len(Form[items[i].kind]) \in Nat \ {0}  BY <1>3, FormFacts
  <1>5. 1 \in 1 .. Len(Form[items[i].kind])  BY <1>4
  <1> QED  BY <1>2, <1>3, <1>4, <1>5, ItemBytes DEF BytesOf, Begins

LEMMA ContentBegins ==
    ASSUME HostTypes, NEW i \in 1 .. Len(items)
    PROVE  Content(i) \in Seq(Byte) /\ Len(Content(i)) > 0 /\ Begins(Content(i)[1], i)
  <1> DEFINE kind == items[i].kind
  <1>1. PICK s \in Seq(Byte) :
            s = BytesOf(i) /\ Len(s) = Len(Form[kind]) /\ Len(s) \in Nat \ {0} /\ Begins(s[1], i)
    BY ItemFacts
  <1>2. CASE kind = "data"
    BY <1>1, <1>2 DEF Content, BytesOf
  <1>3. CASE kind # "data"
    <2>1. PICK n \in Nat : n = (IF kind = "long" THEN MAX_FLEX_MESSAGE_LENGTH ELSE 1)
                           /\ n > 0 /\ n <= Len(s)
      BY <1>1, LongForm
    <2>2. Content(i) = SubSeq(s, 1, n)  BY <1>1, <1>3, <2>1 DEF Content, BytesOf
    <2>3. /\ SubSeq(s, 1, n) \in Seq(Byte) /\ Len(SubSeq(s, 1, n)) = n
          /\ SubSeq(s, 1, n)[1] = s[1]
      BY <1>1, <2>1
    <2> QED  BY <1>1, <2>1, <2>2, <2>3
  <1> QED  BY <1>2, <1>3

LEMMA ServedOnce ==
    ASSUME OrderInv, UNCHANGED items, NEW m, NEW target, Moves(m, target),
           NEW taken \in SUBSET (1 .. Len(items)),
           \A i \in taken : served[i] = 0 /\ UsedUp(i)',
           served' = [i \in 1 .. MaxItems |-> IF i \in taken THEN served[i] + 1 ELSE served[i]]
    PROVE  served' \in [1 .. MaxItems -> {0, 1}] /\ ServedInv'
  <1>1. \A i : UsedUp(i) => UsedUp(i)'  BY MovedBytes DEF OrderInv
  <1>2. served \in [1 .. MaxItems -> {0, 1}] /\ ServedInv  BY DEF OrderInv
  <1>3. \A i \in 1 .. MaxItems : /\ i \in taken => served'[i] = 1
                                 /\ i \notin taken => served'[i] = served[i]
    BY <1>2
  <1>4. served' \in [1 .. MaxItems -> {0, 1}]  BY <1>2, <1>3
  <1>5. ASSUME NEW i \in 1 .. MaxItems, served'[i] = 1
        PROVE  i <= Len(items') /\ UsedUp(i)'
    <2>1. CASE i \in taken
      <3>1. i \in 1 .. Len(items)  BY <2>1
      <3> QED  BY <2>1, <3>1
    <2>2. CASE i \notin taken
      BY <1>1, <1>2, <1>3, <1>5, <2>2 DEF ServedInv
    <2> QED  BY <2>1, <2>2
  <1> QED  BY <1>4, <1>5 DEF ServedInv

(* What Core 1 reads takes effect at most once.                            *)
LEMMA Core1Served ==
    ASSUME OrderInv, Core1
    PROVE  served' \in [1 .. MaxItems -> {0, 1}] /\ ServedInv'
  <1>0. /\ HostTypes /\ InputTypes /\ DialogueTypes /\ BufferInv /\ StreamInv /\ ServedInv
        /\ served \in [1 .. MaxItems -> {0, 1}]
    BY DEF OrderInv
  <1>1. UNCHANGED items  BY <1>0, Core1Moves DEF hostVars
  <1>2. PICK m, target : Moves(m, target) /\ (UNCHANGED served \/ target = "none")
    BY <1>0, Core1Moves
  <1>3. CASE UNCHANGED served
    <2>1. \A i : UsedUp(i) => UsedUp(i)'  BY <1>0, <1>1, <1>2, MovedBytes
    <2> QED  BY <1>0, <1>1, <1>3, <2>1 DEF ServedInv
  <1>4. ASSUME NEW taken \in SUBSET (1 .. Len(items)), Moves(m, "none"),
               \A i \in taken : \E b : Begins(b, i) /\
                   \/ b \in BytesIn(binary_frame_buffer) /\ BytesIn(binary_frame_buffer)' = {}
                   \/ b \in BytesIn(at_buffer) /\ BytesIn(at_buffer)' = {}
                   \/ b \in BytesIn(received) /\ BytesIn(received)' = {}
                   \/ b = Stream[1] /\ Stream # <<>> /\ Drops(1),
               served' = [i \in 1 .. MaxItems |->
                              IF i \in taken THEN served[i] + 1 ELSE served[i]]
        PROVE  served' \in [1 .. MaxItems -> {0, 1}] /\ ServedInv'
    <2>1. \A i \in taken : served[i] = 0 /\ UsedUp(i)'  BY <1>1, <1>4, TakenOnce
    <2> QED  BY <1>1, <1>4, <2>1, ServedOnce
  <1>5. ASSUME NEW i \in 1 .. Len(items), Moves(m, "none"), Serve(i), NEW b, Begins(b, i),
               \/ b \in BytesIn(binary_frame_buffer) /\ BytesIn(binary_frame_buffer)' = {}
               \/ b \in BytesIn(at_buffer) /\ BytesIn(at_buffer)' = {}
        PROVE  served' \in [1 .. MaxItems -> {0, 1}] /\ ServedInv'
    <2>1. {i} \in SUBSET (1 .. Len(items))  OBVIOUS
    <2>2. served' = [k \in 1 .. MaxItems |-> IF k \in {i} THEN served[k] + 1 ELSE served[k]]
      BY <1>0, <1>5 DEF Serve
    <2> QED  BY <1>4, <1>5, <2>1, <2>2
  <1>6. CASE FrameEnds /\ ~UNCHANGED served
    <2>0. PICK d \in Byte : d = Head(rx) /\ d = Stream[1] /\ Stream # <<>>
      BY <1>0, <1>6, StreamFacts DEF FrameEnds, EndFrame, Read, HostTypes, InputTypes
    <2>1. PICK i :
              /\ d = Stream[1] /\ Stream # <<>> /\ i = d[2]
              /\ items[i].kind \in Frames
              /\ Append(binary_frame_buffer, d) = BytesOf(i)
              /\ Serve(i)
      BY <1>6, <2>0 DEF FrameEnds, EndFrame, BytesOf
    <2>2. i \in 1 .. Len(items)
      <3>1. Len(Stream) \in Nat /\ (Len(Stream) = 0 => Stream = <<>>)
        BY <1>0, StreamFacts, LenProperties, EmptySeq DEF HostTypes, InputTypes
      <3>2. 1 \in 1 .. Len(Stream)  BY <2>1, <3>1
      <3> QED  BY <1>0, <2>1, <3>2 DEF StreamInv, IsByte
    <2>3. Len(BytesOf(i)) = 3
      <3>1. Len(<<"h", "c", "z">>) = 3 /\ Len(<<"h", "n", "z">>) = 3  OBVIOUS
      <3>2. items[i].kind = "frame" \/ items[i].kind = "odd"  BY <2>1 DEF Frames
      <3>3. Len(Form[items[i].kind]) = 3  BY <3>1, <3>2, FrameForm, Zenon
      <3> QED  BY <1>0, <2>2, <3>3, ItemFacts
    <2>4. PICK s \in Seq(Byte), n \in Nat :
              s = binary_frame_buffer /\ n = Len(s) /\ Len(Append(s, d)) = n + 1
              /\ \A k \in 1 .. n : Append(s, d)[k] = s[k]
      BY <1>0 DEF InputTypes
    <2>5. 1 \in 1 .. n
      <3>1. Append(s, d) = BytesOf(i)  BY <2>1, <2>4
      <3>2. n + 1 = 3  BY <2>3, <2>4, <3>1
      <3> QED  BY <3>2
    <2>6. Begins(s[1], i) /\ s[1] \in BytesIn(binary_frame_buffer)
      BY <1>0, <2>1, <2>2, <2>4, <2>5, ItemFacts DEF BytesIn
    <2>7. BytesIn(binary_frame_buffer)' = {}
      BY <1>6, BytesInFacts DEF FrameEnds, EndFrame
    <2> QED  BY <1>2, <1>5, <1>6, <2>1, <2>2, <2>6, <2>7
  <1>7. CASE AtLine /\ ~UNCHANGED served
    <2>1. PICK i \in 1 .. Len(items) :
              \E kind \in AllKinds : IsCommand(i, kind) /\ Serve(i)
      BY <1>7, KindNames DEF AtLine, EmptyLine, Command, OpenDialogue, BadLine, AllKinds, LineKinds
    <2>2. Line = {BytesOf(i)[1]} /\ Serve(i)  BY <2>1 DEF IsCommand, BytesOf
    <2>3. BytesOf(i)[1] \in BytesIn(at_buffer)  BY <1>0, <2>2, LineBegins
    <2>4. Begins(BytesOf(i)[1], i)  BY <1>0, ItemFacts
    <2>5. BytesIn(at_buffer)' = {}
      BY <1>7, BytesInFacts DEF AtLine
    <2> QED  BY <1>2, <1>5, <1>7, <2>2, <2>3, <2>4, <2>5
  <1>8. ASSUME NEW message \in Seq(Byte), Complete(message), Moves(m, "none"),
               message # <<>> => \/ message[1] \in BytesIn(received)
                                 \/ message[1] = Stream[1] /\ Stream # <<>> /\ Drops(1)
        PROVE  served' \in [1 .. MaxItems -> {0, 1}] /\ ServedInv'
    <2> DEFINE taken == {i \in 1 .. Len(items) : /\ items[i].kind \in {"text", "long", "data"}
                                                 /\ message = Content(i)}
    <2>1. /\ taken \in SUBSET (1 .. Len(items))
          /\ served' = [i \in 1 .. MaxItems |-> IF i \in taken THEN served[i] + 1 ELSE served[i]]
          /\ BytesIn(received)' = {}
      BY <1>8, BytesInFacts DEF Complete, at_reset_state
    <2>2. \A i \in taken : message # <<>> /\ Begins(message[1], i)
      <3> TAKE i \in taken
      <3>1. message = Content(i) /\ i \in 1 .. Len(items)  OBVIOUS
      <3>2. Len(message) > 0 /\ Begins(message[1], i)  BY <1>0, <3>1, ContentBegins
      <3>3. Len(<<>>) = 0  OBVIOUS
      <3> QED  BY <3>2, <3>3
    <2> HIDE DEF taken
    <2> QED  BY <1>4, <1>8, <2>1, <2>2
  <1>9. CASE (TextEnds \/ TextIsFull) /\ ~UNCHANGED served
    <2>1. PICK s \in Seq(Byte) : s = received  BY <1>0 DEF DialogueTypes
    <2>2. s # <<>> => s[1] \in BytesIn(received)
      <3>1. s # <<>> => 1 \in 1 .. Len(s)  BY <2>1
      <3> QED  BY <2>1, <3>1 DEF BytesIn
    <2>3. Complete(s)  BY <1>9, <2>1 DEF TextEnds, TextIsFull
    <2> QED  BY <1>2, <1>8, <1>9, <2>1, <2>2, <2>3
  <1>10. CASE DataByte /\ ~UNCHANGED served
    <2>1. PICK s \in Seq(Byte), d \in Byte, n \in Nat :
              s = received /\ d = Head(rx) /\ d = Stream[1] /\ Stream # <<>> /\ n = Len(s)
      BY <1>0, <1>10, StreamFacts DEF DataByte, Read, DialogueTypes, InputTypes, HostTypes
    <2>2. Complete(Append(s, d))  BY <1>10, <2>1 DEF DataByte
    <2>3. Drops(1)  BY <1>0, <1>10, ReadingDrops DEF DataByte, Read, hostVars
    <2>4. /\ Append(s, d) \in Seq(Byte)
          /\ n > 0 => Append(s, d)[1] = s[1] /\ 1 \in 1 .. n
          /\ n = 0 => Append(s, d)[1] = d
      BY <2>1
    <2>5. Append(s, d)[1] \in BytesIn(received) \/ Append(s, d)[1] = Stream[1]
      BY <2>1, <2>4 DEF BytesIn
    <2> QED  BY <1>2, <1>8, <1>10, <2>1, <2>2, <2>3, <2>4, <2>5
  <1>11. UNCHANGED served \/ FrameEnds \/ AtLine \/ TextEnds \/ TextIsFull \/ DataByte
    BY DEF Core1, DispatchFrame, DispatchAt, DispatchDialogue, DialogueTimesOut, Drained,
       FrameOverflow, FrameByte, AtOverflow, AtByte, StoreBelow, TextByte, otherVars, deviceVars
  <1> QED  BY <1>3, <1>6, <1>7, <1>9, <1>10, <1>11

LEMMA Core1Order ==
    ASSUME OrderInv, Core1
    PROVE  OrderInv'
  <1>1. /\ HostTypes /\ InputTypes /\ DialogueTypes /\ BufferInv /\ StreamInv /\ SendingInv
        /\ ServedInv /\ LoopInv
    BY DEF OrderInv
  <1>2. UNCHANGED hostVars /\ UNCHANGED items  BY <1>1, Core1Moves DEF hostVars
  <1>3. PICK m, target : Moves(m, target)  BY <1>1, Core1Moves
  <1>4. BufferInv' /\ StreamInv'  BY <1>1, <1>2, <1>3, MovedBytes
  <1>5. SendingInv'  BY <1>1, <1>2, <1>3, Core1Sending DEF Moves
  <1>6. LoopInv'  BY <1>1, Core1LoopInv
  <1>7. HostTypes' /\ InputTypes' /\ DialogueTypes'  BY <1>1, Core1Types
  <1>8. served' \in [1 .. MaxItems -> {0, 1}] /\ ServedInv'  BY Core1Served
  <1> QED  BY <1>4, <1>5, <1>6, <1>7, <1>8 DEF OrderInv

-----------------------------------------------------------------------------
(* The host sends, breaks off and pauses: the order of the bytes.          *)

LEMMA LastItem ==
    ASSUME HostTypes, items # <<>>
    PROVE  Len(items) \in 1 .. Len(items) /\ Last = items[Len(items)]
  <1>1. items \in Seq(ItemRecord)
    BY DEF HostTypes
  <1>2. PICK n \in Nat : n = Len(items)  BY <1>1, LenProperties
  <1>3. n > 0  BY <1>1, <1>2, EmptySeq
  <1> QED  BY <1>2, <1>3 DEF Last

(* What has not gone out yet is the end of the last item.                  *)
LEMMA SendingBytes ==
    ASSUME HostTypes, InputTypes, StreamInv, SendingInv, sending # <<>>
    PROVE  \E f, n \in Nat \ {0} :
               /\ f = Len(Form[Last.kind]) /\ n = Len(sending) /\ n <= f
               /\ \A j \in 1 .. n : /\ sending[j][1] = Form[Last.kind][f - n + j]
                                    /\ sending[j][2] = Len(items)
                                    /\ sending[j][3] = f - n + j
  <1> DEFINE L == Len(items)
  <1>0. rx \in Seq(Byte) /\ sending \in Seq(Byte)  BY DEF HostTypes, InputTypes
  <1>1. items # <<>>  BY DEF SendingInv
  <1>2. L \in 1 .. L /\ Last = items[L] /\ items[L].kind \in AllKinds /\ L \in 1 .. MaxItems
    BY <1>1, LastItem, ItemFacts
  <1>3. PICK f \in Nat \ {0} : f = Len(Form[Last.kind])  BY <1>2, FormFacts
  <1>4. PICK r \in Nat, n \in Nat : r = Len(rx) /\ n = Len(sending) /\ Len(Stream) = r + n
    BY <1>0, StreamFacts
  <1>5. n > 0  BY <1>0, <1>4, EmptySeq
  <1>6. Stream # <<>> /\ \A j \in 1 .. n : Stream[r + j] = sending[j]
    BY <1>0, <1>4, StreamFacts
  <1>7. \A k \in 1 .. f : /\ BytesOf(L)[k][1] = Form[Last.kind][k]
                          /\ BytesOf(L)[k][2] = L /\ BytesOf(L)[k][3] = k
    BY <1>2, <1>3, ItemBytes DEF BytesOf
  <1>8. Stream[r + n][2] = L /\ Stream[r + n][3] = f
    BY <1>3, <1>4, <1>6, <1>7 DEF SendingInv
  <1>9. ASSUME NEW j \in 1 .. n
        PROVE  /\ sending[j][1] = Form[Last.kind][f - n + j]
               /\ sending[j][2] = L
               /\ sending[j][3] = f - n + j
               /\ f - n + j >= 1
    <2>1. r + j \in 1 .. r + n /\ r + n \in 1 .. r + n /\ (r + j < r + n \/ j = n)
      BY <1>4, <1>5
    <2>2. PICK b : b = sending[j] /\ b = Stream[r + j]  BY <1>6
    <2>3. b[2] = L  BY <1>4, <2>2 DEF SendingInv
    <2>4. IsByte(b)  BY <1>4, <2>1, <2>2 DEF StreamInv
    <2>5. PICK p \in 1 .. f : p = b[3] /\ b = BytesOf(L)[p]
      BY <1>2, <1>3, <2>3, <2>4 DEF IsByte, KindOf
    <2>6. p = f - n + j
      <3>1. CASE j = n
        <4>1. b[3] = f  BY <1>8, <2>2, <3>1
        <4> QED  BY <2>5, <3>1, <4>1
      <3>2. CASE r + j < r + n
        <4>1. \/ b[2] = Stream[r + n][2] /\ Stream[r + n][3] - b[3] = (r + n) - (r + j)
              \/ b[2] < Stream[r + n][2]
          BY <1>4, <2>1, <2>2, <3>2 DEF StreamInv
        <4>2. \/ L = L /\ f - p = (r + n) - (r + j)
              \/ L < L
          BY <1>8, <2>3, <2>5, <4>1, Zenon
        <4>3. f - p = (r + n) - (r + j)  BY <1>2, <4>2
        <4> QED  BY <4>3
      <3> QED  BY <2>1, <3>1, <3>2
    <2>7. b[1] = Form[Last.kind][p] /\ b[2] = L /\ b[3] = p  BY <1>7, <2>5
    <2>8. f - n + j >= 1  BY <2>5, <2>6
    <2>9. b[1] = Form[Last.kind][f - n + j] /\ b[3] = f - n + j  BY <2>6, <2>7, Zenon
    <2> QED  BY <2>2, <2>3, <2>8, <2>9, Zenon
  <1>10. n <= f
    <2>1. 1 \in 1 .. n  BY <1>5
    <2>2. f - n + 1 >= 1  BY <1>9, <2>1
    <2> QED  BY <2>2
  <1> n \in Nat \ {0}  BY <1>5
  <1> WITNESS f \in Nat \ {0}, n \in Nat \ {0}
  <1> QED  BY <1>3, <1>4, <1>9, <1>10, Zenon

(* The host only adds to the end of what is to be read, and changes no     *)
(* item's bytes.                                                           *)
Grows ==
    /\ Len(items) <= Len(items')
    /\ \A i \in 1 .. Len(items) : items'[i].kind = items[i].kind
    /\ \A k \in 1 .. Len(Stream') : \/ k \in 1 .. Len(Stream) /\ Stream'[k] = Stream[k]
                                    \/ Stream'[k][2] = Len(items) + 1
    /\ UNCHANGED <<binary_frame_buffer, at_buffer, received, served>>

LEMMA HostHeld ==
    ASSUME OrderInv, HostTypes', Grows
    PROVE  BufferInv' /\ ServedInv' /\ \A b : IsByte(b) => IsByte(b)'
  <1>0. HostTypes /\ BufferInv /\ ServedInv  BY DEF OrderInv
  <1>1. PICK L \in Nat, M \in Nat : L = Len(items) /\ M = Len(items') /\ L <= M
    BY <1>0, LenProperties DEF HostTypes, Grows
  <1>2. ASSUME NEW b, IsByte(b) PROVE IsByte(b)' /\ b[2] \in 1 .. L
    <2>1. b[2] \in 1 .. L /\ b[2] \in 1 .. M  BY <1>1, <1>2 DEF IsByte
    <2>2. items'[b[2]].kind = items[b[2]].kind  BY <1>1, <2>1 DEF Grows
    <2> QED  BY <1>1, <1>2, <2>1, <2>2 DEF IsByte, KindOf, BytesOf
  <1>3. ASSUME NEW b, IsByte(b), Passed(b) PROVE Passed(b)'
    <2> SUFFICES ASSUME NEW k \in 1 .. Len(Stream') PROVE Earlier(b, Stream'[k])
      BY DEF Passed, Earlier
    <2>1. CASE k \in 1 .. Len(Stream) /\ Stream'[k] = Stream[k]
      BY <1>3, <2>1 DEF Passed
    <2>2. CASE Stream'[k][2] = Len(items) + 1
      <3>1. b[2] < L + 1  BY <1>2, <1>3
      <3> QED  BY <1>1, <2>2, <3>1 DEF Earlier
    <2> QED  BY <2>1, <2>2 DEF Grows
  <1>4. BufferInv'
    <2>1. /\ BytesIn(binary_frame_buffer)' = BytesIn(binary_frame_buffer)
          /\ BytesIn(at_buffer)' = BytesIn(at_buffer)
          /\ BytesIn(received)' = BytesIn(received)
      BY DEF BytesIn, Grows
    <2> QED  BY <1>0, <1>2, <1>3, <2>1 DEF BufferInv, HeldInv, Apart
  <1>5. ASSUME NEW i \in 1 .. L, UsedUp(i) PROVE UsedUp(i)'
    <2>1. \A b \in BytesIn(Stream)' : ~Begins(b, i)
      <3> SUFFICES ASSUME NEW k \in 1 .. Len(Stream') PROVE ~Begins(Stream'[k], i)
        BY DEF BytesIn
      <3>1. CASE k \in 1 .. Len(Stream) /\ Stream'[k] = Stream[k]
        BY <1>5, <3>1 DEF UsedUp, BytesIn
      <3>2. CASE Stream'[k][2] = Len(items) + 1
        <4>1. L + 1 # i  BY <1>1
        <4> QED  BY <1>1, <3>2, <4>1 DEF Begins
      <3> QED  BY <3>1, <3>2 DEF Grows
    <2> QED  BY <1>5, <2>1 DEF UsedUp, Grows, BytesIn, Begins
  <1>6. ServedInv'
    <2> SUFFICES ASSUME NEW i \in 1 .. MaxItems, served[i] = 1
                 PROVE  i <= M /\ UsedUp(i)'
      BY <1>1 DEF ServedInv, Grows
    <2>1. i <= L /\ UsedUp(i)  BY <1>0, <1>1 DEF ServedInv
    <2>2. i \in 1 .. L /\ i <= M  BY <1>1, <2>1
    <2> QED  BY <1>5, <2>1, <2>2
  <1> QED  BY <1>2, <1>4, <1>6

LEMMA BeginTypes ==
    ASSUME HostTypes, SendingInv, NEW kind \in Kinds, BeginItem(kind)
    PROVE  /\ HostTypes'
           /\ \E L \in Nat, f \in Nat \ {0} :
                  /\ L = Len(items) /\ Len(items') = L + 1 /\ f = Len(Form[kind])
                  /\ \A i \in 1 .. L : items'[i] = items[i]
                  /\ items'[L + 1].kind = kind /\ ~items'[L + 1].whole /\ Last' = items'[L + 1]
                  /\ items' # <<>>
                  /\ sending' = Bytes(L + 1, kind) /\ sending' \in Seq(Byte) /\ Len(sending') = f
                  /\ \A j \in 1 .. f : sending'[j][2] = L + 1 /\ sending'[j][3] = j
  <1>1. PICK L \in Nat : L = Len(items)  BY LenProperties DEF HostTypes
  <1>2. L + 1 \in 1 .. MaxItems
    BY <1>1, SerialAssumption DEF BeginItem, HostTypes
  <1>3. kind \in AllKinds  BY KindNames
  <1>4. PICK f \in Nat \ {0} : f = Len(Form[kind])  BY <1>3, FormFacts
  <1>5. /\ sending' = Bytes(L + 1, kind) /\ sending' \in Seq(Byte) /\ Len(sending') = f
        /\ \A j \in 1 .. f : sending'[j][2] = L + 1 /\ sending'[j][3] = j
    BY <1>1, <1>2, <1>3, <1>4, ItemBytes DEF BeginItem
  <1> DEFINE Item == ItemRecord
             item == [kind |-> kind, whole |-> FALSE, fresh |-> StartsFresh(kind),
                      tidy |-> StartsTidy, behind |-> abandoned]
  <1>6. items' = Append(items, item) /\ item \in Item
    <2>0. ASSUME pause = "none" PROVE Last \in Item
      <3>1. Len(items) \in 1 .. Len(items) /\ Last = items[Len(items)]
        BY <2>0, LastItem DEF SendingInv
      <3>2. items \in Seq(Item)  BY DEF HostTypes
      <3> QED  BY <3>1, <3>2, ElementOfSeq
    <2>1. StartsFresh(kind) \in BOOLEAN
      <3>1. CASE pause = "long"  BY <3>1 DEF StartsFresh
      <3>2. CASE pause = "short"  BY <3>2 DEF StartsFresh, HostTypes
      <3>3. CASE pause = "none"  BY <3>3 DEF StartsFresh, InStep
      <3> QED  BY <3>1, <3>2, <3>3 DEF HostTypes
    <2>2. StartsTidy \in BOOLEAN
      <3>1. CASE pause = "none"  BY <2>0, <3>1 DEF StartsTidy, ItemRecord
      <3>2. CASE pause # "none"  BY <3>2 DEF StartsTidy
      <3> QED  BY <3>1, <3>2
    <2>3. item \in Item  BY <2>1, <2>2 DEF HostTypes, ItemRecord
    <2> QED  BY <2>3 DEF BeginItem
  <1>. item.kind = kind /\ item.whole = FALSE  OBVIOUS
  <1> HIDE DEF item
  <1>7. /\ items' \in Seq(Item) /\ Len(items') = L + 1 /\ items'[L + 1] = item
        /\ \A i \in 1 .. L : items'[i] = items[i]
    BY <1>1, <1>6 DEF HostTypes
  <1>8. items' # <<>>  BY <1>7, EmptySeq
  <1>9. HostTypes'
    <2>1. L + 1 <= MaxItems  BY <1>2
    <2>2. awaiting' \in BOOLEAN /\ UNCHANGED <<dialogue, abandoned, pause>>  BY DEF BeginItem
    <2> QED  BY <1>5, <1>7, <2>1, <2>2 DEF HostTypes, BeginItem
  <1> QED  BY <1>1, <1>4, <1>5, <1>6, <1>7, <1>8, <1>9 DEF Last

LEMMA BeginOrder ==
    ASSUME OrderInv, NEW kind \in Kinds, BeginItem(kind)
    PROVE  OrderInv'
  <1>0. /\ HostTypes /\ InputTypes /\ DialogueTypes /\ BufferInv /\ StreamInv /\ SendingInv
        /\ ServedInv /\ LoopInv /\ served \in [1 .. MaxItems -> {0, 1}]
    BY DEF OrderInv
  <1>1. UNCHANGED <<rx, core1, deviceVars>> /\ sending = <<>>  BY DEF BeginItem
  <1>2. /\ rx \in Seq(Byte)
        /\ UNCHANGED <<binary_frame_buffer, at_buffer, received, served>>
    BY <1>0, <1>1 DEF InputTypes, deviceVars, frameVars, otherVars, dialogueVars
  <1>3. PICK L \in Nat, f \in Nat \ {0} :
            /\ L = Len(items) /\ Len(items') = L + 1 /\ f = Len(Form[kind])
            /\ \A i \in 1 .. L : items'[i] = items[i]
            /\ items'[L + 1].kind = kind /\ ~items'[L + 1].whole /\ Last' = items'[L + 1]
            /\ items' # <<>>
            /\ sending' = Bytes(L + 1, kind) /\ sending' \in Seq(Byte) /\ Len(sending') = f
            /\ \A j \in 1 .. f : sending'[j][2] = L + 1 /\ sending'[j][3] = j
    BY <1>0, BeginTypes
  <1>4. HostTypes'  BY <1>0, BeginTypes
  <1>5. Stream = rx  BY <1>0, <1>1, ConcatEmptySeq DEF Stream, InputTypes
  <1>6. PICK r \in Nat : r = Len(rx) /\ r = Len(Stream)  BY <1>2, <1>5, LenProperties
  <1>p. PICK old \in Seq(Byte) : old = rx /\ Len(old) = r  BY <1>2, <1>6
  <1>q. PICK out \in Seq(Byte) : out = sending' /\ Len(out) = f  BY <1>3
  <1>r. /\ old \o out \in Seq(Byte) /\ Len(old \o out) = Len(old) + Len(out)
        /\ \A j \in 1 .. Len(old) : (old \o out)[j] = old[j]
        /\ \A j \in 1 .. Len(out) : (old \o out)[Len(old) + j] = out[j]
    BY Concatenation, Zenon
  <1>s. PICK new \in Seq(Byte) : new = old \o out  BY <1>r, Zenon
  <1>t. new = Stream' /\ old = Stream
    BY <1>1, <1>5, <1>p, <1>q, <1>s, Zenon DEF Stream
  <1>u. Len(new) = r + f  BY <1>p, <1>q, <1>r, <1>s, Zenon
  <1>v. new # <<>>
    <2>1. r + f > 0 /\ Len(<<>>) = 0  OBVIOUS
    <2> QED  BY <1>u, <2>1
  <1>a. \A j \in 1 .. f : new[r + j] = out[j]  BY <1>p, <1>q, <1>r, <1>s, Zenon
  <1>b. \A j \in 1 .. f : out[j][2] = L + 1 /\ out[j][3] = j  BY <1>3, <1>q, Zenon
  <1>d. \A j \in 1 .. r : new[j] = old[j]  BY <1>p, <1>r, <1>s, Zenon
  <1>7. /\ new = Stream' /\ old = Stream /\ out = sending'
        /\ Len(new) = r + f /\ Len(old) = r /\ Len(out) = f
        /\ \A j \in 1 .. r : new[j] = old[j]
        /\ \A j \in 1 .. f : /\ new[r + j] = out[j]
                             /\ out[j][2] = L + 1 /\ out[j][3] = j
        /\ new # <<>>
    BY <1>a, <1>b, <1>d, <1>p, <1>q, <1>t, <1>u, <1>v
  <1>c. \A j \in 1 .. f : new[r + j][2] = L + 1 /\ new[r + j][3] = j  BY <1>a, <1>b, Zenon
  <1>8. ASSUME NEW k \in 1 .. r + f, k \notin 1 .. r
        PROVE  new[k][2] = L + 1 /\ \E j \in 1 .. f : k = r + j
    <2>1. k - r \in 1 .. f /\ k = r + (k - r)  BY <1>8
    <2>2. PICK j \in 1 .. f : k = r + j  BY <2>1
    <2>3. new[r + j][2] = L + 1  BY <1>c
    <2> QED  BY <2>2, <2>3
  <1>9. Grows
    <2>1. \A k \in 1 .. r + f : \/ k \in 1 .. r /\ new[k] = old[k]
                                \/ new[k][2] = L + 1
      BY <1>d, <1>8
    <2>2. L <= L + 1  OBVIOUS
    <2> QED  BY <1>2, <1>3, <1>6, <1>7, <2>1, <2>2 DEF Grows
  <1>10. BufferInv' /\ ServedInv' /\ \A b : IsByte(b) => IsByte(b)'
    BY <1>4, <1>9, HostHeld
  <1>11. ASSUME NEW j \in 1 .. r
         PROVE  (\A b : b = new[j] => IsByte(b)') /\ new[j][2] \in 1 .. L
    <2>1. PICK b : b = old[j] /\ b = new[j]  BY <1>7
    <2>2. IsByte(b)  BY <1>0, <1>6, <1>7, <2>1 DEF StreamInv
    <2>3. b[2] \in 1 .. L  BY <1>3, <2>2 DEF IsByte
    <2> QED  BY <1>10, <2>1, <2>2, <2>3
  <1>12. ASSUME NEW j \in 1 .. f
         PROVE  \A b : b = new[r + j] => IsByte(b)'
    <2> SUFFICES ASSUME NEW b, b = new[r + j] PROVE IsByte(b)'
      OBVIOUS
    <2>1. b[2] = L + 1 /\ b[3] = j /\ b = out[j]  BY <1>a, <1>c, Zenon
    <2>2. b = Bytes(L + 1, kind)[j]  BY <1>3, <1>7, <2>1
    <2>3. L + 1 \in 1 .. L + 1  OBVIOUS
    <2> QED  BY <1>3, <2>1, <2>2, <2>3, Zenon DEF IsByte, KindOf, BytesOf
  <1>13. StreamInv'
    <2>1. \A j \in 1 .. r + f : \A b : b = new[j] => IsByte(b)'  BY <1>8, <1>11, <1>12
    <2>2. ASSUME NEW j \in 1 .. r + f, NEW k \in 1 .. r + f, j < k
          PROVE  \/ new[j][2] = new[k][2] /\ new[k][3] - new[j][3] = k - j
                 \/ new[j][2] < new[k][2]
      <3>1. CASE j \in 1 .. r /\ k \in 1 .. r
        <4>1. \/ old[j][2] = old[k][2] /\ old[k][3] - old[j][3] = k - j
              \/ old[j][2] < old[k][2]
          BY <1>0, <1>6, <1>7, <2>2, <3>1 DEF StreamInv
        <4> QED  BY <1>7, <3>1, <4>1
      <3>2. CASE j \in 1 .. r /\ k \notin 1 .. r
        <4>1. new[k][2] = L + 1  BY <1>8, <3>2
        <4>2. new[j][2] \in 1 .. L  BY <1>11, <3>2
        <4>3. PICK x \in 1 .. L : x = new[j][2]  BY <4>2
        <4>4. x < L + 1  OBVIOUS
        <4> QED  BY <4>1, <4>3, <4>4, Zenon
      <3>3. CASE j \notin 1 .. r
        <4>1. PICK u \in 1 .. f, v \in 1 .. f : j = r + u /\ k = r + v
          <5>1. k \notin 1 .. r  BY <2>2, <3>3
          <5> QED  BY <1>8, <3>3, <5>1
        <4>2. new[j][2] = L + 1 /\ new[k][2] = L + 1 /\ new[j][3] = u /\ new[k][3] = v
          BY <1>c, <4>1, Zenon
        <4>3. v - u = k - j  BY <4>1
        <4> QED  BY <4>2, <4>3, Zenon
      <3> QED  BY <3>1, <3>2, <3>3
    <2>3. ASSUME NEW j \in 1 .. r + f, j = r + f \/ new[j][2] # new[j + 1][2]
          PROVE  /\ items'[new[j][2]].whole => new[j][3] = Len(Form[items'[new[j][2]].kind])
                 /\ j # r + f => new[j + 1][3] = 1
      <3>1. CASE j \in 1 .. r
        <4>1. PICK b : b = old[j] /\ b = new[j] /\ b[2] \in 1 .. L  BY <1>7, <1>11, <3>1
        <4>2. j = r \/ (j + 1 \in 1 .. r /\ old[j][2] # old[j + 1][2])
          <5>1. j = r \/ (j # r + f /\ j + 1 \in 1 .. r)  BY <3>1
          <5> QED  BY <1>7, <2>3, <4>1, <5>1
        <4>3. /\ items[b[2]].whole => b[3] = Len(Form[items[b[2]].kind])
              /\ j # r => old[j + 1][3] = 1
          BY <1>0, <1>6, <1>7, <3>1, <4>1, <4>2 DEF StreamInv, LastOfItem, KindOf
        <4>4. new[j + 1][3] = 1
          <5>1. CASE j = r
            <6>1. 1 \in 1 .. f  OBVIOUS
            <6> QED  BY <1>7, <5>1, <6>1
          <5>2. CASE j # r
            BY <1>7, <4>2, <4>3, <5>2
          <5> QED  BY <5>1, <5>2
        <4> QED  BY <1>3, <4>1, <4>3, <4>4
      <3>2. CASE j \notin 1 .. r
        <4>1. PICK u \in 1 .. f : j = r + u  BY <1>8, <3>2
        <4>2. new[j][2] = L + 1  BY <1>c, <4>1, Zenon
        <4>3. j # r + f => u + 1 \in 1 .. f /\ j + 1 = r + (u + 1)  BY <4>1
        <4>4. j # r + f => new[j + 1][2] = L + 1  BY <1>c, <4>3, Zenon
        <4>5. j = r + f  BY <2>3, <4>2, <4>4
        <4> QED  BY <1>3, <4>2, <4>5
      <3> QED  BY <3>1, <3>2
    <2>4. (\A j \in 1 .. Len(Stream) : IsByte(Stream[j]))'
      BY <1>7, <2>1 DEF IsByte, KindOf, BytesOf
    <2>5. (\A j, k \in 1 .. Len(Stream) : j < k =>
              \/ Stream[j][2] = Stream[k][2] /\ Stream[k][3] - Stream[j][3] = k - j
              \/ Stream[j][2] < Stream[k][2])'
      BY <1>7, <2>2
    <2>6. (\A j \in 1 .. Len(Stream) : LastOfItem(j) =>
              /\ items[Stream[j][2]].whole => Stream[j][3] = Len(Form[KindOf(Stream[j])])
              /\ j # Len(Stream) => Stream[j + 1][3] = 1)'
      BY <1>7, <2>3 DEF LastOfItem, KindOf
    <2> QED  BY <2>4, <2>5, <2>6 DEF StreamInv
  <1>14. SendingInv'
    <2>1. f \in 1 .. f /\ 1 \in 1 .. f  OBVIOUS
    <2>2. new[r + f] = BytesOf(L + 1)'[f] /\ out[1][3] = 1
      BY <1>3, <1>7, <2>1 DEF BytesOf
    <2>3. kind \in {"line", "msg", "send", "text", "long"} => f # 1
      <3>1. Len(<<"c", "r", "n">>) = 3  OBVIOUS
      <3>2. kind \in LineKinds => f = 3  BY <1>3, <3>1, LineForm, Zenon
      <3>3. kind = "long" => f # 1  BY <1>3, LongForm
      <3> QED  BY <3>2, <3>3 DEF LineKinds
    <2> QED  BY <1>3, <1>7, <2>2, <2>3 DEF SendingInv
  <1>15. InputTypes' /\ DialogueTypes' /\ LoopInv'
    BY <1>0, <1>1 DEF InputTypes, DialogueTypes, LoopInv, deviceVars, frameVars, otherVars,
       dialogueVars
  <1> QED  BY <1>0, <1>2, <1>4, <1>10, <1>13, <1>14, <1>15 DEF OrderInv

(* Of the m bytes of the last item still to go, n go out: f is how many it *)
(* has.                                                                    *)
Sends(L, f, m, n) ==
    /\ L = Len(items) /\ Len(items') = L /\ Last = items[L] /\ Last' = items'[L]
    /\ f = Len(Form[Last.kind]) /\ m = Len(sending) /\ m <= f /\ n <= m
    /\ \A i \in 1 .. L : /\ items'[i].kind = items[i].kind
                         /\ i # L => items'[i].whole = items[i].whole
    /\ items'[L].whole <=> sending' = <<>>
    /\ rx' \in Seq(Byte) /\ sending' \in Seq(Byte) /\ Len(sending') = m - n
    /\ \A j \in 1 .. m : sending[j][2] = L /\ sending[j][3] = f - m + j
    /\ \A j \in 1 .. m - n : sending'[j] = sending[n + j]
    /\ Stream' = Stream /\ Stream # <<>>
    /\ Last.kind \in {"line", "msg", "send", "text", "long"} => m # n + 1

LEMMA SendTypes ==
    ASSUME OrderInv, SendByte
    PROVE  HostTypes' /\ \E L, f, m, n \in Nat \ {0} : Sends(L, f, m, n)
  <1>0. HostTypes /\ InputTypes /\ StreamInv /\ SendingInv  BY DEF OrderInv
  <1>1. rx \in Seq(Byte) /\ sending \in Seq(Byte) /\ sending # <<>>
    BY <1>0 DEF HostTypes, InputTypes, SendByte
  <1>2. items # <<>>  BY <1>0, <1>1 DEF SendingInv
  <1>3. PICK L \in Nat \ {0} : L = Len(items) /\ Last = items[L] /\ L \in 1 .. L
    <2>1. Len(items) \in Nat  BY <1>0, LenProperties DEF HostTypes
    <2>2. Len(items) \in 1 .. Len(items) /\ Last = items[Len(items)]  BY <1>0, <1>2, LastItem
    <2> QED  BY <2>1, <2>2
  <1>4. PICK f, m \in Nat \ {0} :
            /\ f = Len(Form[Last.kind]) /\ m = Len(sending) /\ m <= f
            /\ \A j \in 1 .. m : /\ sending[j][1] = Form[Last.kind][f - m + j]
                                 /\ sending[j][2] = Len(items)
                                 /\ sending[j][3] = f - m + j
    BY <1>0, <1>1, SendingBytes, Zenon
  <1>5. Last.kind \in AllKinds  BY <1>0, <1>3, ItemFacts
  <1>5a. PICK n \in Nat \ {0} : n = (IF Head(sending)[1] = "r" THEN 2 ELSE 1)
    OBVIOUS
  <1>6. /\ rx' = rx \o SubSeq(sending, 1, n)
        /\ sending' = SubSeq(sending, n + 1, Len(sending))
    BY <1>5a DEF SendByte
  <1>7. sending[1][1] = Form[Last.kind][f - m + 1] /\ Head(sending) = sending[1]
    <2>1. 1 \in 1 .. m  OBVIOUS
    <2> QED  BY <1>1, <1>4, <2>1
  <1>8. n = (IF Form[Last.kind][f - m + 1] = "r" THEN 2 ELSE 1)  BY <1>5a, <1>7
  <1>9. n <= m
    <2>1. CASE m = 1
      <3>1. f - m + 1 = f  BY <2>1
      <3>2. Form[Last.kind][f] # "r"  BY <1>4, <1>5, FormFacts
      <3> QED  BY <1>8, <2>1, <3>1, <3>2
    <2> QED  BY <1>8, <2>1
  <1>10. PICK s \in Seq(Byte) : s = sending /\ m = Len(s)  BY <1>1, <1>4
  <1>11. /\ SubSeq(s, 1, n) \in Seq(Byte) /\ SubSeq(s, n + 1, m) \in Seq(Byte)
         /\ Len(SubSeq(s, n + 1, m)) = m - n
         /\ \A j \in 1 .. m - n : SubSeq(s, n + 1, m)[j] = s[n + j]
         /\ SubSeq(s, 1, n) \o SubSeq(s, n + 1, m) = s
    <2>1. \A i \in 1 .. m : s[i] \in Byte  BY <1>10, ElementOfSeq
    <2>2. SubSeq(s, 1, n) \in Seq(Byte)
      <3>1. \A i \in 1 .. n : s[i] \in Byte  BY <1>9, <2>1
      <3> QED  BY <3>1, SubSeqProperties
    <2>3. /\ SubSeq(s, n + 1, m) \in Seq(Byte)
          /\ Len(SubSeq(s, n + 1, m)) = m - n
          /\ \A j \in 1 .. m - n : SubSeq(s, n + 1, m)[j] = s[n + j]
      <3>1. PICK a \in Int : a = n + 1  OBVIOUS
      <3>2. m \in Int /\ \A i \in a .. m : s[i] \in Byte  BY <2>1, <3>1
      <3>3. /\ SubSeq(s, a, m) \in Seq(Byte)
            /\ Len(SubSeq(s, a, m)) = IF a <= m THEN m - a + 1 ELSE 0
            /\ \A j \in 1 .. m - a + 1 : SubSeq(s, a, m)[j] = s[a + j - 1]
        BY <3>2, SubSeqProperties
      <3>4. Len(SubSeq(s, a, m)) = m - n /\ m - a + 1 = m - n  BY <1>9, <3>1, <3>3
      <3>5. \A j \in 1 .. m - n : a + j - 1 = n + j  BY <3>1
      <3> QED  BY <3>1, <3>3, <3>4, <3>5
    <2>4. SubSeq(s, 1, n) \o SubSeq(s, n + 1, m) = s
      <3>1. 1 \in 1 .. Len(s) + 1 /\ n \in 1 - 1 .. Len(s) /\ m \in n .. Len(s)
        BY <1>9, <1>10
      <3>2. SubSeq(s, 1, n) \o SubSeq(s, n + 1, m) = SubSeq(s, 1, m)
        BY <3>1, ConcatAdjacentSubSeq
      <3>3. SubSeq(s, 1, m) = s  BY <1>10, SubSeqFull
      <3> QED  BY <3>2, <3>3
    <2> QED  BY <2>2, <2>3, <2>4
  <1>12. rx' \in Seq(Byte) /\ sending' \in Seq(Byte)
    BY <1>1, <1>6, <1>10, <1>11, Concatenation
  <1>13. Stream' = Stream
    <2>1. \A t, u \in Seq(Byte) : (rx \o t) \o u = rx \o (t \o u)
      BY <1>1, ConcatAssociative
    <2>2. (rx \o SubSeq(s, 1, n)) \o SubSeq(s, n + 1, m)
          = rx \o (SubSeq(s, 1, n) \o SubSeq(s, n + 1, m))
      BY <1>11, <2>1
    <2> QED  BY <1>6, <1>10, <1>11, <2>2 DEF Stream
  <1>14. Stream # <<>>  BY <1>0, <1>1, StreamFacts
  <1>15. Last.kind \in {"line", "msg", "send", "text", "long"} => m # n + 1
    <2> SUFFICES ASSUME Last.kind \in {"line", "msg", "send", "text", "long"}, m = n + 1
                 PROVE  FALSE
      OBVIOUS
    <2>1. f - m + 1 = f - n  OBVIOUS
    <2>2. n = 2 \/ n = 1  BY <1>8
    <2>3. CASE Last.kind \in LineKinds
      <3>1. Form[Last.kind] = <<"c", "r", "n">>  BY <2>3, LineForm
      <3>2. f = 3 /\ Form[Last.kind][1] = "c" /\ Form[Last.kind][2] = "r"  BY <1>4, <3>1
      <3> QED  BY <1>8, <2>1, <2>2, <3>2
    <2>4. CASE Last.kind = "long"
      <3>1. PICK max \in Nat \ {0} : max = MAX_FLEX_MESSAGE_LENGTH  BY SerialAssumption
      <3>2. f = max + 3 /\ Form["long"][max + 1] = "c" /\ Form["long"][max + 2] = "r"
        <4>1. max + 1 \in 1 .. max + 1  OBVIOUS
        <4> QED  BY <1>4, <2>4, <3>1, <4>1, LongForm
      <3>3. n = 2 => f - m + 1 = max + 1  BY <2>1, <3>2
      <3>4. n = 1 => f - m + 1 = max + 2  BY <2>1, <3>2
      <3> QED  BY <1>8, <2>2, <2>4, <3>2, <3>3, <3>4
    <2> QED  BY <2>3, <2>4 DEF LineKinds
  <1> DEFINE Item == ItemRecord
  <1>16. /\ items' \in Seq(Item) /\ Len(items') = L /\ Last' = items'[L]
         /\ \A i \in 1 .. L : /\ items'[i].kind = items[i].kind
                              /\ i # L => items'[i].whole = items[i].whole
         /\ items'[L].whole <=> sending' = <<>>
    <2>1. PICK w \in BOOLEAN : w <=> sending' = <<>>  OBVIOUS
    <2>2. items' = [items EXCEPT ![L].whole = w]  BY <1>3, <2>1 DEF SendByte
    <2>3. items \in Seq(Item)  BY <1>0 DEF HostTypes
    <2>4. items' \in Seq(Item) /\ Len(items') = L
      <3>1. items[L] \in Item  BY <1>3, <2>3, ElementOfSeq
      <3>2. PICK item \in Item : item = [items[L] EXCEPT !.whole = w]  BY <3>1 DEF ItemRecord
      <3>3. items' = [items EXCEPT ![L] = item]  BY <2>2, <3>2
      <3> QED  BY <1>3, <2>3, <3>3, ExceptSeq
    <2> QED  BY <1>3, <2>1, <2>2, <2>3, <2>4 DEF Last
  <1>18. HostTypes'
    BY <1>0, <1>3, <1>12, <1>16 DEF HostTypes, SendByte, answerVars
  <1>17. Len(sending') = m - n /\ \A j \in 1 .. m - n : sending'[j] = sending[n + j]
    BY <1>6, <1>10, <1>11
  <1>19. Sends(L, f, m, n)
    BY <1>3, <1>4, <1>9, <1>12, <1>13, <1>14, <1>15, <1>16, <1>17, Zenon DEF Sends
  <1> QED  BY <1>18, <1>19, Zenon

LEMMA SendOrder ==
    ASSUME OrderInv, SendByte
    PROVE  OrderInv'
  <1>0. /\ HostTypes /\ InputTypes /\ DialogueTypes /\ BufferInv /\ StreamInv /\ SendingInv
        /\ ServedInv /\ LoopInv /\ served \in [1 .. MaxItems -> {0, 1}]
    BY DEF OrderInv
  <1>1. UNCHANGED <<core1, deviceVars>>  BY DEF SendByte
  <1>2. UNCHANGED <<binary_frame_buffer, at_buffer, received, served>>
    BY <1>1 DEF deviceVars, frameVars, otherVars, dialogueVars
  <1>3. HostTypes' /\ \E L, f, m, n \in Nat \ {0} : Sends(L, f, m, n)  BY SendTypes
  <1>4. PICK L, f, m, n \in Nat \ {0} : Sends(L, f, m, n)  BY <1>3
  <1>5. /\ L = Len(items) /\ Len(items') = L /\ Last = items[L] /\ Last' = items'[L]
        /\ \A i \in 1 .. L : /\ items'[i].kind = items[i].kind
                             /\ i # L => items'[i].whole = items[i].whole
        /\ items'[L].whole <=> sending' = <<>>
        /\ Stream' = Stream /\ Stream # <<>> /\ sending # <<>>
    BY <1>4 DEF Sends, SendByte
  <1>6. PICK s \in Seq(Byte), l \in Nat : s = Stream /\ s = Stream' /\ l = Len(s)
    BY <1>0, <1>5, StreamFacts, LenProperties DEF HostTypes, InputTypes
  <1>7. Grows
    <2>1. L <= L  OBVIOUS
    <2> QED  BY <1>2, <1>5, <2>1 DEF Grows
  <1>8. BufferInv' /\ ServedInv' /\ \A b : IsByte(b) => IsByte(b)'
    BY <1>3, <1>7, HostHeld
  <1>9. StreamInv'
    <2>1. (\A j \in 1 .. Len(Stream) : IsByte(Stream[j]))'
      <3>1. \A j \in 1 .. l : \A b : b = s[j] => IsByte(b)'
        BY <1>0, <1>6, <1>8 DEF StreamInv
      <3> QED  BY <1>6, <3>1 DEF IsByte, KindOf, BytesOf
    <2>2. (\A j, k \in 1 .. Len(Stream) : j < k =>
              \/ Stream[j][2] = Stream[k][2] /\ Stream[k][3] - Stream[j][3] = k - j
              \/ Stream[j][2] < Stream[k][2])'
      BY <1>0, <1>6 DEF StreamInv
    <2>3. ASSUME NEW j \in 1 .. l, j = l \/ s[j][2] # s[j + 1][2]
          PROVE  /\ items'[s[j][2]].whole => s[j][3] = Len(Form[items'[s[j][2]].kind])
                 /\ j # l => s[j + 1][3] = 1
      <3>1. /\ items[s[j][2]].whole => s[j][3] = Len(Form[items[s[j][2]].kind])
            /\ j # l => s[j + 1][3] = 1
        BY <1>0, <1>6, <2>3 DEF StreamInv, LastOfItem, KindOf
      <3>2. s[j][2] \in 1 .. L  BY <1>0, <1>5, <1>6 DEF StreamInv, IsByte
      <3>3. CASE s[j][2] # L
        BY <1>5, <3>1, <3>2, <3>3
      <3>4. CASE s[j][2] = L
        <4>1. j = l
          <5> SUFFICES ASSUME j # l PROVE FALSE
            OBVIOUS
          <5>1. j + 1 \in 1 .. l /\ j < j + 1  BY <1>6
          <5>2. s[j][2] = s[j + 1][2] \/ s[j][2] < s[j + 1][2]
            BY <1>0, <1>6, <5>1 DEF StreamInv
          <5>3. s[j + 1][2] \in 1 .. L
            BY <1>0, <1>5, <1>6, <5>1 DEF StreamInv, IsByte
          <5> QED  BY <2>3, <3>4, <5>2, <5>3
        <4>2. s[l] = BytesOf(L)[Len(Form[items[L].kind])]
          BY <1>0, <1>5, <1>6 DEF SendingInv
        <4>3. L \in 1 .. L /\ items[L].kind \in AllKinds /\ L \in 1 .. MaxItems
          <5>1. L \in 1 .. L  OBVIOUS
          <5> QED  BY <1>0, <1>5, <5>1, ItemFacts
        <4>4. Len(Form[items[L].kind]) \in 1 .. Len(Form[items[L].kind])
          BY <4>3, FormFacts
        <4>5. s[l][3] = Len(Form[items[L].kind])
          BY <4>2, <4>3, <4>4, ItemBytes DEF BytesOf
        <4> QED  BY <1>5, <3>1, <3>4, <4>1, <4>3, <4>5
      <3> QED  BY <3>3, <3>4
    <2>4. (\A j \in 1 .. Len(Stream) : LastOfItem(j) =>
              /\ items[Stream[j][2]].whole => Stream[j][3] = Len(Form[KindOf(Stream[j])])
              /\ j # Len(Stream) => Stream[j + 1][3] = 1)'
      BY <1>6, <2>3 DEF LastOfItem, KindOf
    <2> QED  BY <2>1, <2>2, <2>4 DEF StreamInv
  <1>10. SendingInv'
    <2>1. items' # <<>>
      <3>1. Len(<<>>) = 0  OBVIOUS
      <3> QED  BY <1>5, <3>1
    <2>2. L \in 1 .. L  OBVIOUS
    <2>3. Last'.kind = Last.kind /\ BytesOf(L)' = BytesOf(L)
      BY <1>5, <2>2 DEF BytesOf
    <2>4. PICK out : out = sending /\ \A j \in 1 .. m : out[j][2] = L /\ out[j][3] = f - m + j
      BY <1>4 DEF Sends
    <2>a. Len(sending') = m - n /\ \A j \in 1 .. m - n : sending'[j] = out[n + j]
      BY <1>4, <2>4 DEF Sends
    <2>5. PICK left : left = sending' /\ Len(left) = m - n /\ \A j \in 1 .. m - n : left[j] = out[n + j]
      BY <2>a, Zenon
    <2>6. \A j \in 1 .. m - n : left[j][2] = L /\ left[j][3] = f - m + (n + j)
      <3> TAKE j \in 1 .. m - n
      <3>1. n + j \in 1 .. m  OBVIOUS
      <3> QED  BY <2>4, <2>5, <3>1, Zenon
    <2>7. /\ f = Len(Form[Last.kind])
          /\ Last.kind \in {"line", "msg", "send", "text", "long"} => m # n + 1
          /\ n <= m /\ sending' \in Seq(Byte)
      BY <1>4 DEF Sends
    <2>8. Last.kind \in {"line", "msg", "send", "text", "long"} /\ left # <<>> => left[1][3] # f
      <3> SUFFICES ASSUME Last.kind \in {"line", "msg", "send", "text", "long"}, left # <<>>
                   PROVE  left[1][3] # f
        OBVIOUS
      <3>1. 1 \in 1 .. m - n /\ m # n + 1
        BY <2>5, <2>7, EmptySeq
      <3>2. left[1][3] = f - m + (n + 1)  BY <2>6, <3>1
      <3>3. f - m + (n + 1) # f  BY <3>1
      <3> QED  BY <3>2, <3>3
    <2>9. s[l] = BytesOf(L)[f]
      BY <1>0, <1>5, <1>6, <2>7 DEF SendingInv
    <2>10. (\A j \in 1 .. Len(sending) : sending[j][2] = Len(items))'
      BY <1>5, <2>5, <2>6
    <2>11. (sending # <<>> => items # <<>> /\ ~Last.whole)'
      BY <1>5, <2>1
    <2>12. (Stream[Len(Stream)] = BytesOf(Len(items))[Len(Form[Last.kind])])'
      <3>1. Bytes(L, items'[L].kind) = BytesOf(L)  BY <2>3 DEF BytesOf
      <3>2. Stream'[Len(Stream')] = Bytes(L, items'[L].kind)[f]  BY <1>6, <2>9, <3>1
      <3> QED  BY <1>5, <2>3, <2>7, <3>2 DEF BytesOf
    <2>13. (sending # <<>> /\ Last.kind \in {"line", "msg", "send", "text", "long"} =>
                sending[1][3] # Len(Form[Last.kind]))'
      BY <2>3, <2>5, <2>7, <2>8
    <2> QED  BY <2>1, <2>10, <2>11, <2>12, <2>13, Zenon DEF SendingInv
  <1>11. InputTypes' /\ DialogueTypes' /\ LoopInv'
    <2>1. rx' \in Seq(Byte)  BY <1>4 DEF Sends
    <2> QED  BY <1>0, <1>1, <2>1 DEF InputTypes, DialogueTypes, LoopInv, deviceVars, frameVars,
                otherVars, dialogueVars
  <1> QED  BY <1>0, <1>2, <1>3, <1>8, <1>9, <1>10, <1>11 DEF OrderInv

LEMMA BreakOffOrder ==
    ASSUME OrderInv, BreakOff
    PROVE  OrderInv'
  <1>0. /\ HostTypes /\ InputTypes /\ DialogueTypes /\ BufferInv /\ StreamInv /\ SendingInv
        /\ ServedInv /\ LoopInv /\ served \in [1 .. MaxItems -> {0, 1}]
    BY DEF OrderInv
  <1>1. UNCHANGED <<items, answerVars, pause, rx, core1, deviceVars>> /\ sending' = <<>>
    BY DEF BreakOff
  <1>2. UNCHANGED <<binary_frame_buffer, at_buffer, received, served>>
    BY <1>1 DEF deviceVars, frameVars, otherVars, dialogueVars
  <1>3. HostTypes'
    <2>1. sending' \in Seq(Byte)  BY <1>1
    <2> QED  BY <1>0, <1>1, <2>1 DEF HostTypes, answerVars
  <1>4. sending # <<>> /\ items # <<>> /\ ~Last.whole
    BY <1>0 DEF BreakOff, SendingInv
  <1>5. PICK L \in Nat : L = Len(items) /\ L = Len(items') /\ L \in 1 .. L /\ ~items[L].whole
    <2>1. Len(items) \in Nat  BY <1>0, LenProperties DEF HostTypes
    <2> QED  BY <1>0, <1>1, <1>4, <2>1, LastItem
  <1>6. PICK old \in Seq(Byte), new \in Seq(Byte), r \in Nat, m \in Nat :
            /\ old = Stream /\ new = Stream' /\ r = Len(new) /\ Len(old) = r + m /\ m > 0
            /\ \A j \in 1 .. r : new[j] = old[j]
            /\ old[r + 1][2] = L
    <2>1. rx \in Seq(Byte) /\ sending \in Seq(Byte)  BY <1>0 DEF HostTypes, InputTypes
    <2>2. Stream' = rx  BY <1>1, <2>1, ConcatEmptySeq DEF Stream
    <2>3. PICK r \in Nat, m \in Nat : r = Len(rx) /\ m = Len(sending)  BY <2>1, LenProperties
    <2>4. m > 0 /\ 1 \in 1 .. m  BY <1>4, <2>1, <2>3, EmptySeq
    <2>5. Stream[r + 1] = sending[1] /\ sending[1][2] = L
      BY <1>0, <1>5, <2>1, <2>3, <2>4, StreamFacts DEF SendingInv
    <2>6. /\ Stream \in Seq(Byte) /\ Len(Stream) = r + m
          /\ \A j \in 1 .. r : Stream[j] = rx[j]
      BY <2>1, <2>3, StreamFacts
    <2> QED  BY <2>1, <2>2, <2>3, <2>4, <2>5, <2>6
  <1>7. \A j \in 1 .. r : j \in 1 .. r + m  BY <1>6
  <1>8. Grows
    <2>1. L <= L  OBVIOUS
    <2> QED  BY <1>1, <1>2, <1>5, <1>6, <1>7, <2>1 DEF Grows
  <1>9. BufferInv' /\ ServedInv' /\ \A b : IsByte(b) => IsByte(b)'
    BY <1>3, <1>8, HostHeld
  <1>10. StreamInv'
    <2>1. \A j \in 1 .. r : \A b : b = new[j] => IsByte(b)'
      BY <1>0, <1>6, <1>7, <1>9 DEF StreamInv
    <2>2. (\A j \in 1 .. Len(Stream) : IsByte(Stream[j]))'
      BY <1>6, <2>1 DEF IsByte, KindOf, BytesOf
    <2>3. ASSUME NEW j \in 1 .. r, NEW k \in 1 .. r, j < k
          PROVE  \/ new[j][2] = new[k][2] /\ new[k][3] - new[j][3] = k - j
                 \/ new[j][2] < new[k][2]
      <3>1. \/ old[j][2] = old[k][2] /\ old[k][3] - old[j][3] = k - j
            \/ old[j][2] < old[k][2]
        BY <1>0, <1>6, <1>7, <2>3 DEF StreamInv
      <3> QED  BY <1>6, <3>1
    <2>4. ASSUME NEW j \in 1 .. r, j = r \/ new[j][2] # new[j + 1][2]
          PROVE  /\ items[new[j][2]].whole => new[j][3] = Len(Form[items[new[j][2]].kind])
                 /\ j # r => new[j + 1][3] = 1
      <3>1. /\ old[j][2] # old[j + 1][2] =>
                   /\ items[old[j][2]].whole => old[j][3] = Len(Form[items[old[j][2]].kind])
                   /\ old[j + 1][3] = 1
        <4>1. j # r + m  BY <1>6
        <4> QED  BY <1>0, <1>6, <1>7, <4>1 DEF StreamInv, LastOfItem, KindOf
      <3>2. CASE j = r
        <4>1. CASE old[r][2] = L
          BY <1>5, <1>6, <3>2, <4>1
        <4>2. CASE old[r][2] # L
          BY <1>6, <3>1, <3>2, <4>2
        <4> QED  BY <4>1, <4>2
      <3>3. CASE j # r
        <4>1. j + 1 \in 1 .. r  BY <3>3
        <4> QED  BY <1>6, <2>4, <3>1, <3>3, <4>1
      <3> QED  BY <3>2, <3>3
    <2>5. (\A j, k \in 1 .. Len(Stream) : j < k =>
              \/ Stream[j][2] = Stream[k][2] /\ Stream[k][3] - Stream[j][3] = k - j
              \/ Stream[j][2] < Stream[k][2])'
      BY <1>6, <2>3
    <2>6. (\A j \in 1 .. Len(Stream) : LastOfItem(j) =>
              /\ items[Stream[j][2]].whole => Stream[j][3] = Len(Form[KindOf(Stream[j])])
              /\ j # Len(Stream) => Stream[j + 1][3] = 1)'
      BY <1>1, <1>6, <2>4 DEF LastOfItem, KindOf
    <2> QED  BY <2>2, <2>5, <2>6 DEF StreamInv
  <1>11. SendingInv'
    <2>1. Last' = Last /\ items' = items  BY <1>1 DEF Last
    <2>2. \A j \in 1 .. Len(<<>>) : FALSE  OBVIOUS
    <2> QED  BY <1>1, <1>4, <2>1, <2>2 DEF SendingInv
  <1>12. InputTypes' /\ DialogueTypes' /\ LoopInv'
    BY <1>0, <1>1 DEF InputTypes, DialogueTypes, LoopInv, deviceVars, frameVars, otherVars,
       dialogueVars
  <1> QED  BY <1>0, <1>2, <1>3, <1>9, <1>10, <1>11, <1>12 DEF OrderInv

(* A pause changes no byte.                                                *)
LEMMA SilenceItems ==
    ASSUME HostTypes, SendingInv, NEW long \in BOOLEAN, Silence(long)
    PROVE  /\ HostTypes'
           /\ Len(items') = Len(items)
           /\ \A i \in 1 .. Len(items) : /\ items'[i].kind = items[i].kind
                                         /\ items'[i].whole = items[i].whole
                                         /\ items'[i].tidy = items[i].tidy
                                         /\ items'[i].behind = items[i].behind
                                         /\ items'[i].fresh => items[i].fresh
  <1> DEFINE Item == ItemRecord
  <1>1. items \in Seq(Item)  BY DEF HostTypes
  <1>2. /\ items' \in Seq(Item)
        /\ Len(items') = Len(items)
        /\ \A i \in 1 .. Len(items) : /\ items'[i].kind = items[i].kind
                                      /\ items'[i].whole = items[i].whole
                                      /\ items'[i].tidy = items[i].tidy
                                      /\ items'[i].behind = items[i].behind
                                      /\ items'[i].fresh => items[i].fresh
    <2>1. CASE sending = <<>>
      BY <1>1, <2>1 DEF Silence
    <2>2. CASE sending # <<>>
      <3>1. PICK L : L = Len(items) /\ L \in 1 .. Len(items)
        BY <2>2, LastItem DEF SendingInv
      <3>2. items[L] \in Item  BY <1>1, <3>1, ElementOfSeq
      <3>3. PICK item \in Item : item = [items[L] EXCEPT !.fresh = FALSE]
        BY <3>2 DEF ItemRecord
      <3>4. items' = [items EXCEPT ![L] = item]  BY <2>2, <3>1, <3>3 DEF Silence
      <3>5. /\ items' \in Seq(Item) /\ Len(items') = Len(items)
            /\ \A i \in 1 .. Len(items) : items'[i] = IF i = L THEN item ELSE items[i]
        BY <1>1, <3>1, <3>4, ExceptSeq
      <3>6. /\ item.kind = items[L].kind /\ item.whole = items[L].whole
            /\ item.tidy = items[L].tidy /\ item.behind = items[L].behind /\ item.fresh = FALSE
        BY <3>2, <3>3 DEF ItemRecord
      <3> QED  BY <3>1, <3>5, <3>6
    <2> QED  BY <2>1, <2>2
  <1>3. dialogue' \in DOMAIN Answers
    BY KindNames DEF HostTypes, Silence
  <1> QED  BY <1>2, <1>3 DEF HostTypes, Silence

LEMMA SilenceOrder ==
    ASSUME OrderInv, NEW long \in BOOLEAN, Silence(long)
    PROVE  OrderInv'
  <1>0. /\ HostTypes /\ InputTypes /\ DialogueTypes /\ BufferInv /\ StreamInv /\ SendingInv
        /\ ServedInv /\ LoopInv /\ served \in [1 .. MaxItems -> {0, 1}]
    BY DEF OrderInv
  <1>1. /\ UNCHANGED <<sending, rx, core1, binary_frame_buffer, binary_protocol_active, at_buffer,
                       device_state, received, served>>
        /\ core1 = "loop"
    BY DEF Silence
  <1>2. PICK L \in Nat :
            /\ L = Len(items) /\ L = Len(items')
            /\ \A i \in 1 .. L : items'[i].kind = items[i].kind /\ items'[i].whole = items[i].whole
    <2>1. Len(items) \in Nat  BY <1>0, LenProperties DEF HostTypes
    <2> QED  BY <1>0, <2>1, SilenceItems
  <1>3. HostTypes'  BY <1>0, SilenceItems
  <1>4. Stream' = Stream  BY <1>1 DEF Stream
  <1>5. Grows
    <2>1. L <= L  OBVIOUS
    <2> QED  BY <1>1, <1>2, <1>4, <2>1 DEF Grows
  <1>6. BufferInv' /\ ServedInv' /\ \A b : IsByte(b) => IsByte(b)'
    BY <1>3, <1>5, HostHeld
  <1>7. PICK s \in Seq(Byte), l \in Nat : s = Stream /\ s = Stream' /\ l = Len(s)
    BY <1>0, <1>4, StreamFacts, LenProperties DEF HostTypes, InputTypes
  <1>8. StreamInv'
    <2>1. \A j \in 1 .. l : \A b : b = s[j] => IsByte(b)' /\ b[2] \in 1 .. L
      BY <1>0, <1>2, <1>6, <1>7 DEF StreamInv, IsByte
    <2>2. (\A j \in 1 .. Len(Stream) : IsByte(Stream[j]))'
      BY <1>7, <2>1 DEF IsByte, KindOf, BytesOf
    <2>3. (\A j, k \in 1 .. Len(Stream) : j < k =>
              \/ Stream[j][2] = Stream[k][2] /\ Stream[k][3] - Stream[j][3] = k - j
              \/ Stream[j][2] < Stream[k][2])'
      BY <1>0, <1>7 DEF StreamInv
    <2>4. ASSUME NEW j \in 1 .. l, j = l \/ s[j][2] # s[j + 1][2]
          PROVE  /\ items'[s[j][2]].whole => s[j][3] = Len(Form[items'[s[j][2]].kind])
                 /\ j # l => s[j + 1][3] = 1
      <3>1. /\ items[s[j][2]].whole => s[j][3] = Len(Form[items[s[j][2]].kind])
            /\ j # l => s[j + 1][3] = 1
        BY <1>0, <1>7, <2>4 DEF StreamInv, LastOfItem, KindOf
      <3> QED  BY <1>2, <2>1, <3>1
    <2>5. (\A j \in 1 .. Len(Stream) : LastOfItem(j) =>
              /\ items[Stream[j][2]].whole => Stream[j][3] = Len(Form[KindOf(Stream[j])])
              /\ j # Len(Stream) => Stream[j + 1][3] = 1)'
      BY <1>7, <2>4 DEF LastOfItem, KindOf
    <2> QED  BY <2>2, <2>3, <2>5 DEF StreamInv
  <1>9. SendingInv'
    <2>1. CASE items = <<>>
      <3>1. sending = <<>> /\ Stream = <<>> /\ pause' = "long"
        <4>1. sending = <<>> /\ rx = <<>> /\ pause' = "long"  BY <1>0, <2>1 DEF SendingInv, Silence
        <4> QED  BY <1>0, <4>1, StreamFacts DEF HostTypes, InputTypes
      <3>2. \A j \in 1 .. Len(<<>>) : FALSE  OBVIOUS
      <3> QED  BY <1>1, <1>4, <3>1, <3>2 DEF SendingInv
    <2>2. CASE items # <<>>
      <3>1. L \in 1 .. L /\ Last = items[L]  BY <1>0, <1>2, <2>2, LastItem
      <3>2. items' # <<>>
        <4>1. Len(<<>>) = 0  OBVIOUS
        <4> QED  BY <1>2, <3>1, <4>1
      <3>3. Last' = items'[L]  BY <1>2 DEF Last
      <3>4. Last'.kind = Last.kind /\ Last'.whole = Last.whole  BY <1>2, <3>1, <3>3
      <3>5. BytesOf(L)' = BytesOf(L)  BY <1>2, <3>1 DEF BytesOf
      <3>6. (Stream # <<>> /\ (sending # <<>> \/ Last.whole) =>
                Stream[Len(Stream)] = BytesOf(Len(items))[Len(Form[Last.kind])])'
        <4>1. Bytes(L, items'[L].kind) = BytesOf(L)  BY <3>5 DEF BytesOf
        <4>2. Stream # <<>> /\ (sending # <<>> \/ Last.whole) =>
                  Stream[Len(Stream)] = BytesOf(L)[Len(Form[Last.kind])]
          BY <1>0, <1>2 DEF SendingInv
        <4> QED  BY <1>1, <1>2, <1>4, <3>4, <4>1, <4>2 DEF BytesOf
      <3> QED  BY <1>0, <1>1, <1>2, <3>2, <3>4, <3>6 DEF SendingInv
    <2> QED  BY <2>1, <2>2
  <1>10. InputTypes' /\ DialogueTypes' /\ LoopInv'
    <2>1. frame_stalled' \in BOOLEAN /\ late' \in BOOLEAN
          /\ (late' => late \/ device_state # "IDLE")
      BY <1>0 DEF Silence, DialogueTypes
    <2> QED  BY <1>0, <1>1, <2>1 DEF InputTypes, DialogueTypes, LoopInv
  <1> QED  BY <1>0, <1>1, <1>3, <1>6, <1>8, <1>9, <1>10 DEF OrderInv

-----------------------------------------------------------------------------
(* The order of the bytes is an invariant.                                 *)

LEMMA OrderInit ==
    ASSUME Init
    PROVE  OrderInv
  <1>0. <<>> \in Seq(Byte) /\ Len(<<>>) = 0 /\ \A j \in 1 .. 0 : FALSE
    OBVIOUS
  <1>1. HostTypes
    <2>1. items \in Seq(ItemRecord)
          /\ Len(items) = 0
      BY DEF Init
    <2>2. Len(items) <= MaxItems  BY <2>1, SerialAssumption
    <2> QED  BY <1>0, <2>1, <2>2, KindNames DEF HostTypes, Init
  <1>2. InputTypes
    <2>1. /\ binary_frame_buffer \in Seq(Byte) /\ at_buffer \in Seq(Byte) /\ rx \in Seq(Byte)
          /\ Len(binary_frame_buffer) = 0 /\ Len(at_buffer) = 0
      BY <1>0 DEF Init
    <2>2. 0 <= FrameBufferSize /\ 0 < AtBufferSize  BY SerialAssumption
    <2> QED  BY <2>1, <2>2 DEF InputTypes, Init
  <1>3. DialogueTypes
    <2>1. received \in Seq(Byte) /\ Len(received) = 0  BY <1>0 DEF Init
    <2>2. 0 <= DataLength - 1 /\ 0 <= MAX_FLEX_MESSAGE_LENGTH  BY SerialAssumption
    <2> QED  BY <2>1, <2>2, KindNames DEF DialogueTypes, Init
  <1>4. Stream = <<>>  BY <1>1, <1>2, StreamFacts DEF Init, HostTypes, InputTypes
  <1>5. BufferInv
    BY BytesInFacts DEF BufferInv, HeldInv, Apart, Init
  <1>6. StreamInv  BY <1>0, <1>4 DEF StreamInv
  <1>7. SendingInv  BY <1>0, <1>4 DEF SendingInv, Init
  <1>8. served \in [1 .. MaxItems -> {0, 1}] /\ ServedInv  BY DEF Init, ServedInv
  <1>9. LoopInv
    BY <1>0, SerialAssumption DEF LoopInv, Init, Dialogues
  <1> QED  BY <1>1, <1>2, <1>3, <1>5, <1>6, <1>7, <1>8, <1>9 DEF OrderInv

LEMMA OrderStutter ==
    ASSUME OrderInv, UNCHANGED vars
    PROVE  OrderInv'
  <1> USE DEF vars, hostVars, answerVars, deviceVars, frameVars, otherVars, dialogueVars
  <1>0. Stream' = Stream /\ Last' = Last /\ \A i : BytesOf(i)' = BytesOf(i)
    BY DEF Stream, Last, BytesOf
  <1>1. HostTypes' /\ InputTypes' /\ DialogueTypes'
    BY DEF OrderInv, HostTypes, InputTypes, DialogueTypes
  <1>2. \A b : (IsByte(b) <=> IsByte(b)') /\ (Passed(b) <=> Passed(b)')
    BY <1>0 DEF IsByte, KindOf, BytesOf, Passed
  <1>3. BufferInv'
    <2>1. /\ BytesIn(binary_frame_buffer)' = BytesIn(binary_frame_buffer)
          /\ BytesIn(at_buffer)' = BytesIn(at_buffer)
          /\ BytesIn(received)' = BytesIn(received)
      BY DEF BytesIn
    <2> QED  BY <1>2, <2>1 DEF OrderInv, BufferInv, HeldInv, Apart
  <1>4. StreamInv'
    BY <1>0 DEF OrderInv, StreamInv, IsByte, KindOf, BytesOf, LastOfItem
  <1>5. SendingInv'  BY <1>0 DEF OrderInv, SendingInv
  <1>6. ServedInv' /\ served' \in [1 .. MaxItems -> {0, 1}]
    BY <1>0 DEF OrderInv, ServedInv, UsedUp, BytesIn
  <1>7. LoopInv'  BY DEF OrderInv, LoopInv
  <1> QED  BY <1>1, <1>3, <1>4, <1>5, <1>6, <1>7 DEF OrderInv

LEMMA OrderStep ==
    ASSUME OrderInv, [Next]_vars
    PROVE  OrderInv'
  BY BeginOrder, SendOrder, BreakOffOrder, SilenceOrder, Core1Order, OrderStutter
     DEF Next, Host

(* No input buffer is ever overrun, and no item takes effect twice.        *)
THEOREM TypeCorrect == Safety => []TypeOK
  <1>1. Init => OrderInv  BY OrderInit
  <1>2. OrderInv /\ [Next]_vars => OrderInv'  BY OrderStep
  <1>3. OrderInv => TypeOK  BY DEF OrderInv, TypeOK
  <1> QED  BY <1>1, <1>2, <1>3, PTL DEF Safety

-----------------------------------------------------------------------------
(* Events reach a host whose last word was a frame.                        *)

LEMMA HeardHost ==
    ASSUME OrderInv, HeardInv, Host
    PROVE  HeardInv'
  <1>0. HostTypes /\ InputTypes /\ SendingInv /\ ServedInv
        /\ rx \in Seq(Byte) /\ sending \in Seq(Byte)
    BY DEF OrderInv, HostTypes, InputTypes
  <1>1. PICK L \in Nat : L = Len(items)  BY <1>0, LenProperties DEF HostTypes
  <1>2. UNCHANGED deviceVars  \/ UNCHANGED <<binary_protocol_active, served>>
    BY DEF Host, BeginItem, SendByte, BreakOff, Silence
  <1>3. UNCHANGED <<binary_protocol_active, served>>
    BY <1>2 DEF deviceVars, otherVars
  <1>4. CASE \E kind \in Kinds : BeginItem(kind)
    <2>1. L + 1 \in 1 .. MaxItems /\ Len(items') = L + 1
      <3>1. PICK kind \in Kinds : BeginItem(kind)  BY <1>4
      <3>2. PICK M \in Nat, f \in Nat \ {0} : M = Len(items) /\ Len(items') = M + 1
        BY <1>0, <3>1, BeginTypes
      <3> QED  BY <1>0, <1>1, <3>1, <3>2, SerialAssumption DEF BeginItem, HostTypes
    <2>2. served[L + 1] # 1
      <3>1. ~(L + 1 <= L)  OBVIOUS
      <3> QED  BY <1>0, <1>1, <2>1, <3>1 DEF ServedInv
    <2> QED  BY <1>3, <2>1, <2>2 DEF HeardInv
  <1>5. CASE SendByte
    <2>1. PICK n, f, m, k \in Nat \ {0} : Sends(n, f, m, k)  BY <1>5, SendTypes
    <2>2. /\ n = L /\ Len(items') = L /\ Stream # <<>> /\ Last'.kind = Last.kind /\ items # <<>>
      <3>1. n \in 1 .. n /\ Len(<<>>) = 0  OBVIOUS
      <3> QED  BY <1>1, <2>1, <3>1 DEF Sends
    <2> QED  BY <1>1, <1>3, <2>2 DEF HeardInv
  <1>6. CASE BreakOff
    <2>1. Stream # <<>> /\ UNCHANGED items  BY <1>0, <1>6, StreamFacts DEF BreakOff
    <2> QED  BY <1>3, <2>1 DEF HeardInv, Last
  <1>7. CASE \E long \in BOOLEAN : Silence(long)
    <2>1. PICK long \in BOOLEAN : Silence(long)  BY <1>7
    <2>2. /\ Len(items') = L
          /\ \A i \in 1 .. L : items'[i].kind = items[i].kind
      BY <1>0, <1>1, <2>1, SilenceItems
    <2>3. Stream' = Stream  BY <2>1 DEF Silence, Stream
    <2>4. items' # <<>> => items # <<>> /\ Last'.kind = Last.kind
      <3> SUFFICES ASSUME items' # <<>> PROVE items # <<>> /\ Last'.kind = Last.kind
        OBVIOUS
      <3>1. HostTypes'  BY <1>0, <2>1, SilenceItems
      <3>2. L # 0
        BY <2>2, <3>1, EmptySeq DEF HostTypes
      <3>3. items # <<>>
        <4>1. Len(<<>>) = 0  OBVIOUS
        <4> QED  BY <1>1, <3>2, <4>1
      <3>4. L \in 1 .. L  BY <3>2
      <3> QED  BY <1>1, <2>2, <3>3, <3>4 DEF Last
    <2> QED  BY <1>1, <1>3, <2>2, <2>3, <2>4 DEF HeardInv
  <1> QED  BY <1>4, <1>5, <1>6, <1>7 DEF Host

(* A frame that has taken effect was read to its end.                      *)
LEMMA FrameRead ==
    ASSUME HostTypes, InputTypes, StreamInv, UNCHANGED items, items # <<>>,
           Last.kind \in Frames, Stream # <<>>, Drops(1), NEW d, d = Stream[1],
           d[2] = Len(items), Append(binary_frame_buffer, d) = BytesOf(Len(items))
    PROVE  Stream' = <<>>
  <1>1. PICK L \in Nat \ {0} : L = Len(items) /\ L \in 1 .. L /\ Last = items[L]
    <2>1. Len(items) \in Nat  BY LenProperties DEF HostTypes
    <2> QED  BY <2>1, LastItem
  <1>2. PICK f \in Nat \ {0} :
            /\ f = Len(Form[items[L].kind]) /\ Len(BytesOf(L)) = f
            /\ \A j \in 1 .. f : BytesOf(L)[j][3] = j
    <2>1. items[L].kind \in AllKinds /\ L \in 1 .. MaxItems  BY <1>1, ItemFacts
    <2>2. PICK f \in Nat \ {0} : f = Len(Form[items[L].kind])  BY <2>1, FormFacts
    <2>3. Len(BytesOf(L)) = f /\ \A j \in 1 .. f : BytesOf(L)[j][3] = j
      BY <2>1, <2>2, ItemBytes DEF BytesOf
    <2> QED  BY <2>2, <2>3, Zenon
  <1>3. PICK s \in Seq(Byte), t \in Seq(Byte), l \in Nat, n \in Nat :
            s = Stream /\ t = Stream' /\ l = Len(s) /\ n = Len(t) /\ l = n + 1
    <2>1. /\ Stream \in Seq(Byte) /\ Stream' \in Seq(Byte) /\ Len(Stream) = Len(Stream') + 1
          /\ Len(Stream) \in Nat /\ Len(Stream') \in Nat
      BY DropPlaces, Zenon
    <2> QED  BY <2>1, Zenon
  <1>4. d \in Byte
    <2>1. 1 \in 1 .. l  BY <1>3
    <2> QED  BY <1>3, <2>1, ElementOfSeq
  <1>5. d[3] = f
    <2>1. PICK b \in Seq(Byte), m \in Nat : b = binary_frame_buffer /\ m = Len(b)
      BY LenProperties DEF InputTypes
    <2>2. Len(Append(b, d)) = m + 1 /\ Append(b, d)[m + 1] = d  BY <1>4, <2>1
    <2>3. m + 1 = f  BY <1>1, <1>2, <2>1, <2>2
    <2>4. f \in 1 .. f  OBVIOUS
    <2> QED  BY <1>1, <1>2, <2>1, <2>2, <2>3, <2>4
  <1>6. n = 0
    <2> SUFFICES ASSUME n # 0 PROVE FALSE
      OBVIOUS
    <2>1. 1 \in 1 .. l /\ 2 \in 1 .. l /\ 1 < 2  BY <1>3
    <2>2. PICK e : e = s[2]  OBVIOUS
    <2>3. e[2] \in 1 .. L /\ e[3] \in 1 .. Len(Form[items[e[2]].kind])
      BY <1>1, <1>3, <2>1, <2>2 DEF StreamInv, IsByte, KindOf
    <2>4. \/ d[2] = e[2] /\ e[3] - d[3] = 2 - 1
          \/ d[2] < e[2]
      BY <1>3, <2>1, <2>2 DEF StreamInv
    <2>5. e[2] = L  BY <1>1, <2>3, <2>4
    <2>6. e[3] \in 1 .. f /\ e[3] - f = 1
      BY <1>1, <1>2, <1>5, <2>3, <2>4, <2>5
    <2> QED  BY <2>6
  <1> QED  BY <1>3, <1>6, EmptySeq

LEMMA HeardCore1 ==
    ASSUME OrderInv, HeardInv, Core1
    PROVE  HeardInv'
  <1>0. HostTypes /\ InputTypes /\ DialogueTypes /\ StreamInv
        /\ rx \in Seq(Byte) /\ sending \in Seq(Byte)
        /\ served \in [1 .. MaxItems -> {0, 1}]
    BY DEF OrderInv, HostTypes, InputTypes
  <1>1. UNCHANGED items /\ UNCHANGED Last  BY <1>0, Core1Moves DEF hostVars, Last
  <1> SUFFICES ASSUME items # <<>>, Last.kind \in Frames, served'[Len(items)] = 1
               PROVE  Stream' = <<>> /\ binary_protocol_active'
    BY <1>1 DEF HeardInv
  <1>2. PICK L : L = Len(items) /\ L \in 1 .. Len(items) /\ Last = items[L]
                 /\ L \in 1 .. MaxItems
    BY <1>0, LastItem, ItemFacts
  <1>3. CASE served[L] = 1
    <2>1. Stream = <<>> /\ binary_protocol_active  BY <1>2, <1>3 DEF HeardInv
    <2>2. rx = <<>>  BY <1>0, <2>1, StreamFacts
    <2>3. PICK m : Drops(m)  BY <1>0, Core1Moves DEF Moves
    <2>4. Stream' = <<>>
      <3>1. PICK n \in Nat, t \in Seq(Byte) : t = Stream' /\ n = Len(t) /\ Len(Stream) = n + m /\ m \in Nat
        BY <1>0, <2>3, DropPlaces
      <3>2. Len(Stream) = 0
        <4>1. Len(<<>>) = 0  OBVIOUS
        <4> QED  BY <2>1, <4>1
      <3>3. PICK l : l = Len(Stream)  OBVIOUS
      <3>4. l = 0 /\ l = n + m /\ m \in Nat  BY <3>1, <3>2, <3>3, Zenon
      <3>5. n = 0  BY <3>4
      <3> QED  BY <3>1, <3>5, EmptySeq
    <2>5. Drained \/ TextIsFull
      BY <2>2 DEF Core1, DispatchFrame, DispatchAt, DispatchDialogue, DialogueTimesOut, Dispatch,
         FrameOverflow, FrameByte, FrameEnds, EndFrame, AtOverflow, AtByte, StoreBelow, AtLine,
         TextByte, TextEnds, DataByte, Read
    <2>6. UNCHANGED binary_protocol_active
      BY <2>5 DEF Drained, TextIsFull, deviceVars, otherVars
    <2> QED  BY <2>1, <2>4, <2>6
  <1>4. CASE served[L] # 1
    <2>1. CASE FrameEnds
      <3>1. PICK d : d = Head(rx) /\ d = Stream[1] /\ Stream # <<>>
        BY <1>0, <2>1, StreamFacts DEF FrameEnds, EndFrame, Read
      <3>2. /\ Append(binary_frame_buffer, d) = BytesOf(d[2])
            /\ binary_protocol_active' = TRUE
            /\ Serve(d[2])
        BY <1>2, <1>4, <2>1, <3>1 DEF FrameEnds, EndFrame, BytesOf
      <3>3. d[2] = L
        BY <1>0, <1>2, <1>4, <3>2 DEF Serve
      <3>4. Drops(1)
        BY <1>0, <2>1, ReadingDrops DEF FrameEnds, EndFrame, Read, hostVars
      <3> QED  BY <1>0, <1>1, <1>2, <3>1, <3>2, <3>3, <3>4, FrameRead
    <2>2. CASE AtLine
      <3>1. PICK i \in 1 .. Len(items), kind \in {"line", "msg", "send"} :
                Serve(i) /\ items[i].kind = kind
        BY <1>2, <1>4, <2>2, KindNames
        DEF AtLine, EmptyLine, Command, OpenDialogue, BadLine, IsCommand
      <3>2. i = L  BY <1>0, <1>2, <1>4, <3>1 DEF Serve
      <3> QED  BY <1>2, <3>1, <3>2 DEF Frames
    <2>3. CASE \E message : Complete(message)
      BY <1>2, <1>4, <2>3 DEF Complete, Frames
    <2>4. UNCHANGED served \/ FrameEnds \/ AtLine \/ \E message : Complete(message)
      BY DEF Core1, DispatchFrame, DispatchAt, DispatchDialogue, DialogueTimesOut, Drained,
         FrameOverflow, FrameByte, AtOverflow, AtByte, StoreBelow, TextByte, TextEnds, TextIsFull,
         DataByte, otherVars, deviceVars
    <2> QED  BY <1>2, <1>4, <2>1, <2>2, <2>3, <2>4
  <1> QED  BY <1>3, <1>4

(* Events reach a host whose last word was a frame.                        *)
THEOREM BinaryHeard == Safety => []BinaryHostHeard
  <1>1. Init => OrderInv /\ HeardInv
    BY OrderInit DEF HeardInv, Init
  <1>2. OrderInv /\ HeardInv /\ [Next]_vars => OrderInv' /\ HeardInv'
    <2> SUFFICES ASSUME OrderInv, HeardInv, [Next]_vars PROVE OrderInv' /\ HeardInv'
      OBVIOUS
    <2>1. CASE Next  BY <2>1, OrderStep, HeardHost, HeardCore1 DEF Next
    <2>2. CASE UNCHANGED vars
      <3>1. HeardInv'
        BY <2>2 DEF HeardInv, vars, hostVars, deviceVars, otherVars, Stream, Last
      <3> QED  BY <2>2, <3>1, OrderStep
    <2> QED  BY <2>1, <2>2
  <1>3. HeardInv => BinaryHostHeard  BY DEF HeardInv, BinaryHostHeard
  <1> QED  BY <1>1, <1>2, <1>3, PTL DEF Safety

-----------------------------------------------------------------------------
(* That the device finds back into step with the host: no fresh item is    *)
(* passed over (FreshItemsServed).  The invariant says where the device is *)
(* when byte k of a fresh item is the next to be read.                     *)

Tidy(i) == items[i].tidy
Taken(i) == items[i].kind \in Frames \/ Tidy(i) => served[i] = 1

-----------------------------------------------------------------------------
(* The inductive invariant.                                                *)

Settled == core1 = "loop" /\ Pending = <<>>

(* A loop reads the item, or is about to.                                  *)
In(loop, state) ==
    core1 \in {"loop", loop} /\ Pending = <<>> /\ device_state = state

(* The host waits for the answer to item i.                                *)
Awaited(i) == i = Len(items) /\ awaiting

(* ... or the ERROR of the time-out comes before it.                       *)
Heeded(i) == Awaited(i) \/ items[i].behind

(* The bytes of item i before byte k.                                      *)
Before(i, k) == SubSeq(BytesOf(i), 1, k - 1)

(* Where the device is when byte k of item i is the next to be read.       *)
FrameMode(i, k) ==
    /\ core1 \in {"loop", "frame"}
    /\ Pending = Before(i, k)
    /\ device_state = "IDLE"
    /\ Tidy(i) => at_buffer = <<>>

(* The end of a line whose answer was given before.                        *)
Trails(i, k) ==
    /\ In("at", "IDLE")
    /\ at_buffer = <<>> \/ (k = 3 /\ at_buffer = <<BytesOf(i)[2]>>)
    /\ Taken(i)

CommandMode(i, k) ==
    \/ /\ k = 1
       /\ In("at", "IDLE") /\ Heeded(i)
       /\ Tidy(i) => at_buffer = <<>>
    \/ /\ k = 2
       /\ In("at", "IDLE") /\ Heeded(i)
       /\ at_buffer # <<>>
       /\ Tidy(i) => at_buffer = Before(i, 2)
    \/ k \in {2, 3} /\ Trails(i, k)

TextMode(i, k) ==
    \/ /\ k \in {1, 2}
       /\ In("text", "WAITING_FOR_MSG") /\ Awaited(i) /\ ~late
       /\ Tidy(i) => received = Before(i, k)
       /\ k = 1 => Len(received) < MAX_FLEX_MESSAGE_LENGTH
    \/ k \in {2, 3} /\ Trails(i, k)

LongMode(i, k) ==
    \/ /\ k <= MAX_FLEX_MESSAGE_LENGTH + 1
       /\ In("text", "WAITING_FOR_MSG") /\ Awaited(i) /\ ~late
       /\ received = Before(i, k)
    \/ Taken(i)

DataMode(i, k) ==
    \/ /\ In("data", "WAITING_FOR_DATA") /\ Awaited(i) /\ ~late
       /\ Len(received) >= k - 1
       /\ Tidy(i) => received = Before(i, k)
    \/ /\ ~Tidy(i)
       /\ In(IF k = DataLength THEN "frame" ELSE "at", "IDLE")
       /\ at_buffer = <<>>

Mode(i, k) ==
    /\ items[i].kind \in Frames => FrameMode(i, k)
    /\ items[i].kind \in {"line", "msg", "send"} => CommandMode(i, k)
    /\ items[i].kind = "text" => TextMode(i, k)
    /\ items[i].kind = "long" => LongMode(i, k)
    /\ items[i].kind = "data" => DataMode(i, k)

(* The first byte of an item that finds the dialogue which the host left.  *)
Overdue(i, k) ==
    /\ k = 1 /\ items[i].behind /\ items[i].kind \in Answers["IDLE"]
    /\ Settled /\ device_state \in Dialogues /\ late

Stands(i, k) == Overdue(i, k) \/ Mode(i, k)

StepInv ==
    Stream # <<>> /\ items[Stream[1][2]].fresh => Stands(Stream[1][2], Stream[1][3])

(* A fresh item behind another one: that one was fresh and whole, and left *)
(* the device idle.                                                        *)
Follows(i, h) ==
    /\ items[h].fresh /\ items[h].whole /\ items[h].kind # "long" /\ ~items[h].behind
    /\ Tidy(i) = Tidy(h)
    /\ items[i].kind \in Answers["IDLE"]
    /\ items[i].kind \notin Frames => Awaited(i)

FollowInv ==
    \A j, k \in 1 .. Len(Stream) :
        j < k /\ Stream[j][2] # Stream[k][2] /\ items[Stream[k][2]].fresh
            => Follows(Stream[k][2], Stream[j][2])

(* Between two items.                                                      *)
PauseInv ==
    /\ pause # "none" => rx = <<>> /\ Settled
    /\ Stream = <<>> /\ items # <<>> /\ Last.fresh /\ Last.whole /\ Last.kind # "long" =>
           /\ Settled
           /\ Last.tidy => at_buffer = <<>> /\ received = <<>>

(* No fresh item is passed over.                                           *)
FreshInv ==
    \A i \in 1 .. Len(items) :
        /\ items[i].fresh /\ items[i].whole
        /\ \A j \in 1 .. Len(Stream) : Stream[j][2] # i
        => Taken(i)

(* What the host knows of the dialogue: only one it has abandoned is open  *)
(* without its knowledge, and only a long pause makes one late.            *)
InDialogue ==
    items # <<>> /\ Last.fresh /\ ~Last.behind /\ (pause = "none" \/ sending # <<>>)

KnownInv ==
    /\ ~abandoned => dialogue = device_state
    /\ pause = "long" => device_state = "IDLE" \/ late
    /\ late => pause = "long" \/ rx # <<>>
    /\ InDialogue => ~abandoned /\ ~late
    /\ core1 = "frame" \/ binary_frame_buffer # <<>> => device_state = "IDLE"

SerialInv == OrderInv /\ StepInv /\ FollowInv /\ PauseInv /\ FreshInv /\ KnownInv

-----------------------------------------------------------------------------
(* The byte that is next.                                                  *)

Front(i, k) == OrderInv /\ Stream # <<>> /\ i = Stream[1][2] /\ k = Stream[1][3]

FormOf(i) == Form[items[i].kind]

LEMMA FrontFacts ==
    ASSUME NEW i, NEW k, Front(i, k)
    PROVE  /\ i \in 1 .. Len(items) /\ i \in 1 .. MaxItems /\ items[i].kind \in AllKinds
           /\ k \in 1 .. Len(FormOf(i)) /\ k \in Nat \ {0}
           /\ BytesOf(i) \in Seq(Byte) /\ Len(BytesOf(i)) = Len(FormOf(i))
           /\ Stream[1] = BytesOf(i)[k] /\ Stream[1][1] = FormOf(i)[k]
           /\ Stream \in Seq(Byte) /\ 1 \in 1 .. Len(Stream)
           /\ rx # <<>> => Head(rx) = BytesOf(i)[k] /\ Head(rx)[1] = FormOf(i)[k]
                           /\ Head(rx)[2] = i
  <1>0. /\ HostTypes /\ StreamInv /\ rx \in Seq(Byte) /\ sending \in Seq(Byte)
    BY DEF Front, OrderInv, HostTypes, InputTypes
  <1>1. Stream \in Seq(Byte) /\ 1 \in 1 .. Len(Stream)
    <2>1. Stream \in Seq(Byte)  BY <1>0, StreamFacts
    <2>2. PICK s \in Seq(Byte) : s = Stream  BY <2>1
    <2>3. s # <<>>  BY <2>2 DEF Front
    <2>4. 1 \in 1 .. Len(s)  BY <2>3
    <2> QED  BY <2>2, <2>4
  <1>2. IsByte(Stream[1])  BY <1>0, <1>1 DEF StreamInv
  <1>3. /\ i \in 1 .. Len(items) /\ k \in 1 .. Len(FormOf(i)) /\ Stream[1] = BytesOf(i)[k]
    BY <1>2 DEF IsByte, Front, KindOf, FormOf
  <1>4. /\ i \in 1 .. MaxItems /\ items[i].kind \in AllKinds
        /\ BytesOf(i) \in Seq(Byte) /\ Len(BytesOf(i)) = Len(FormOf(i))
    BY <1>0, <1>3, ItemFacts DEF FormOf
  <1>5. Len(FormOf(i)) \in Nat  BY <1>4, FormFacts DEF FormOf
  <1>6. k \in Nat \ {0}  BY <1>3, <1>5
  <1>7. BytesOf(i)[k][1] = FormOf(i)[k] /\ BytesOf(i)[k][2] = i
    BY <1>3, <1>4, ItemBytes DEF FormOf, BytesOf
  <1>8. rx # <<>> => Head(rx) = Stream[1]  BY <1>0, StreamFacts
  <1> QED  BY <1>1, <1>3, <1>4, <1>6, <1>7, <1>8

LEMMA LeastNatural ==
    ASSUME NEW T, T \subseteq Nat, T # {}
    PROVE  \E p \in T : \A y \in T : ~(y < p)
  <1>1. PICK p \in T : \A y \in T : <<y, p>> \notin OpToRel(<, Nat)
    BY WFMin, NatLessThanWellFounded, Zenon
  <1>2. \A y \in T : <<y, p>> \in Nat \X Nat  OBVIOUS
  <1> QED  BY <1>1, <1>2, Zenon DEF OpToRel

(* The bytes of an item that went out whole are there to its last one.     *)
LEMMA WholeItem ==
    ASSUME OrderInv, NEW j \in 1 .. Len(Stream), items[Stream[j][2]].whole
    PROVE  \E e \in j .. Len(Stream) :
               /\ e - j = Len(Form[KindOf(Stream[j])]) - Stream[j][3]
               /\ Stream[e][2] = Stream[j][2]
  <1>0. StreamInv /\ Stream \in Seq(Byte)
    BY StreamFacts DEF OrderInv, HostTypes, InputTypes
  <1>1. PICK l \in Nat : l = Len(Stream)  BY <1>0, LenProperties
  <1>2. j \in 1 .. l /\ j \in Nat  BY <1>1
  <1> DEFINE T == {p \in Nat : p <= l - j /\ Stream[l - p][2] = Stream[j][2]}
  <1>3. T \subseteq Nat /\ T # {}
    <2>1. l - j \in Nat /\ l - (l - j) = j  BY <1>2
    <2>2. l - j \in T  BY <2>1
    <2> QED  BY <2>2
  <1>6. PICK p \in T : \A y \in T : ~(y < p)
    <2> HIDE DEF T
    <2> QED  BY <1>3, LeastNatural, Zenon
  <1>7. p \in Nat /\ p <= l - j /\ Stream[l - p][2] = Stream[j][2]
        /\ \A y \in Nat : y < p => y \notin T
    BY <1>6
  <1>8. PICK e \in j .. l : e = l - p  BY <1>2, <1>7
  <1>9. e = l \/ Stream[e][2] # Stream[e + 1][2]
    <2> SUFFICES ASSUME e # l PROVE Stream[e][2] # Stream[e + 1][2]  OBVIOUS
    <2>1. p - 1 \in Nat /\ p - 1 < p /\ p - 1 <= l - j /\ l - (p - 1) = e + 1
      BY <1>2, <1>7, <1>8
    <2>2. p - 1 \notin T  BY <1>7, <2>1
    <2>3. Stream[e + 1][2] # Stream[j][2]  BY <2>1, <2>2
    <2> QED  BY <1>7, <1>8, <2>3
  <1>10. e \in 1 .. Len(Stream) /\ LastOfItem(e)  BY <1>1, <1>2, <1>8, <1>9 DEF LastOfItem
  <1>11. Stream[e][2] = Stream[j][2]  BY <1>7, <1>8
  <1>12. Stream[e][3] = Len(Form[KindOf(Stream[j])])
    BY <1>0, <1>10, <1>11 DEF StreamInv, KindOf
  <1>13. Stream[e][3] - Stream[j][3] = e - j
    <2>1. CASE e = j
      <3>1. Stream[j][3] \in Nat
        <4>1. Stream[j] \in Byte  BY <1>0, ElementOfSeq
        <4> QED  BY <4>1, ByteTypes
      <3> QED  BY <1>2, <2>1, <3>1
    <2>2. CASE e # j
      <3>1. j < e  BY <1>2, <2>2
      <3>2. Stream[j][2] \in Nat
        <4>1. Stream[j] \in Byte  BY <1>0, ElementOfSeq
        <4>2. MaxItems \in Nat  BY SerialAssumption
        <4> QED  BY <4>1, <4>2, ByteTypes
      <3>3. ~(Stream[j][2] < Stream[e][2])  BY <1>11, <3>2
      <3> QED  BY <1>0, <1>10, <3>1, <3>3 DEF StreamInv
    <2> QED  BY <2>1, <2>2
  <1> QED  BY <1>1, <1>8, <1>11, <1>12, <1>13

-----------------------------------------------------------------------------
(* A loop that has the right byte before it.                               *)

Suits(loop, class) ==
    \/ /\ loop = "frame"
       /\ Pending # <<>> \/ (device_state = "IDLE" /\ class \notin {"c", "r", "n"})
    \/ /\ loop = "at" /\ Pending = <<>>
       /\ device_state = "IDLE" /\ class \in {"c", "r", "n"}
    \/ /\ loop = "text" /\ Pending = <<>>
       /\ device_state = "WAITING_FOR_MSG" /\ ~late
    \/ /\ loop = "data" /\ Pending = <<>>
       /\ device_state = "WAITING_FOR_DATA" /\ ~late

(* It is entered or left, ...                                              *)
Turns(loop) ==
    /\ core1' \in {"loop", loop}
    /\ Pending' = Pending
    /\ UNCHANGED <<items, awaiting, rx, sending, at_buffer, device_state, received, late, served>>

(* ... or reads.                                                           *)
Reads(loop) ==
    /\ core1 = loop
    /\ \/ loop = "frame" /\ (FrameOverflow \/ FrameByte \/ FrameEnds)
       \/ loop = "at" /\ (AtOverflow \/ AtByte \/ AtLine)
       \/ loop = "text" /\ (TextByte \/ TextEnds \/ TextIsFull)
       \/ loop = "data" /\ DataByte

LEMMA TurnsOrReads ==
    ASSUME NEW i, NEW k, Front(i, k), Core1,
           NEW loop, core1 \in {"loop", loop}, Suits(loop, FormOf(i)[k])
    PROVE  Turns(loop) \/ Reads(loop)
  <1>1. loop \in {"frame", "at", "text", "data"}  BY DEF Suits
  <1>2. CASE core1 = "loop"
    <2>1. DispatchFrame \/ DispatchAt \/ DispatchDialogue \/ DialogueTimesOut
      BY <1>2 DEF Core1, Drained, FrameOverflow, FrameByte, FrameEnds, EndFrame, AtOverflow,
         AtByte, StoreBelow, AtLine, TextByte, TextEnds, TextIsFull, DataByte, Read
    <2>2. rx # <<>> => (IsAscii(Head(rx)) <=> FormOf(i)[k] \in {"c", "r", "n"})
      BY FrontFacts DEF IsAscii, LineEnd
    <2>3. ASSUME NEW target, Dispatch(target), target = loop
          PROVE  Pending' = Pending /\ core1' = loop /\ rx # <<>>
      BY <2>3 DEF Dispatch, Pending
    <2>4. CASE DispatchFrame
      <3>1. rx # <<>> /\ (Pending # <<>> \/ (device_state = "IDLE" /\ ~IsAscii(Head(rx))))
        BY <2>4 DEF DispatchFrame, Dispatch
      <3>2. loop = "frame"  BY <2>2, <3>1 DEF Suits
      <3> QED  BY <2>3, <2>4, <3>2 DEF DispatchFrame, Turns, hostVars, answerVars, otherVars,
                  dialogueVars
    <2>5. CASE DispatchAt
      <3>1. rx # <<>> /\ Pending = <<>> /\ device_state = "IDLE" /\ IsAscii(Head(rx))
        BY <2>5 DEF DispatchAt, Dispatch
      <3>2. loop = "at"  BY <2>2, <3>1 DEF Suits
      <3> QED  BY <2>3, <2>5, <3>2 DEF DispatchAt, Turns, hostVars, answerVars, dialogueVars
    <2>6. CASE DispatchDialogue
      <3>1. Pending = <<>> /\ device_state \in {"WAITING_FOR_MSG", "WAITING_FOR_DATA"}
        BY <2>6 DEF DispatchDialogue, Dialogues
      <3>2. loop = (IF device_state = "WAITING_FOR_MSG" THEN "text" ELSE "data")
        BY <3>1 DEF Suits
      <3> QED  BY <2>3, <2>6, <3>2 DEF DispatchDialogue, Turns, hostVars, answerVars, dialogueVars
    <2>7. CASE DialogueTimesOut
      BY <2>7 DEF DialogueTimesOut, Suits, Dialogues
    <2> QED  BY <2>1, <2>4, <2>5, <2>6, <2>7
  <1>3. CASE core1 = loop
    <2>1. CASE Drained
      <3>1. Turns(loop)
        BY <2>1 DEF Drained, Turns, hostVars, answerVars, deviceVars, frameVars, otherVars,
           dialogueVars, Pending
      <3> QED  BY <3>1
    <2>2. CASE ~Drained
      BY <1>1, <1>3, <2>2 DEF Core1, Reads, DispatchFrame, DispatchAt, DispatchDialogue, DialogueTimesOut,
         Dispatch, FrameOverflow, FrameByte, FrameEnds, EndFrame, AtOverflow,
         AtByte, StoreBelow, AtLine, TextByte, TextEnds, TextIsFull, DataByte, Read
    <2> QED  BY <2>1, <2>2
  <1> QED  BY <1>2, <1>3

-----------------------------------------------------------------------------
(* A step of Core 1, seen from the item before it.                         *)

(* The item is used up.                                                    *)
Done(i) ==
    /\ Taken(i)
    /\ items[i].kind # "long" =>
           /\ Settled
           /\ device_state = "IDLE" \/ i = Len(items)
           /\ Tidy(i) => at_buffer = <<>> /\ received = <<>>

After(i, k) == IF k <= Len(FormOf(i)) THEN Mode(i, k) ELSE Done(i)

(* Of its bytes from byte k on, m are gone.                                *)
Stepped(i, k, m) ==
    /\ Drops(m) /\ UNCHANGED items
    /\ m \in Nat /\ k + m <= Len(FormOf(i)) + 1
    /\ UNCHANGED awaiting \/ i = Len(items) \/ items[i].behind
    /\ Stream' # <<>> \/ items[i].whole => After(i, k + m)'

(* All that has arrived is dropped with the rest of it.                    *)
Flushed(i) ==
    /\ items[i].behind /\ i # Len(items) /\ Taken(i)'
    /\ rx' = <<>> /\ UNCHANGED <<items, sending>>

LEMMA Stays ==
    ASSUME NEW i, NEW k, Front(i, k), NEW loop, Turns(loop), Mode(i, k)'
    PROVE  Stepped(i, k, 0)
  <1>1. k \in Nat /\ k <= Len(FormOf(i)) /\ Len(FormOf(i)) \in Nat
    <2>1. Len(FormOf(i)) \in Nat  BY FrontFacts, FormFacts DEF FormOf
    <2> QED  BY <2>1, FrontFacts
  <1>2. Drops(0)  BY ReadingDrops DEF Turns, Front, OrderInv
  <1>3. FormOf(i)' = FormOf(i)  BY DEF Turns, FormOf
  <1>4. k + 0 = k /\ k + 0 <= Len(FormOf(i)) + 1  BY <1>1
  <1>5. After(i, k)'  BY <1>1, <1>3 DEF After
  <1> QED  BY <1>2, <1>4, <1>5 DEF Stepped, Turns

LEMMA StepsOn ==
    ASSUME NEW i, NEW k, Front(i, k), rx # <<>>, rx' = Tail(rx), UNCHANGED <<items, sending>>,
           UNCHANGED awaiting \/ i = Len(items) \/ items[i].behind,
           k < Len(FormOf(i)) => Mode(i, k + 1)',
           k = Len(FormOf(i)) => Done(i)'
    PROVE  Stepped(i, k, 1)
  <1>1. PICK l \in Nat : l = Len(FormOf(i)) /\ k \in 1 .. l
    <2>1. Len(FormOf(i)) \in Nat  BY FrontFacts, FormFacts DEF FormOf
    <2> QED  BY <2>1, FrontFacts
  <1>2. Drops(1)  BY ReadingDrops DEF Front, OrderInv
  <1>3. FormOf(i)' = FormOf(i)  BY DEF FormOf
  <1>4. k + 1 <= l + 1 /\ (k + 1 <= l <=> k < l) /\ (k < l \/ k = l) BY <1>1
  <1>5. After(i, k + 1)'
    <2>1. CASE k < l  BY <1>1, <1>3, <1>4, <2>1 DEF After
    <2>2. CASE k = l /\ ~(k < l)  BY <1>1, <1>3, <1>4, <2>2 DEF After
    <2> QED  BY <1>1, <2>1, <2>2
  <1> QED  BY <1>1, <1>2, <1>4, <1>5 DEF Stepped

(* What comes before a byte.                                               *)
LEMMA BeforeFacts ==
    ASSUME NEW i, NEW k, Front(i, k)
    PROVE  /\ Before(i, 1) = <<>>
           /\ Before(i, k) \in Seq(Byte) /\ Len(Before(i, k)) = k - 1
           /\ Append(Before(i, k), BytesOf(i)[k]) = Before(i, k + 1)
           /\ Before(i, Len(FormOf(i)) + 1) = BytesOf(i)
           /\ \A j \in 1 .. k - 1 : Before(i, k)[j] = BytesOf(i)[j]
  <1>1. PICK s \in Seq(Byte) : s = BytesOf(i)  BY FrontFacts
  <1>2. PICK l \in Nat : l = Len(s) /\ l = Len(FormOf(i)) /\ k \in 1 .. l
    <2>1. Len(s) \in Nat  BY <1>1
    <2> QED  BY <1>1, <2>1, FrontFacts
  <1>3. \A p \in 0 .. l : /\ SubSeq(s, 1, p) \in Seq(Byte) /\ Len(SubSeq(s, 1, p)) = p
                          /\ \A j \in 1 .. p : SubSeq(s, 1, p)[j] = s[j]
    <2> TAKE p \in 0 .. l
    <2>1. 1 \in Int /\ p \in Int /\ \A j \in 1 .. p : s[j] \in Byte
      <3>1. ASSUME NEW j \in 1 .. p PROVE s[j] \in Byte
        <4>1. j \in 1 .. Len(s)  BY <1>2
        <4> QED  BY <4>1, ElementOfSeq, Zenon
      <3> QED  BY <3>1
    <2>2. /\ SubSeq(s, 1, p) \in Seq(Byte)
          /\ Len(SubSeq(s, 1, p)) = IF 1 <= p THEN p - 1 + 1 ELSE 0
          /\ \A j \in 1 .. p - 1 + 1 : SubSeq(s, 1, p)[j] = s[1 + j - 1]
      BY <2>1, SubSeqProperties
    <2>3. p - 1 + 1 = p /\ (1 <= p \/ p = 0) /\ \A j \in 1 .. p : 1 + j - 1 = j  OBVIOUS
    <2> QED  BY <2>2, <2>3
  <1>4. PICK p \in 0 .. l : p = k - 1 /\ p + 1 = k /\ (k + 1) - 1 = k /\ 1 - 1 = 0
                           /\ (l + 1) - 1 = l /\ k \in 0 .. l /\ 0 \in 0 .. l
    BY <1>2
  <1>5. /\ Before(i, 1) = SubSeq(s, 1, 0) /\ Before(i, k) = SubSeq(s, 1, p)
        /\ Before(i, k + 1) = SubSeq(s, 1, k) /\ Before(i, l + 1) = SubSeq(s, 1, l)
    BY <1>1, <1>4 DEF Before
  <1>6. SubSeq(s, 1, 0) = <<>>  BY <1>3, <1>4, EmptySeq
  <1>7. Append(SubSeq(s, 1, p), s[k]) = SubSeq(s, 1, k)
    <2>1. PICK a \in Seq(Byte), c \in Seq(Byte) :
              /\ a = SubSeq(s, 1, p) /\ Len(a) = p /\ \A j \in 1 .. p : a[j] = s[j]
              /\ c = SubSeq(s, 1, k) /\ Len(c) = k /\ \A j \in 1 .. k : c[j] = s[j]
      BY <1>3, <1>4, Zenon
    <2>2. PICK b \in Byte : b = s[k]  BY <1>2, ElementOfSeq
    <2>3. /\ Append(a, b) \in Seq(Byte) /\ Len(Append(a, b)) = k
          /\ \A j \in 1 .. k : Append(a, b)[j] = c[j]
      BY <1>4, <2>1, <2>2
    <2>4. Append(a, b) = c  BY <2>1, <2>3, SeqEqual
    <2> QED  BY <2>1, <2>2, <2>4, Zenon
  <1>8. SubSeq(s, 1, l) = s  BY <1>2, SubSeqFull
  <1> QED  BY <1>1, <1>2, <1>3, <1>4, <1>5, <1>6, <1>7, <1>8, Zenon

-----------------------------------------------------------------------------
(* What takes effect.                                                      *)

LEMMA Effects ==
    ASSUME OrderInv, Core1, NEW i \in 1 .. MaxItems
    PROVE  /\ served[i] = 1 => served'[i] = 1
           /\ Serve(i) => served'[i] = 1
  <1>1. served \in [1 .. MaxItems -> {0, 1}]  BY DEF OrderInv
  <1>2. served' \in [1 .. MaxItems -> {0, 1}]  BY Core1Served
  <1>3. \A h : Serve(h) => served'[i] = IF i = h THEN served[i] + 1 ELSE served[i]
    BY <1>1 DEF Serve
  <1>4. \A message : Complete(message) => served'[i] \in {served[i], served[i] + 1}
    BY DEF Complete
  <1>5. UNCHANGED served \/ (\E h : Serve(h)) \/ (\E message : Complete(message))
    BY DEF Core1, DispatchFrame, DispatchAt, DispatchDialogue, DialogueTimesOut, Drained,
       FrameOverflow, FrameByte, FrameEnds, EndFrame, AtOverflow, AtByte, StoreBelow, AtLine,
       EmptyLine, Command, OpenDialogue, BadLine, TextByte, TextEnds, TextIsFull, DataByte,
       deviceVars, otherVars
  <1>6. served[i] \in {0, 1} /\ served'[i] \in {0, 1}  BY <1>1, <1>2
  <1>7. served[i] = 1 => served'[i] = 1  BY <1>3, <1>4, <1>5, <1>6
  <1>8. Serve(i) => served'[i] = 1  BY <1>3, <1>6
  <1> QED  BY <1>7, <1>8

LEMMA TakenStays ==
    ASSUME OrderInv, Core1, UNCHANGED items, NEW i \in 1 .. MaxItems, Taken(i)
    PROVE  Taken(i)'
  BY Effects DEF Taken, Tidy

LEMMA Completes ==
    ASSUME OrderInv, Core1, NEW i \in 1 .. Len(items), Complete(Content(i)),
           items[i].kind \in {"text", "long", "data"}
    PROVE  served'[i] = 1
  <1>1. i \in 1 .. MaxItems  BY ItemFacts DEF OrderInv
  <1>2. served[i] \in {0, 1} /\ served'[i] \in {0, 1}
    BY <1>1, Core1Served DEF OrderInv
  <1>3. served'[i] = served[i] + 1
    BY <1>1 DEF Complete
  <1> QED  BY <1>2, <1>3

LEMMA FrameClasses ==
    ASSUME NEW kind \in Frames
    PROVE  /\ Len(Form[kind]) = 3
           /\ Form[kind][1] = "h" /\ Form[kind][2] \in {"c", "n"} /\ Form[kind][3] = "z"
  <1>1. Form[kind] = <<"h", "c", "z">> \/ Form[kind] = <<"h", "n", "z">>
    BY FrameForm DEF Frames
  <1>2. CASE Form[kind] = <<"h", "c", "z">>  BY <1>2
  <1>3. CASE Form[kind] = <<"h", "n", "z">>  BY <1>3
  <1> QED  BY <1>1, <1>2, <1>3

LEMMA LineClasses ==
    ASSUME NEW kind \in LineKinds
    PROVE  /\ Len(Form[kind]) = 3
           /\ Form[kind][1] = "c" /\ Form[kind][2] = "r" /\ Form[kind][3] = "n"
  BY LineForm

-----------------------------------------------------------------------------
(* Frames.                                                                 *)

LEMMA FrameStep ==
    ASSUME NEW i, NEW k, Front(i, k), items[i].kind \in Frames, FrameMode(i, k), Core1
    PROVE  \E m : Stepped(i, k, m)
  <1>0. OrderInv /\ LoopInv  BY DEF Front, OrderInv
  <1>1. /\ Len(FormOf(i)) = 3 /\ k \in {1, 2, 3} /\ FormOf(i)[1] = "h"
        /\ (FormOf(i)[k] = "z" <=> k = 3)
    <2>1. /\ Len(FormOf(i)) = 3 /\ FormOf(i)[1] = "h" /\ FormOf(i)[2] \in {"c", "n"}
          /\ FormOf(i)[3] = "z"
      BY FrameClasses DEF FormOf
    <2>2. k \in 1 .. Len(FormOf(i))  BY FrontFacts
    <2>3. k = 1 \/ k = 2 \/ k = 3  BY <2>1, <2>2
    <2> QED  BY <2>1, <2>3
  <1>2. UNCHANGED items /\ UNCHANGED sending
    BY <1>0, Core1Moves DEF OrderInv, hostVars
  <1>3. Before(i, k) \in Seq(Byte) /\ Len(Before(i, k)) = k - 1 /\ Before(i, 1) = <<>>
        /\ Append(Before(i, k), BytesOf(i)[k]) = Before(i, k + 1)
        /\ Before(i, Len(FormOf(i)) + 1) = BytesOf(i)
    BY BeforeFacts
  <1>4. Suits("frame", FormOf(i)[k])
    <2>1. CASE k = 1  BY <1>1, <2>1 DEF FrameMode, Suits
    <2>2. CASE k # 1
      <3>1. Len(Before(i, k)) # 0  BY <1>1, <1>3, <2>2
      <3>2. Len(<<>>) = 0  OBVIOUS
      <3>3. Pending # <<>>  BY <3>1, <3>2 DEF FrameMode
      <3> QED  BY <3>3 DEF Suits
    <2> QED  BY <2>1, <2>2
  <1>5. Turns("frame") \/ Reads("frame")
    BY <1>4, TurnsOrReads DEF FrameMode
  <1>6. \A n : Before(i, n)' = Before(i, n) /\ Tidy(i)' = Tidy(i)
    BY <1>2 DEF Before, BytesOf, Tidy
  <1>7. CASE Turns("frame")
    <2>1. Mode(i, k)'
      BY <1>2, <1>6, <1>7 DEF Turns, FrameMode, Mode, Frames
    <2> QED  BY <1>7, <2>1, Stays
  <1>8. CASE Reads("frame")
    <2>1. core1 = "frame" /\ ~frame_stalled /\ binary_frame_buffer = Before(i, k)
      BY <1>0, <1>8 DEF Reads, LoopInv, FrameMode, Pending
    <2>2. Len(binary_frame_buffer) < FrameBufferSize
      <3>1. k - 1 < FrameBufferSize  BY <1>1, SerialAssumption
      <3> QED  BY <1>3, <2>1, <3>1
    <2>3. rx # <<>> /\ rx' = Tail(rx) /\ (FrameByte \/ FrameEnds)
      <3>1. PICK n \in Nat : n = Len(binary_frame_buffer)
        BY <1>3, <2>1, LenProperties
      <3>2. ~(n >= FrameBufferSize)  BY <2>2, <3>1, SerialAssumption
      <3>3. ~FrameOverflow  BY <3>1, <3>2 DEF FrameOverflow
      <3> QED  BY <1>8, <3>3 DEF Reads, FrameByte, FrameEnds, EndFrame, Read
    <2>4. Head(rx) = BytesOf(i)[k] /\ Head(rx)[1] = FormOf(i)[k] /\ Head(rx)[2] = i
      BY <2>3, FrontFacts
    <2>5. CASE FrameByte
      <3>1. k # 3 /\ k < 3  BY <1>1, <2>4, <2>5 DEF FrameByte
      <3>2. binary_frame_buffer' = Before(i, k + 1)  BY <1>3, <2>1, <2>4, <2>5 DEF FrameByte
      <3>3. Pending' = Before(i, k + 1) /\ core1' = "frame" /\ UNCHANGED <<device_state, at_buffer, awaiting>>
        BY <2>1, <2>5, <3>2 DEF FrameByte, Pending, answerVars, otherVars, dialogueVars
      <3>4. Mode(i, k + 1)'
        BY <1>2, <1>6, <3>3 DEF FrameMode, Mode, Frames
      <3>5. rx # <<>> /\ rx' = Tail(rx)  BY <2>5 DEF FrameByte, Read
      <3> QED  BY <1>1, <1>2, <3>1, <3>3, <3>4, <3>5, StepsOn
    <2>6. CASE FrameEnds
      <3>1. k = 3  BY <1>1, <2>4, <2>6 DEF FrameEnds, EndFrame
      <3>2. Append(binary_frame_buffer, Head(rx)) = BytesOf(i)
        BY <1>1, <1>3, <2>1, <2>4, <3>1
      <3>3. Serve(i)
        BY <2>4, <2>6, <3>2 DEF FrameEnds, EndFrame, BytesOf
      <3>4. Taken(i)'
        BY <1>0, <1>2, <3>3, FrontFacts, Effects DEF Taken
      <3>5. Pending' = <<>> /\ core1' = "loop" /\ UNCHANGED <<device_state, received, at_buffer, awaiting>>
        BY <2>6 DEF FrameEnds, EndFrame, Pending, answerVars, dialogueVars
      <3>6. received = <<>> /\ device_state = "IDLE" /\ (Tidy(i) => at_buffer = <<>>)
        BY <1>0 DEF LoopInv, FrameMode
      <3>7. Done(i)'
        BY <1>2, <1>6, <3>4, <3>5, <3>6 DEF Done, Settled, Frames
      <3>8. rx # <<>> /\ rx' = Tail(rx)  BY <2>6 DEF FrameEnds, EndFrame, Read
      <3>9. k = Len(FormOf(i)) /\ ~(k < Len(FormOf(i)))  BY <1>1, <3>1
      <3>10. Stepped(i, k, 1)
        <4>1. UNCHANGED awaiting /\ UNCHANGED <<items, sending>>  BY <1>2, <3>5
        <4> QED  BY <3>7, <3>8, <3>9, <4>1, StepsOn, Zenon
      <3> QED  BY <3>10
    <2> QED  BY <2>3, <2>5, <2>6
  <1> QED  BY <1>5, <1>7, <1>8

-----------------------------------------------------------------------------
(* The last item.                                                          *)

LEMMA LastOne ==
    ASSUME NEW i, NEW k, Front(i, k), i = Len(items)
    PROVE  /\ \A j \in 1 .. Len(Stream) : Stream[j][2] = i
           /\ k + Len(Stream) <= Len(FormOf(i)) + 1
           /\ sending # <<>> \/ items[i].whole => k + Len(Stream) = Len(FormOf(i)) + 1
           /\ sending # <<>> => sending[1][3] = k + Len(rx)
  <1>0. /\ HostTypes /\ StreamInv /\ SendingInv /\ rx \in Seq(Byte) /\ sending \in Seq(Byte)
    BY DEF Front, OrderInv, HostTypes, InputTypes
  <1>1. PICK s \in Seq(Byte), l \in Nat : s = Stream /\ l = Len(s)
    BY FrontFacts, LenProperties
  <1>2. PICK f \in Nat : f = Len(FormOf(i)) /\ k \in 1 .. f
    <2>1. Len(FormOf(i)) \in Nat  BY FrontFacts, FormFacts DEF FormOf
    <2> QED  BY <2>1, FrontFacts
  <1>3. 1 \in 1 .. l /\ l \in 1 .. l /\ s[1][2] = i /\ s[1][3] = k /\ i \in Nat
        /\ i \in 1 .. MaxItems
    <2>1. 1 \in 1 .. l /\ i \in 1 .. MaxItems  BY <1>1, FrontFacts
    <2>2. MaxItems \in Nat  BY SerialAssumption
    <2>3. s[1][2] = i /\ s[1][3] = k  BY <1>1, Zenon DEF Front
    <2>4. l \in 1 .. l /\ i \in Nat  BY <2>1, <2>2
    <2> QED  BY <2>1, <2>3, <2>4
  <1>4. \A j \in 1 .. l : s[j][2] = i /\ s[j][3] = k + j - 1
    <2> TAKE j \in 1 .. l
    <2>1. PICK h \in Nat, p \in Nat : h = s[j][2] /\ p = s[j][3]
      <3>1. s[j] \in Byte  BY <1>1, ElementOfSeq
      <3>2. MaxItems \in Nat  BY SerialAssumption
      <3>3. s[j][2] \in 1 .. MaxItems /\ s[j][3] \in Nat \ {0}  BY <3>1, ByteTypes
      <3>4. s[j][2] \in Nat /\ s[j][3] \in Nat  BY <3>2, <3>3
      <3> QED  BY <3>4, Zenon
    <2>2. h \in 1 .. Len(items)  BY <1>0, <1>1, <2>1 DEF StreamInv, IsByte
    <2>3. h <= i  BY <1>3, <2>2
    <2>4. (j = 1 /\ h = i /\ p = k) \/ (i = h /\ p - k = j - 1) \/ i < h
      <3>1. j = 1 \/ 1 < j  OBVIOUS
      <3>2. 1 < j => (s[1][2] = s[j][2] /\ s[j][3] - s[1][3] = j - 1) \/ s[1][2] < s[j][2]
        BY <1>0, <1>1, <1>3, Zenon DEF StreamInv
      <3> QED  BY <1>3, <2>1, <3>1, <3>2
    <2>5. h = i /\ p = k + j - 1  BY <1>2, <1>3, <2>3, <2>4
    <2> QED  BY <2>1, <2>5
  <1>5. k + l <= f + 1
    <2>1. PICK p \in Nat : p = s[l][3] /\ p = k + l - 1 /\ k \in Nat  BY <1>2, <1>3, <1>4
    <2>2. p \in 1 .. Len(Form[items[s[l][2]].kind])
      BY <1>0, <1>1, <1>3, <2>1 DEF StreamInv, IsByte, KindOf
    <2>5. s[l][2] = i  BY <1>3, <1>4
    <2>6. p \in 1 .. f  BY <1>2, <2>2, <2>5, Zenon DEF FormOf
    <2>3. p <= f  BY <1>2, <2>6
    <2>4. ASSUME NEW a \in Nat, NEW b \in Nat, NEW c \in Nat, p = a + b - 1, p <= c
          PROVE  a + b <= c + 1
      BY <2>4
    <2> QED  BY <1>2, <2>1, <2>3, <2>4, Zenon
  <1>6. Last = items[i]  BY DEF Last
  <1>7. sending # <<>> \/ items[i].whole => k + l = f + 1
    <2> SUFFICES ASSUME sending # <<>> \/ items[i].whole PROVE k + l = f + 1
      OBVIOUS
    <2>1. s[l] = BytesOf(i)[f]
      BY <1>0, <1>1, <1>2, <1>6 DEF SendingInv, FormOf, Front
    <2>2. BytesOf(i)[f][3] = f
      <3>1. f \in 1 .. f  BY <1>2
      <3> QED  BY <1>2, <1>3, <3>1, FrontFacts, ItemBytes DEF FormOf, BytesOf
    <2>3. f = k + l - 1  BY <1>3, <1>4, <2>1, <2>2
    <2> QED  BY <1>2, <2>3
  <1>8. sending # <<>> => sending[1][3] = k + Len(rx)
    <2> SUFFICES ASSUME sending # <<>> PROVE sending[1][3] = k + Len(rx)
      OBVIOUS
    <2>1. PICK r \in Nat, n \in Nat : r = Len(rx) /\ n = Len(sending)  BY <1>0, LenProperties
    <2>2. n # 0  BY <1>0, <2>1, EmptySeq
    <2>3. l = r + n /\ \A j \in 1 .. n : s[r + j] = sending[j]
      BY <1>0, <1>1, <2>1, StreamFacts
    <2>4. 1 \in 1 .. n /\ r + 1 \in 1 .. l  BY <2>2, <2>3
    <2>5. sending[1][3] = k + (r + 1) - 1  BY <1>4, <2>3, <2>4
    <2> QED  BY <1>2, <2>1, <2>5
  <1> QED  BY <1>1, <1>2, <1>4, <1>5, <1>7, <1>8

(* What has arrived of it is dropped.                                      *)
LEMMA StepsOff ==
    ASSUME NEW i, NEW k, Front(i, k), i = Len(items), UNCHANGED <<items, sending>>, rx' = <<>>,
           NEW r \in Nat, r = Len(rx),
           sending # <<>> => Mode(i, k + r)',
           sending = <<>> => Done(i)'
    PROVE  Stepped(i, k, r)
  <1>0. rx \in Seq(Byte) /\ sending \in Seq(Byte)
    BY DEF Front, OrderInv, HostTypes, InputTypes
  <1>1. PICK n \in Nat : n = Len(sending)  BY <1>0, LenProperties
  <1>2. PICK f \in Nat : f = Len(FormOf(i)) /\ k \in 1 .. f
    <2>1. Len(FormOf(i)) \in Nat  BY FrontFacts, FormFacts DEF FormOf
    <2> QED  BY <2>1, FrontFacts
  <1>3. Len(Stream) = r + n  BY <1>0, <1>1, StreamFacts
  <1>4. k + r + n <= f + 1 /\ (sending # <<>> \/ items[i].whole => k + r + n = f + 1)
    BY <1>1, <1>2, <1>3, LastOne
  <1>5. FormOf(i)' = FormOf(i) /\ items'[i].whole = items[i].whole  BY DEF FormOf
  <1>6. Drops(r)  BY ReadingDrops DEF Front, OrderInv
  <1>7. k + r \in Nat /\ k + r <= f + 1  BY <1>1, <1>2, <1>4
  <1>8. CASE sending # <<>>
    <2>1. n # 0  BY <1>0, <1>1, <1>8, EmptySeq
    <2>2. k + r <= f  BY <1>1, <1>2, <1>4, <1>8, <2>1
    <2>3. After(i, k + r)'  BY <1>1, <1>2, <1>5, <1>8, <2>2 DEF After
    <2> QED  BY <1>1, <1>2, <1>6, <1>7, <2>3 DEF Stepped
  <1>9. CASE sending = <<>>
    <2>1. Stream' = <<>>  BY <1>9, ConcatEmptySeq DEF Stream
    <2>2. n = 0  BY <1>1, <1>9
    <2>3. items[i].whole => k + r = f + 1  BY <1>1, <1>2, <1>4, <2>2
    <2>4. items[i].whole => After(i, k + r)'
      <3> SUFFICES ASSUME items[i].whole PROVE After(i, k + r)'  OBVIOUS
      <3>1. ~(k + r <= f)  BY <1>2, <2>3
      <3> QED  BY <1>2, <1>5, <1>9, <3>1 DEF After
    <2> QED  BY <1>1, <1>2, <1>5, <1>6, <1>7, <2>1, <2>4 DEF Stepped
  <1> QED  BY <1>8, <1>9

-----------------------------------------------------------------------------
(* Lines.                                                                  *)

Lines == {"line", "msg", "send"}

LEMMA AtReads ==
    ASSUME NEW i, NEW k, Front(i, k), Core1, Reads("at")
    PROVE  /\ UNCHANGED <<items, sending>>
           /\ rx # <<>> /\ Head(rx) = BytesOf(i)[k] /\ Head(rx)[1] = FormOf(i)[k]
           /\ core1 = "at" /\ core1' \in {"loop", "at"} /\ Pending = <<>> /\ Pending' = <<>>
           /\ device_state = "IDLE" /\ received = <<>> /\ at_buffer \in Seq(Byte)
           /\ AtOverflow \/ AtByte \/ AtLine
  <1>0. OrderInv /\ LoopInv  BY DEF Front, OrderInv
  <1>1. AtOverflow \/ AtByte \/ AtLine  BY DEF Reads
  <1>2. rx # <<>> /\ core1 = "at"
    BY <1>1 DEF AtOverflow, AtByte, StoreBelow, AtLine, Read
  <1>3. /\ binary_frame_buffer = <<>> /\ ~frame_stalled /\ device_state = "IDLE"
        /\ received = <<>>
    BY <1>0, <1>2 DEF LoopInv
  <1>4. UNCHANGED frameVars /\ core1' \in {"loop", "at"}
    BY <1>1, <1>2 DEF AtOverflow, AtByte, StoreBelow, AtLine
  <1>5. Pending = <<>> /\ Pending' = <<>>  BY <1>3, <1>4 DEF Pending, frameVars
  <1>6. UNCHANGED <<items, sending>>  BY <1>0, Core1Moves DEF OrderInv, hostVars
  <1>7. Head(rx) = BytesOf(i)[k] /\ Head(rx)[1] = FormOf(i)[k]  BY <1>2, FrontFacts
  <1>8. at_buffer \in Seq(Byte)  BY <1>0 DEF OrderInv, InputTypes
  <1> QED  BY <1>1, <1>2, <1>3, <1>4, <1>5, <1>6, <1>7, <1>8

LEMMA ShortLine ==
    ASSUME NEW b, at_buffer = <<>> \/ at_buffer = <<b>>
    PROVE  /\ ~(Len(at_buffer) >= AtBufferSize - 1)
           /\ Line \subseteq {b}
           /\ at_buffer = <<b>> /\ b[1] # "z" => Line = {b}
  <1>0. Len(<<>>) = 0 /\ Len(<<b>>) = 1 /\ <<b>>[1] = b  OBVIOUS
  <1>1. ~(Len(at_buffer) >= AtBufferSize - 1)
    <2>1. PICK n \in {0, 1} : n = Len(at_buffer)  BY <1>0
    <2>2. ~(n >= AtBufferSize - 1)  BY SerialAssumption
    <2> QED  BY <2>1, <2>2
  <1>2. CASE at_buffer = <<>>
    BY <1>0, <1>1, <1>2 DEF Line
  <1>3. CASE at_buffer = <<b>>
    <2>1. \A j : j \in 1 .. 1 <=> j = 1  OBVIOUS
    <2> QED  BY <1>0, <1>1, <1>3, <2>1 DEF Line
  <1> QED  BY <1>2, <1>3

(* A command is the item its line belongs to.                              *)
LEMMA CommandOf ==
    ASSUME HostTypes, NEW h \in 1 .. Len(items), NEW kind \in Lines, IsCommand(h, kind),
           NEW b, Line \subseteq {b}
    PROVE  b[1] = "c" /\ b[2] = h
  <1>1. h \in 1 .. MaxItems  BY ItemFacts
  <1>2. Form[kind][1] = "c" /\ Len(Form[kind]) = 3 /\ kind \in AllKinds
    BY LineClasses DEF Lines, LineKinds, AllKinds
  <1>3. Bytes(h, kind)[1] = <<"c", h, 1>>
    <2>1. 1 \in 1 .. Len(Form[kind])  BY <1>2
    <2> QED  BY <1>1, <1>2, <2>1, ItemBytes
  <1>4. b = Bytes(h, kind)[1]  BY DEF IsCommand
  <1> QED  BY <1>3, <1>4

(* The end of a line whose answer was given before.                        *)
LEMMA TrailStep ==
    ASSUME NEW i, NEW k, Front(i, k), items[i].kind \in LineKinds, k \in {2, 3}, Trails(i, k), Core1
    PROVE  \E m : Stepped(i, k, m)
  <1>0. OrderInv /\ LoopInv /\ HostTypes  BY DEF Front, OrderInv
  <1>1. Len(FormOf(i)) = 3 /\ FormOf(i)[1] = "c" /\ FormOf(i)[2] = "r" /\ FormOf(i)[3] = "n"
    BY LineClasses DEF FormOf
  <1>2. Suits("at", FormOf(i)[k])  BY <1>1 DEF Suits, Trails, In
  <1>3. Turns("at") \/ Reads("at")
    BY <1>2, TurnsOrReads DEF Trails, In
  <1>4. UNCHANGED items  BY <1>0, Core1Moves DEF OrderInv, hostVars
  <1>5. Taken(i)'
    BY <1>0, <1>4, FrontFacts, TakenStays DEF Trails
  <1>6. BytesOf(i)' = BytesOf(i) /\ items'[i].kind = items[i].kind /\ (Tidy(i) <=> Tidy(i)')
    BY <1>4 DEF BytesOf, Tidy
  <1>7. ASSUME NEW n \in {2, 3}, Trails(i, n)' PROVE Mode(i, n)'
    BY <1>6, <1>7 DEF Mode, CommandMode, TextMode, LineKinds, Frames
  <1>8. CASE Turns("at")
    <2>1. Trails(i, k)'
      BY <1>5, <1>6, <1>8 DEF Turns, Trails, In
    <2> QED  BY <1>7, <1>8, <2>1, Stays
  <1>9. CASE Reads("at")
    <2>1. /\ UNCHANGED <<items, sending>>
          /\ rx # <<>> /\ Head(rx) = BytesOf(i)[k] /\ Head(rx)[1] = FormOf(i)[k]
          /\ core1' \in {"loop", "at"} /\ Pending' = <<>>
          /\ device_state = "IDLE" /\ received = <<>>
          /\ AtOverflow \/ AtByte \/ AtLine
      BY <1>9, AtReads
    <2>2. PICK b : b = BytesOf(i)[2] /\ b[1] = "r"
      <3>1. 2 \in 1 .. Len(Form[items[i].kind])  BY <1>1 DEF FormOf
      <3> QED  BY <1>1, <3>1, FrontFacts, ItemBytes DEF BytesOf, FormOf
    <2>3. ~AtOverflow /\ Line \subseteq {b}
      BY <2>2, ShortLine DEF Trails, AtOverflow
    <2>4. CASE k = 2
      <3>1. at_buffer = <<>> /\ AtByte
        BY <1>1, <2>1, <2>3, <2>4 DEF Trails, AtLine, EndsLine
      <3>2. at_buffer' = <<b>> /\ rx' = Tail(rx) /\ UNCHANGED <<awaiting, device_state>>
        BY <2>1, <2>2, <2>4, <3>1 DEF AtByte, StoreBelow, Read, answerVars, dialogueVars
      <3>3. Trails(i, 3)'
        BY <1>5, <1>6, <2>1, <2>2, <3>2 DEF Trails, In
      <3>4. k + 1 = 3 /\ k # Len(FormOf(i))  BY <1>1, <2>4
      <3> QED  BY <1>7, <2>1, <3>2, <3>3, <3>4, StepsOn
    <2>5. CASE k = 3
      <3>1. AtLine  BY <1>1, <2>1, <2>3, <2>5 DEF AtByte, StoreBelow, EndsLine
      <3>2. EmptyLine
        <4>1. \A h \in 1 .. Len(items) : \A kind \in Lines : ~IsCommand(h, kind)
          BY <1>0, <2>2, <2>3, CommandOf
        <4>2. ~BadLine  BY <2>2, <2>3 DEF BadLine, LineEnd
        <4> QED  BY <3>1, <4>1, <4>2, KindNames DEF AtLine, Command, OpenDialogue, Lines
      <3>3. /\ rx' = Tail(rx) /\ UNCHANGED <<awaiting, device_state, received>>
            /\ at_buffer' = <<>> /\ core1' = "loop"
        BY <3>1, <3>2 DEF EmptyLine, AtLine, answerVars, dialogueVars
      <3>4. Done(i)'  BY <1>5, <1>6, <2>1, <3>3 DEF Done, Settled
      <3>5. k = Len(FormOf(i)) /\ ~(k < Len(FormOf(i)))  BY <1>1, <2>5
      <3>6. Stepped(i, k, 1)
        BY <2>1, <3>3, <3>4, <3>5, StepsOn
      <3> QED  BY <3>6
    <2> QED  BY <2>4, <2>5
  <1> QED  BY <1>3, <1>8, <1>9

(* The two ends of a line arrive together.                                 *)
LEMMA LineTogether ==
    ASSUME NEW i, NEW k, Front(i, k), k = 2, items[i].kind \in LineKinds, i = Len(items),
           rx # <<>>
    PROVE  sending = <<>>
  <1> SUFFICES ASSUME sending # <<>> PROVE FALSE
    OBVIOUS
  <1>0. /\ SendingInv /\ rx \in Seq(Byte) /\ sending \in Seq(Byte)
    BY DEF Front, OrderInv, HostTypes, InputTypes
  <1>1. Len(FormOf(i)) = 3  BY LineClasses DEF FormOf
  <1>2. PICK r \in Nat, n \in Nat : r = Len(rx) /\ n = Len(sending) /\ r # 0 /\ n # 0
    BY <1>0, EmptySeq, LenProperties
  <1>3. sending[1][3] = 2 + r /\ 2 + (r + n) = 3 + 1
    BY <1>0, <1>1, <1>2, LastOne, StreamFacts
  <1>4. 2 + r = 3  BY <1>2, <1>3
  <1>5. sending[1][3] # Len(Form[Last.kind]) /\ Last = items[i]
    BY <1>0 DEF SendingInv, Last, LineKinds
  <1> QED  BY <1>1, <1>3, <1>4, <1>5 DEF FormOf

(* A command line.                                                         *)
LEMMA CommandStep ==
    ASSUME NEW i, NEW k, Front(i, k), items[i].kind \in Lines, CommandMode(i, k), Core1
    PROVE  Flushed(i) \/ \E m : Stepped(i, k, m)
  <1>0. OrderInv /\ LoopInv /\ HostTypes /\ SendingInv /\ items[i].kind \in LineKinds
        /\ items[i].kind \notin Frames
    BY DEF Front, OrderInv, Lines, LineKinds, Frames
  <1>1. Len(FormOf(i)) = 3 /\ FormOf(i)[1] = "c" /\ FormOf(i)[2] = "r" /\ FormOf(i)[3] = "n"
    BY <1>0, LineClasses DEF FormOf
  <1> SUFFICES ASSUME k \in {1, 2}, In("at", "IDLE"), Heeded(i),
                      k = 1 => (Tidy(i) => at_buffer = <<>>),
                      k = 2 => at_buffer # <<>> /\ (Tidy(i) => at_buffer = Before(i, 2))
               PROVE  Flushed(i) \/ \E m : Stepped(i, k, m)
    BY <1>0, TrailStep DEF CommandMode
  <1>2. Turns("at") \/ Reads("at")
    <2>1. Suits("at", FormOf(i)[k])  BY <1>1 DEF Suits, In
    <2> QED  BY <2>1, TurnsOrReads DEF In
  <1>3. UNCHANGED items  BY <1>0, Core1Moves DEF OrderInv, hostVars
  <1>4. /\ BytesOf(i)' = BytesOf(i) /\ items'[i].kind = items[i].kind /\ (Tidy(i) <=> Tidy(i)')
        /\ Before(i, 2)' = Before(i, 2)
    BY <1>3 DEF BytesOf, Tidy, Before
  <1>5. CASE Turns("at")
    <2>1. In("at", "IDLE")' /\ Heeded(i)' /\ UNCHANGED at_buffer
      BY <1>5 DEF Turns, In, Awaited, Heeded
    <2>2. CommandMode(i, k)'  BY <1>4, <2>1 DEF CommandMode
    <2>3. Mode(i, k)'  BY <1>4, <2>2 DEF Mode, Lines, Frames
    <2> QED  BY <1>5, <2>3, Stays
  <1>6. CASE Reads("at")
    <2>1. /\ UNCHANGED <<items, sending>>
          /\ rx # <<>> /\ Head(rx) = BytesOf(i)[k] /\ Head(rx)[1] = FormOf(i)[k]
          /\ core1' \in {"loop", "at"} /\ Pending' = <<>>
          /\ device_state = "IDLE" /\ received = <<>> /\ at_buffer \in Seq(Byte)
          /\ AtOverflow \/ AtByte \/ AtLine
      BY <1>6, AtReads
    <2>2. PICK b : b = BytesOf(i)[1] /\ b[1] = "c" /\ b[2] = i /\ b \in Byte
      <3>1. 1 \in 1 .. Len(Form[items[i].kind])  BY <1>1 DEF FormOf
      <3>2. BytesOf(i)[1] \in Byte  BY <3>1, FrontFacts, ElementOfSeq DEF FormOf
      <3> QED  BY <1>1, <3>1, <3>2, FrontFacts, ItemBytes DEF BytesOf, FormOf
    <2>3. k = 2 => (Tidy(i) => at_buffer = <<b>>)
      <3> SUFFICES ASSUME k = 2 PROVE Before(i, 2) = <<b>>
        OBVIOUS
      <3>1. Before(i, 2) \in Seq(Byte) /\ Len(Before(i, 2)) = 2 - 1
            /\ \A j \in 1 .. 2 - 1 : Before(i, 2)[j] = BytesOf(i)[j]
        BY BeforeFacts
      <3>2. PICK s \in Seq(Byte) : s = Before(i, 2)  BY <3>1
      <3>3. Len(s) = 1 /\ s[1] = b  BY <2>2, <3>1, <3>2
      <3> QED  BY <3>2, <3>3
    <2>4. Tidy(i) => ~AtOverflow
      <3>1. Tidy(i) => at_buffer = <<>> \/ at_buffer = <<b>>  BY <2>3
      <3> QED  BY <3>1, ShortLine DEF AtOverflow
    <2>5. k = 2 /\ Tidy(i) => Line = {b}  BY <2>2, <2>3, ShortLine
    <2>6. /\ i = Len(items) \/ items[i].behind
          /\ i \in 1 .. MaxItems /\ i \in 1 .. Len(items) /\ i \in Nat
      <3>1. i \in 1 .. Len(items)  BY FrontFacts
      <3> QED  BY <3>1, FrontFacts DEF Awaited, Heeded
    <2>7. ASSUME NEW n \in {2, 3}, Trails(i, n)' PROVE Mode(i, n)'
      BY <1>4, <2>7 DEF Mode, CommandMode, Lines, Frames
    <2>8. k + 1 \in {2, 3} /\ (k = 1 => k + 1 = 2) /\ k < Len(FormOf(i)) /\ k # Len(FormOf(i))
      BY <1>1
    (* The answer comes early. *)
    <2>9. ASSUME rx' = Tail(rx), UNCHANGED device_state, at_buffer' = <<>>, Taken(i)'
          PROVE  \E m : Stepped(i, k, m)
      <3>1. Trails(i, k + 1)'  BY <2>1, <2>9 DEF Trails, In
      <3>2. Mode(i, k + 1)'  BY <2>7, <2>8, <3>1
      <3>3. Stepped(i, k, 1)  BY <2>1, <2>6, <2>8, <2>9, <3>2, StepsOn
      <3> QED  BY <3>3
    <2>10. CASE AtOverflow
      <3>1. rx' = Tail(rx) /\ UNCHANGED device_state /\ at_buffer' = <<>>
        BY <2>10 DEF AtOverflow, Read, dialogueVars
      <3>2. Taken(i)'  BY <1>0, <1>4, <2>4, <2>10 DEF Taken
      <3> QED  BY <2>9, <3>1, <3>2
    <2>11. CASE AtByte
      <3>1. k = 1 /\ Head(rx) = b
        <4>1. k = 1  BY <1>1, <2>1, <2>11 DEF AtByte, StoreBelow, EndsLine
        <4> QED  BY <2>1, <2>2, <4>1
      <3>2. /\ rx' = Tail(rx) /\ UNCHANGED <<awaiting, device_state>>
            /\ at_buffer' = Append(at_buffer, b)
        BY <2>11, <3>1 DEF AtByte, StoreBelow, Read, answerVars, dialogueVars
      <3>3. Append(at_buffer, b) # <<>>
        <4>1. PICK a \in Seq(Byte) : a = at_buffer  BY <2>1
        <4> QED  BY <2>2, <4>1, AppendProperties
      <3>4. Before(i, 1) = <<>> /\ Append(Before(i, 1), BytesOf(i)[1]) = Before(i, 1 + 1)
        BY <3>1, BeforeFacts
      <3>5. Tidy(i) => at_buffer' = Before(i, 2)
        BY <2>2, <3>1, <3>2, <3>4
      <3>6. In("at", "IDLE")' /\ Heeded(i)'
        BY <2>1, <3>2 DEF In, Awaited, Heeded
      <3>7. CommandMode(i, 2)'
        BY <1>4, <3>2, <3>3, <3>5, <3>6 DEF CommandMode
      <3>8. Mode(i, k + 1)'
        BY <1>4, <2>8, <3>1, <3>7 DEF Mode, Lines, Frames
      <3>9. Stepped(i, k, 1)  BY <2>1, <2>8, <3>2, <3>8, StepsOn
      <3> QED  BY <3>9
    <2>12. CASE AtLine
      <3>1. k = 2
        BY <1>1, <2>1, <2>12 DEF AtLine, EndsLine
      <3>2. at_buffer' = <<>> /\ core1' = "loop"  BY <2>12 DEF AtLine
      <3>3. CASE EmptyLine
        <4>1. ~Tidy(i)  BY <2>2, <2>5, <3>1, <3>3 DEF EmptyLine, LineEnd
        <4>2. Taken(i)'  BY <1>0, <1>4, <4>1 DEF Taken
        <4>3. rx' = Tail(rx) /\ UNCHANGED device_state  BY <3>3 DEF EmptyLine, dialogueVars
        <4> QED  BY <2>9, <3>2, <4>2, <4>3
      <3>4. CASE BadLine
        <4>1. ~Tidy(i)
          BY <2>2, <2>5, <2>6, <3>1, <3>4, KindNames DEF BadLine, IsCommand, Lines, BytesOf
        <4>2. Taken(i)'  BY <1>0, <1>4, <4>1 DEF Taken
        <4>3. rx' = Tail(rx) /\ UNCHANGED device_state  BY <3>4 DEF BadLine, dialogueVars
        <4> QED  BY <2>9, <3>2, <4>2, <4>3
      <3>5. ASSUME NEW h \in 1 .. Len(items), NEW kind \in Lines, IsCommand(h, kind), Serve(h)
            PROVE  Taken(i)'
        <4>1. Tidy(i) => h = i  BY <1>0, <2>2, <2>5, <3>1, <3>5, CommandOf
        <4> QED  BY <1>0, <1>4, <2>6, <3>5, <4>1, Effects DEF Taken
      <3>6. ASSUME NEW h \in 1 .. Len(items), Command(h)
            PROVE  \E m : Stepped(i, k, m)
        <4>1. Taken(i)'  BY <3>5, <3>6 DEF Command, Lines
        <4>2. rx' = Tail(rx) /\ UNCHANGED device_state  BY <3>6 DEF Command, dialogueVars
        <4> QED  BY <2>9, <3>2, <4>1, <4>2
      <3>7. ASSUME NEW h \in 1 .. Len(items), OpenDialogue(h)
            PROVE  Flushed(i) \/ \E m : Stepped(i, k, m)
        <4>1. Taken(i)' /\ rx' = <<>> /\ received' = <<>>
          BY <3>5, <3>7, KindNames DEF OpenDialogue, Lines
        <4>2. CASE i = Len(items)
          <5>1. Done(i)'
            BY <1>3, <2>1, <3>2, <4>1, <4>2 DEF Done, Settled
          <5>2. PICK r \in Nat : r = Len(rx)
            <6>1. rx \in Seq(Byte)  BY <1>0 DEF OrderInv, InputTypes
            <6> QED  BY <6>1, LenProperties
          <5>3. sending = <<>>  BY <1>0, <2>1, <3>1, <4>2, LineTogether
          <5>4. Stepped(i, k, r)  BY <2>1, <4>1, <4>2, <5>1, <5>2, <5>3, StepsOff
          <5> QED  BY <5>4
        <4>3. CASE i # Len(items)  BY <2>1, <2>6, <4>1, <4>3 DEF Flushed
        <4> QED  BY <4>2, <4>3
      <3> QED  BY <2>12, <3>3, <3>4, <3>6, <3>7 DEF AtLine
    <2> QED  BY <2>1, <2>10, <2>11, <2>12
  <1> QED  BY <1>2, <1>5, <1>6

-----------------------------------------------------------------------------
(* Texts and data.                                                         *)

LEMMA DialogueReads ==
    ASSUME NEW i, NEW k, Front(i, k), Core1, NEW loop \in {"text", "data"}, Reads(loop)
    PROVE  /\ UNCHANGED <<items, sending, at_buffer>> /\ at_buffer = <<>>
           /\ rx # <<>> => Head(rx) = BytesOf(i)[k] /\ Head(rx)[1] = FormOf(i)[k]
           /\ core1 = loop /\ core1' \in {"loop", loop} /\ Pending' = <<>>
           /\ received \in Seq(Byte)
           /\ loop = "text" => TextByte \/ TextEnds \/ TextIsFull
           /\ loop = "data" => DataByte
  <1>0. OrderInv /\ LoopInv  BY DEF Front, OrderInv
  <1>1. /\ loop = "text" => TextByte \/ TextEnds \/ TextIsFull
        /\ loop = "data" => DataByte
        /\ core1 = loop
    BY DEF Reads
  <1>2. binary_frame_buffer = <<>> /\ ~frame_stalled /\ at_buffer = <<>>
    BY <1>0, <1>1 DEF LoopInv, Dialogues
  <1>3. UNCHANGED frameVars /\ UNCHANGED at_buffer /\ core1' \in {"loop", loop}
    BY <1>1 DEF TextByte, TextEnds, TextIsFull, DataByte, Complete
  <1>4. Pending' = <<>>  BY <1>2, <1>3 DEF Pending, frameVars
  <1>5. UNCHANGED <<items, sending>>  BY <1>0, Core1Moves DEF OrderInv, hostVars
  <1>6. received \in Seq(Byte)  BY <1>0 DEF OrderInv, DialogueTypes
  <1> QED  BY <1>1, <1>2, <1>3, <1>4, <1>5, <1>6, FrontFacts

LEMMA TextStep ==
    ASSUME NEW i, NEW k, Front(i, k), items[i].kind = "text", TextMode(i, k), Core1
    PROVE  \E m : Stepped(i, k, m)
  <1>0. OrderInv /\ LoopInv /\ HostTypes /\ items[i].kind \in LineKinds
        /\ items[i].kind \notin Frames
    BY DEF Front, OrderInv, LineKinds, Frames
  <1>1. Len(FormOf(i)) = 3 /\ FormOf(i)[1] = "c" /\ FormOf(i)[2] = "r" /\ FormOf(i)[3] = "n"
    BY <1>0, LineClasses DEF FormOf
  <1> SUFFICES ASSUME k \in {1, 2}, In("text", "WAITING_FOR_MSG"), Awaited(i), ~late,
                      Tidy(i) => received = Before(i, k),
                      k = 1 => Len(received) < MAX_FLEX_MESSAGE_LENGTH
               PROVE  \E m : Stepped(i, k, m)
    BY <1>0, TrailStep DEF TextMode
  <1>2. Turns("text") \/ Reads("text")
    <2>1. Suits("text", FormOf(i)[k])  BY DEF Suits, In
    <2> QED  BY <2>1, TurnsOrReads DEF In
  <1>3. UNCHANGED items  BY <1>0, Core1Moves DEF OrderInv, hostVars
  <1>4. /\ BytesOf(i)' = BytesOf(i) /\ items'[i].kind = items[i].kind /\ (Tidy(i) <=> Tidy(i)')
        /\ \A n : Before(i, n)' = Before(i, n)
    BY <1>3 DEF BytesOf, Tidy, Before
  <1>5. ASSUME NEW n, TextMode(i, n)' PROVE Mode(i, n)'
    BY <1>4, <1>5 DEF Mode, Frames
  <1>6. CASE Turns("text")
    <2>1. /\ In("text", "WAITING_FOR_MSG")' /\ Awaited(i)' /\ UNCHANGED <<received, late>>
      BY <1>6 DEF Turns, In, Awaited
    <2>2. TextMode(i, k)'  BY <1>4, <2>1 DEF TextMode
    <2> QED  BY <1>5, <1>6, <2>2, Stays
  <1>7. CASE Reads("text")
    <2>1. /\ UNCHANGED <<items, sending, at_buffer>> /\ at_buffer = <<>>
          /\ rx # <<>> => Head(rx) = BytesOf(i)[k] /\ Head(rx)[1] = FormOf(i)[k]
          /\ core1 = "text" /\ core1' \in {"loop", "text"} /\ Pending' = <<>>
          /\ TextByte \/ TextEnds \/ TextIsFull
      BY <1>7, DialogueReads
    <2>2. i = Len(items) /\ i \in 1 .. Len(items) /\ i \in 1 .. MaxItems
      BY FrontFacts DEF Awaited
    <2>3. k + 1 \in {2, 3} /\ k < Len(FormOf(i)) /\ k # Len(FormOf(i))
          /\ (k = 1 => k + 1 = 2) /\ (k = 2 => k + 1 = 3)
      BY <1>1
    <2>4. CASE k = 1
      <3>1. ~TextEnds /\ ~TextIsFull
        <4>1. PICK n \in Nat : n = Len(received)
          BY <1>0, LenProperties DEF OrderInv, DialogueTypes
        <4>2. n # MAX_FLEX_MESSAGE_LENGTH  BY <2>4, <4>1, SerialAssumption
        <4> QED  BY <1>1, <2>1, <2>4, <4>1, <4>2 DEF TextEnds, TextIsFull, Read, LineEnd
      <3>2. /\ rx # <<>> /\ rx' = Tail(rx) /\ UNCHANGED <<core1, awaiting, device_state>>
            /\ received' = Append(received, BytesOf(i)[k]) /\ late' = FALSE
        BY <1>1, <2>1, <2>4, <3>1 DEF TextByte, Read, answerVars, LineEnd
      <3>3. Tidy(i) => received' = Before(i, 2)
        BY <2>3, <2>4, <3>2, BeforeFacts
      <3>4. In("text", "WAITING_FOR_MSG")' /\ Awaited(i)'
        BY <2>1, <2>2, <3>2 DEF In, Awaited
      <3>5. TextMode(i, 2)'  BY <1>4, <3>2, <3>3, <3>4 DEF TextMode
      <3>6. Mode(i, k + 1)'  BY <1>5, <2>3, <2>4, <3>5
      <3>7. Stepped(i, k, 1)  BY <2>1, <2>3, <3>2, <3>6, StepsOn
      <3> QED  BY <3>7
    <2>5. CASE k = 2
      <3>1. ~TextByte  BY <1>1, <2>1, <2>5 DEF TextByte, Read, LineEnd
      <3>2. Complete(received)  BY <2>1, <3>1 DEF TextEnds, TextIsFull
      <3>3. Taken(i)'
        <4>1. Tidy(i) => received = Content(i)
          BY <2>5 DEF Before, Content, BytesOf
        <4> QED  BY <1>0, <1>4, <2>2, <3>2, <4>1, Completes DEF Taken
      <3>4. In("at", "IDLE")' /\ received' = <<>> /\ core1' = "loop"
        BY <2>1, <3>2 DEF In, Complete, at_reset_state
      <3>5. Trails(i, 2)' /\ Trails(i, 3)'  BY <2>1, <3>3, <3>4 DEF Trails
      <3>6. Mode(i, 2)' /\ Mode(i, 3)'  BY <1>5, <3>5 DEF TextMode
      <3>7. Done(i)'  BY <2>1, <2>2, <3>3, <3>4 DEF Done, Settled, In
      <3>8. CASE TextEnds
        <4>1. rx # <<>> /\ rx' = Tail(rx)  BY <3>8 DEF TextEnds, Read
        <4>2. Stepped(i, k, 1)
          BY <2>1, <2>2, <2>3, <2>5, <3>6, <4>1, StepsOn
        <4> QED  BY <4>2
      <3>9. CASE TextIsFull
        <4>1. rx' = <<>>  BY <3>9 DEF TextIsFull
        <4>2. PICK r \in Nat : r = Len(rx)
          <5>1. rx \in Seq(Byte)  BY <1>0 DEF OrderInv, InputTypes
          <5> QED  BY <5>1, LenProperties
        <4>3. sending # <<>> => k + r = 2
          <5>1. sending # <<>> => rx = <<>>  BY <1>0, <2>2, <2>5, LineTogether
          <5>2. rx = <<>> => r = 0  BY <4>2
          <5> QED  BY <2>5, <5>1, <5>2
        <4>4. sending # <<>> => Mode(i, k + r)'  BY <3>6, <4>3
        <4>5. Stepped(i, k, r)  BY <2>1, <2>2, <3>7, <4>1, <4>2, <4>4, StepsOff
        <4> QED  BY <4>5
      <3> QED  BY <2>1, <3>1, <3>8, <3>9
    <2> QED  BY <2>4, <2>5
  <1> QED  BY <1>2, <1>6, <1>7

(* A text that is too long.                                                *)
LEMMA LongStep ==
    ASSUME NEW i, NEW k, Front(i, k), items[i].kind = "long", LongMode(i, k), ~Taken(i), Core1
    PROVE  \E m : Stepped(i, k, m)
  <1>0. OrderInv /\ LoopInv /\ HostTypes /\ items[i].kind \notin Frames
    BY DEF Front, OrderInv, Frames
  <1> DEFINE max == MAX_FLEX_MESSAGE_LENGTH
  <1>1. max \in Nat \ {0} /\ Len(FormOf(i)) = max + 3 /\ \A j \in 1 .. max + 1 : FormOf(i)[j] = "c"
    BY LongForm DEF FormOf
  <1> HIDE DEF max
  <1>2. /\ k <= max + 1 /\ In("text", "WAITING_FOR_MSG") /\ Awaited(i) /\ ~late
        /\ received = Before(i, k)
    BY DEF LongMode, max
  <1>3. k \in 1 .. max + 1 /\ k \in Nat /\ FormOf(i)[k] = "c" /\ k < Len(FormOf(i))
        /\ k # Len(FormOf(i))
    <2>1. k \in Nat \ {0}  BY FrontFacts
    <2>2. k \in 1 .. max + 1 /\ k < max + 3  BY <1>1, <1>2, <2>1
    <2> QED  BY <1>1, <2>1, <2>2
  <1>4. Turns("text") \/ Reads("text")
    <2>1. Suits("text", FormOf(i)[k])  BY <1>2 DEF Suits, In
    <2> QED  BY <1>2, <2>1, TurnsOrReads DEF In
  <1>5. UNCHANGED items  BY <1>0, Core1Moves DEF OrderInv, hostVars
  <1>6. /\ BytesOf(i)' = BytesOf(i) /\ items'[i].kind = items[i].kind /\ (Tidy(i) <=> Tidy(i)')
        /\ \A n : Before(i, n)' = Before(i, n)
    BY <1>5 DEF BytesOf, Tidy, Before
  <1>7. ASSUME NEW n, LongMode(i, n)' PROVE Mode(i, n)'
    BY <1>6, <1>7 DEF Mode, Frames
  <1>8. CASE Turns("text")
    <2>1. /\ In("text", "WAITING_FOR_MSG")' /\ Awaited(i)' /\ UNCHANGED <<received, late>>
      BY <1>2, <1>8 DEF Turns, In, Awaited
    <2>2. LongMode(i, k)'  BY <1>2, <1>6, <2>1 DEF LongMode, max
    <2> QED  BY <1>7, <1>8, <2>2, Stays
  <1>9. CASE Reads("text")
    <2>1. /\ UNCHANGED <<items, sending, at_buffer>> /\ at_buffer = <<>>
          /\ rx # <<>> => Head(rx) = BytesOf(i)[k] /\ Head(rx)[1] = FormOf(i)[k]
          /\ core1 = "text" /\ core1' \in {"loop", "text"} /\ Pending' = <<>>
          /\ TextByte \/ TextEnds \/ TextIsFull
      BY <1>9, DialogueReads
    <2>2. i = Len(items) /\ i \in 1 .. Len(items) /\ i \in 1 .. MaxItems
      BY <1>2, FrontFacts DEF Awaited
    <2>3. ~TextEnds
      BY <1>3, <2>1 DEF TextEnds, Read, LineEnd
    <2>4. Len(received) = k - 1  BY <1>2, BeforeFacts
    <2>5. CASE TextByte
      <3>1. k + 1 <= max + 1
        <4>1. k - 1 < max  BY <2>4, <2>5 DEF TextByte, max
        <4> QED  BY <1>1, <1>3, <4>1
      <3>2. /\ rx # <<>> /\ rx' = Tail(rx) /\ UNCHANGED <<core1, awaiting, device_state>>
            /\ received' = Append(received, BytesOf(i)[k]) /\ late' = FALSE
        BY <1>3, <2>1, <2>5 DEF TextByte, Read, answerVars, LineEnd
      <3>3. received' = Before(i, k + 1)  BY <1>2, <3>2, BeforeFacts
      <3>4. In("text", "WAITING_FOR_MSG")' /\ Awaited(i)'
        BY <1>2, <1>5, <2>1, <2>2, <3>2 DEF In, Awaited
      <3>5. LongMode(i, k + 1)'  BY <1>6, <3>1, <3>2, <3>3, <3>4 DEF LongMode, max
      <3>6. Mode(i, k + 1)'  BY <1>7, <3>5
      <3>7. Stepped(i, k, 1)  BY <1>3, <2>1, <3>2, <3>6, StepsOn
      <3> QED  BY <3>7
    <2>6. CASE TextIsFull
      <3>1. k - 1 = max  BY <2>4, <2>6 DEF TextIsFull, max
      <3>2. received = Content(i)
        BY <1>2, <3>1 DEF Before, Content, BytesOf, max
      <3>3. Complete(Content(i))  BY <2>6, <3>2 DEF TextIsFull
      <3>4. Taken(i)'
        BY <1>0, <1>6, <2>2, <3>3, Completes DEF Taken
      <3>5. Done(i)'  BY <1>6, <3>4 DEF Done
      <3>6. rx' = <<>>  BY <2>6 DEF TextIsFull
      <3>7. PICK r \in Nat : r = Len(rx)
        <4>1. rx \in Seq(Byte)  BY <1>0 DEF OrderInv, InputTypes
        <4> QED  BY <4>1, LenProperties
      <3>8. Mode(i, k + r)'  BY <1>7, <3>4 DEF LongMode
      <3>9. Stepped(i, k, r)  BY <2>1, <2>2, <3>5, <3>6, <3>7, <3>8, StepsOff
      <3> QED  BY <3>9
    <2> QED  BY <2>1, <2>3, <2>5, <2>6
  <1> QED  BY <1>4, <1>8, <1>9

(* Raw data: what a dialogue that was not tidy leaves of it is read as     *)
(* empty lines.                                                            *)
LEMMA DataStep ==
    ASSUME NEW i, NEW k, Front(i, k), items[i].kind = "data", DataMode(i, k), Core1
    PROVE  \E m : Stepped(i, k, m)
  <1>0. OrderInv /\ LoopInv /\ HostTypes /\ items[i].kind \notin Frames
    BY DEF Front, OrderInv, Frames
  <1>1. /\ DataLength \in Nat \ {0} /\ Len(FormOf(i)) = DataLength /\ k \in 1 .. DataLength
        /\ k \in Nat /\ FormOf(i)[k] = IF k = DataLength THEN "z" ELSE "n"
    <2>1. k \in 1 .. Len(FormOf(i)) /\ k \in Nat \ {0}  BY FrontFacts
    <2> QED  BY <2>1, DataForm DEF FormOf
  <1>2. UNCHANGED items /\ UNCHANGED sending  BY <1>0, Core1Moves DEF OrderInv, hostVars
  <1>3. /\ BytesOf(i)' = BytesOf(i) /\ items'[i].kind = items[i].kind /\ (Tidy(i) <=> Tidy(i)')
        /\ \A n : Before(i, n)' = Before(i, n)
    BY <1>2 DEF BytesOf, Tidy, Before
  <1>4. ASSUME NEW n, DataMode(i, n)' PROVE Mode(i, n)'
    BY <1>3, <1>4 DEF Mode, Frames
  <1>5. /\ k # DataLength => k < DataLength /\ k < Len(FormOf(i)) /\ k # Len(FormOf(i))
                             /\ k + 1 \in Nat
        /\ k = DataLength => k = Len(FormOf(i)) /\ ~(k < Len(FormOf(i)))
    BY <1>1
  <1>6. i \in 1 .. Len(items) /\ i \in 1 .. MaxItems  BY FrontFacts
  (* A data byte that the dialogue does not take. *)
  <1>7. ASSUME rx # <<>>, rx' = Tail(rx), UNCHANGED awaiting \/ i = Len(items), ~Tidy(i),
               core1' = "loop", Pending' = <<>>, device_state' = "IDLE", at_buffer' = <<>>
        PROVE  \E m : Stepped(i, k, m)
    <2>1. In("frame", "IDLE")' /\ In("at", "IDLE")'  BY <1>7 DEF In
    <2>2. DataMode(i, k + 1)'  BY <1>3, <1>7, <2>1 DEF DataMode
    <2>3. Done(i)'  BY <1>0, <1>3, <1>7 DEF Done, Taken, Settled
    <2>4. Mode(i, k + 1)'  BY <1>4, <2>2
    <2>5. Stepped(i, k, 1)  BY <1>2, <1>7, <2>3, <2>4, StepsOn
    <2> QED  BY <2>5
  <1>8. CASE /\ In("data", "WAITING_FOR_DATA") /\ Awaited(i) /\ ~late
             /\ Len(received) >= k - 1
             /\ Tidy(i) => received = Before(i, k)
    <2>1. Turns("data") \/ Reads("data")
      <3>1. Suits("data", FormOf(i)[k])  BY <1>8 DEF Suits, In
      <3> QED  BY <1>8, <3>1, TurnsOrReads DEF In
    <2>2. CASE Turns("data")
      <3>1. /\ In("data", "WAITING_FOR_DATA")' /\ Awaited(i)' /\ UNCHANGED <<received, late>>
        BY <1>8, <2>2 DEF Turns, In, Awaited
      <3>2. DataMode(i, k)'  BY <1>3, <1>8, <3>1 DEF DataMode
      <3> QED  BY <1>4, <2>2, <3>2, Stays
    <2>3. CASE Reads("data")
      <3>1. /\ UNCHANGED <<items, sending, at_buffer>> /\ at_buffer = <<>>
            /\ rx # <<>> => Head(rx) = BytesOf(i)[k]
            /\ core1 = "data" /\ core1' \in {"loop", "data"} /\ Pending' = <<>>
            /\ received \in Seq(Byte) /\ DataByte
        BY <2>3, DialogueReads
      <3>2. rx # <<>> /\ rx' = Tail(rx)  BY <3>1 DEF DataByte, Read
      <3>3. PICK b : b = BytesOf(i)[k] /\ b = Head(rx) /\ b \in Byte
        <4>1. Head(rx) \in Byte
          BY <1>0, <3>2, StreamFacts DEF OrderInv, HostTypes, InputTypes
        <4> QED  BY <3>1, <3>2, <4>1
      <3>4. PICK n \in Nat : n = Len(received) /\ n >= k - 1
        <4>1. Len(received) \in Nat  BY <3>1, LenProperties
        <4> QED  BY <1>8, <4>1
      <3>5. PICK a \in Seq(Byte) : a = Append(received, b) /\ Len(a) = n + 1
        BY <3>1, <3>3, <3>4, AppendProperties
      <3>6. Tidy(i) => a = Before(i, k + 1) /\ n = k - 1
        BY <1>8, <3>3, <3>4, <3>5, BeforeFacts
      <3>7. i = Len(items)  BY <1>8 DEF Awaited
      <3>8. CASE n + 1 < DataLength
        <4>1. received' = a /\ late' = FALSE /\ UNCHANGED <<awaiting, core1, device_state>>
          BY <3>1, <3>3, <3>5, <3>8 DEF DataByte, answerVars
        <4>2. In("data", "WAITING_FOR_DATA")' /\ Awaited(i)'
          BY <1>2, <1>8, <3>1, <4>1 DEF In, Awaited
        <4>3. n + 1 >= (k + 1) - 1 /\ k # DataLength  BY <1>1, <3>4, <3>8
        <4>4. DataMode(i, k + 1)'
          BY <1>3, <3>5, <3>6, <4>1, <4>2, <4>3 DEF DataMode
        <4>5. Mode(i, k + 1)'  BY <1>4, <4>4
        <4>6. Stepped(i, k, 1)  BY <1>2, <1>5, <3>2, <4>1, <4>3, <4>5, StepsOn
        <4> QED  BY <4>6
      <3>9. CASE ~(n + 1 < DataLength)
        <4>1. Complete(a)  BY <3>1, <3>3, <3>5, <3>9 DEF DataByte
        <4>2. /\ core1' = "loop" /\ device_state' = "IDLE" /\ received' = <<>>
          BY <4>1 DEF Complete, at_reset_state
        <4>3. CASE Tidy(i)
          <5>1. k = DataLength  BY <1>1, <3>6, <3>9, <4>3
          <5>2. a = Content(i)
            BY <1>1, <3>6, <4>3, <5>1, BeforeFacts DEF Content, BytesOf
          <5>3. Taken(i)'  BY <1>0, <1>3, <1>6, <4>1, <5>2, Completes DEF Taken
          <5>4. Done(i)'  BY <1>2, <3>1, <3>7, <4>2, <5>3 DEF Done, Settled
          <5>5. Stepped(i, k, 1)
            BY <1>2, <1>5, <3>2, <3>7, <5>1, <5>4, StepsOn
          <5> QED  BY <5>5
        <4>4. CASE ~Tidy(i)
          BY <1>7, <3>1, <3>2, <3>7, <4>2, <4>4
        <4> QED  BY <4>3, <4>4
      <3> QED  BY <3>8, <3>9
    <2> QED  BY <2>1, <2>2, <2>3
  <1>9. CASE /\ ~Tidy(i) /\ In(IF k = DataLength THEN "frame" ELSE "at", "IDLE")
             /\ at_buffer = <<>>
    <2>1. CASE k # DataLength
      <3>1. In("at", "IDLE") /\ FormOf(i)[k] = "n"  BY <1>1, <1>9, <2>1
      <3>2. Turns("at") \/ Reads("at")
        <4>1. Suits("at", FormOf(i)[k])  BY <3>1 DEF Suits, In
        <4> QED  BY <3>1, <4>1, TurnsOrReads DEF In
      <3>3. CASE Turns("at")
        <4>1. In("at", "IDLE")' /\ UNCHANGED at_buffer  BY <3>1, <3>3 DEF Turns, In
        <4>2. DataMode(i, k)'  BY <1>3, <1>9, <2>1, <4>1 DEF DataMode
        <4> QED  BY <1>4, <3>3, <4>2, Stays
      <3>4. CASE Reads("at")
        <4>1. /\ rx # <<>> /\ Head(rx)[1] = "n"
              /\ Pending' = <<>> /\ device_state = "IDLE"
              /\ AtOverflow \/ AtByte \/ AtLine
          BY <3>1, <3>4, AtReads
        <4>2. ~AtOverflow /\ ~AtByte /\ Line = {}
          <5>1. PICK b : b[1] = "z"
            <6>1. <<"z">>[1] = "z"  OBVIOUS
            <6> QED  BY <6>1
          <5>2. \A j \in 1 .. Len(<<>>) : FALSE  OBVIOUS
          <5>3. Line = {}  BY <1>9, <5>2 DEF Line
          <5>4. ~AtOverflow  BY <1>9, ShortLine DEF AtOverflow
          <5>5. ~AtByte  BY <4>1 DEF AtByte, StoreBelow, EndsLine
          <5> QED  BY <5>3, <5>4, <5>5
        <4>3. EmptyLine
          BY <4>1, <4>2 DEF AtLine, Command, OpenDialogue, IsCommand, BadLine
        <4>4. rx' = Tail(rx) /\ at_buffer' = <<>> /\ core1' = "loop"
              /\ UNCHANGED <<awaiting, device_state>>
          BY <4>1, <4>2, <4>3 DEF EmptyLine, AtLine, answerVars, dialogueVars
        <4> QED  BY <1>7, <1>9, <4>1, <4>4
      <3> QED  BY <3>2, <3>3, <3>4
    <2>2. CASE k = DataLength
      <3>1. In("frame", "IDLE") /\ FormOf(i)[k] = "z"  BY <1>1, <1>9, <2>2
      <3>2. Turns("frame") \/ Reads("frame")
        <4>1. Suits("frame", FormOf(i)[k])  BY <3>1 DEF Suits, In
        <4> QED  BY <3>1, <4>1, TurnsOrReads DEF In
      <3>3. CASE Turns("frame")
        <4>1. In("frame", "IDLE")' /\ UNCHANGED at_buffer  BY <3>1, <3>3 DEF Turns, In
        <4>2. DataMode(i, k)'  BY <1>3, <1>9, <2>2, <4>1 DEF DataMode
        <4> QED  BY <1>4, <3>3, <4>2, Stays
      <3>4. CASE Reads("frame")
        <4>1. core1 = "frame" /\ (FrameOverflow \/ FrameByte \/ FrameEnds)
          BY <3>4 DEF Reads
        <4>2. binary_frame_buffer = <<>>
          BY <1>0, <3>1, <4>1 DEF LoopInv, In, Pending
        <4>3. ~FrameOverflow
          <5>1. Len(binary_frame_buffer) = 0  BY <4>2
          <5>2. ~(0 >= FrameBufferSize)  BY SerialAssumption
          <5> QED  BY <5>1, <5>2 DEF FrameOverflow
        <4>4. FrameEnds
          <5>1. rx # <<>> => Head(rx)[1] = "z"  BY <3>1, FrontFacts
          <5> QED  BY <4>1, <4>3, <5>1 DEF FrameByte, Read
        <4>5. rx # <<>> /\ rx' = Tail(rx) /\ core1' = "loop" /\ Pending' = <<>>
              /\ UNCHANGED <<awaiting, device_state, at_buffer>>
          BY <4>4 DEF FrameEnds, EndFrame, Read, Pending, answerVars, dialogueVars
        <4> QED  BY <1>7, <1>9, <3>1, <4>5 DEF In
      <3> QED  BY <3>2, <3>3, <3>4
    <2> QED  BY <2>1, <2>2
  <1> QED  BY <1>8, <1>9 DEF DataMode

-----------------------------------------------------------------------------
(* Core 1 keeps the invariant.                                             *)

(* A text that was too long is served before it is read to its end; what   *)
(* becomes of the rest does not matter.                                    *)
Heedless(i) == items[i].kind = "long" /\ Taken(i)

(* The time-out of the dialogue reads nothing of the item.                 *)
LEMMA OverdueStep ==
    ASSUME NEW i, NEW k, Front(i, k), Overdue(i, k), Core1
    PROVE  Stepped(i, k, 0)
  <1>0. OrderInv /\ LoopInv /\ HostTypes /\ InputTypes  BY DEF Front, OrderInv
  <1>1. core1 = "loop" /\ Pending = <<>> /\ device_state \in Dialogues /\ late
        /\ device_state # "IDLE" /\ at_buffer = <<>>
    BY <1>0 DEF Overdue, Settled, Dialogues, LoopInv
  <1>2. DialogueTimesOut
    BY <1>1 DEF Core1, DispatchFrame, DispatchAt, DispatchDialogue, Drained, FrameOverflow,
       FrameByte, FrameEnds, EndFrame, AtOverflow, AtByte, StoreBelow, AtLine, TextByte, TextEnds,
       TextIsFull, DataByte, Read
  <1>3. /\ UNCHANGED <<items, sending, rx, at_buffer>> /\ core1' = "loop"
        /\ device_state' = "IDLE" /\ Pending' = <<>>
    BY <1>1, <1>2 DEF DialogueTimesOut, Dispatch, at_reset_state, Pending, hostVars
  <1>4. Before(i, 1)' = <<>>
    <2>1. Before(i, 1) = <<>>  BY BeforeFacts
    <2> QED  BY <1>3, <2>1 DEF Before, BytesOf
  <1>5. In("at", "IDLE")' /\ Heeded(i)' /\ at_buffer' = <<>>
    BY <1>1, <1>3 DEF In, Heeded, Overdue
  <1>6. items[i].kind \in Frames \union Lines  BY KindNames DEF Overdue, Lines
  <1>7. Mode(i, 1)'
    <2>1. CASE items[i].kind \in Frames
      <3>1. FrameMode(i, 1)'  BY <1>3, <1>4, <1>5 DEF FrameMode
      <3> QED  BY <1>3, <2>1, <3>1 DEF Mode, Frames
    <2>2. CASE items[i].kind \in Lines
      <3>1. CommandMode(i, 1)'  BY <1>5 DEF CommandMode
      <3> QED  BY <1>3, <2>2, <3>1 DEF Mode, Lines, Frames
    <2> QED  BY <1>6, <2>1, <2>2
  <1>8. k = 1 /\ items[i].behind  BY DEF Overdue
  <1>9. PICK f \in Nat \ {0} : f = Len(FormOf(i))
    BY FrontFacts, FormFacts DEF FormOf
  <1>10. k + 0 = 1 /\ 1 <= f /\ k + 0 <= f + 1  BY <1>8, <1>9
  <1>11. FormOf(i)' = FormOf(i)  BY <1>3 DEF FormOf
  <1>12. After(i, k + 0)'  BY <1>7, <1>9, <1>10, <1>11 DEF After
  <1>13. Drops(0)  BY <1>0, <1>3, ReadingDrops
  <1> QED  BY <1>3, <1>8, <1>9, <1>10, <1>12, <1>13 DEF Stepped

LEMMA FrontStep ==
    ASSUME NEW i, NEW k, Front(i, k), StepInv, items[i].fresh, ~Heedless(i), Core1
    PROVE  Flushed(i) \/ \E m : Stepped(i, k, m)
  <1>0. Overdue(i, k) \/ Mode(i, k)  BY DEF StepInv, Front, Stands
  <1> SUFFICES ASSUME Mode(i, k) PROVE Flushed(i) \/ \E m : Stepped(i, k, m)
    BY <1>0, OverdueStep
  <1>1. Mode(i, k)  OBVIOUS
  <1>2. items[i].kind \in AllKinds  BY FrontFacts
  <1>3. CASE items[i].kind \in Frames
    <2>1. FrameMode(i, k)  BY <1>1, <1>3, Zenon DEF Mode
    <2> QED  BY <1>3, <2>1, FrameStep
  <1>4. CASE items[i].kind \in Lines
    <2>1. CommandMode(i, k)  BY <1>1, <1>4, Zenon DEF Mode, Lines
    <2> QED  BY <1>4, <2>1, CommandStep
  <1>5. CASE items[i].kind = "text"
    <2>1. TextMode(i, k)  BY <1>1, <1>5, Zenon DEF Mode
    <2> QED  BY <1>5, <2>1, TextStep
  <1>6. CASE items[i].kind = "long"
    <2>1. LongMode(i, k)  BY <1>1, <1>6, Zenon DEF Mode
    <2> QED  BY <1>6, <2>1, LongStep DEF Heedless
  <1>7. CASE items[i].kind = "data"
    <2>1. DataMode(i, k)  BY <1>1, <1>7, Zenon DEF Mode
    <2> QED  BY <1>7, <2>1, DataStep
  <1>8. items[i].kind \in Frames \union Lines \union {"text", "long", "data"}
    BY <1>2 DEF AllKinds, LineKinds, Lines
  <1> QED  BY <1>3, <1>4, <1>5, <1>6, <1>7, <1>8

(* The first e bytes of the stream are the rest of its first item.         *)
Ends(i, k, e) ==
    /\ e \in 1 .. Len(Stream) /\ k + e = Len(FormOf(i)) + 1
    /\ \A j \in 1 .. Len(Stream) : Stream[j][2] = i <=> j <= e
    /\ e # Len(Stream) => Stream[e + 1][3] = 1

LEMMA FirstItem ==
    ASSUME NEW i, NEW k, Front(i, k), items[i].whole
    PROVE  \E e \in Nat : Ends(i, k, e)
  <1>0. OrderInv /\ StreamInv  BY DEF Front, OrderInv
  <1>1. PICK s \in Seq(Byte), l \in Nat : s = Stream /\ l = Len(s)
    BY FrontFacts, LenProperties
  <1>2. PICK f \in Nat : f = Len(FormOf(i)) /\ k \in 1 .. f
    <2>1. Len(FormOf(i)) \in Nat  BY FrontFacts, FormFacts DEF FormOf
    <2> QED  BY <2>1, FrontFacts
  <1>3. 1 \in 1 .. l /\ s[1][2] = i /\ s[1][3] = k /\ i \in Nat /\ KindOf(s[1]) = items[i].kind
    <2>1. 1 \in 1 .. l /\ i \in 1 .. MaxItems  BY <1>1, FrontFacts
    <2>2. MaxItems \in Nat  BY SerialAssumption
    <2>3. s[1][2] = i /\ s[1][3] = k  BY <1>1, Zenon DEF Front
    <2> QED  BY <2>1, <2>2, <2>3 DEF KindOf
  <1>4. PICK e \in 1 .. l : e - 1 = f - k /\ s[e][2] = i
    <2>1. \E e \in 1 .. Len(Stream) :
              /\ e - 1 = Len(Form[KindOf(Stream[1])]) - Stream[1][3]
              /\ Stream[e][2] = Stream[1][2]
      BY <1>0, <1>1, <1>3, WholeItem
    <2> QED  BY <1>1, <1>2, <1>3, <2>1 DEF FormOf
  <1>5. k + e = f + 1 /\ e \in Nat  BY <1>2, <1>4
  <1>6. ASSUME NEW j \in 1 .. l PROVE s[j][2] = i <=> j <= e
    <2>1. PICK h \in Nat, p \in Nat : h = s[j][2] /\ p = s[j][3]
      <3>1. s[j] \in Byte  BY <1>1, ElementOfSeq
      <3>2. MaxItems \in Nat  BY SerialAssumption
      <3>3. s[j][2] \in 1 .. MaxItems /\ s[j][3] \in Nat \ {0}  BY <3>1, ByteTypes
      <3>4. s[j][2] \in Nat /\ s[j][3] \in Nat  BY <3>2, <3>3
      <3> QED  BY <3>4, Zenon
    <2>2. ASSUME h = i PROVE j <= e
      <3>1. p <= f
        <4>1. p \in 1 .. Len(Form[items[h].kind])
          BY <1>0, <1>1, <2>1 DEF StreamInv, IsByte, KindOf
        <4> QED  BY <1>2, <2>2, <4>1 DEF FormOf
      <3>2. j = 1 \/ p - k = j - 1
        <4>1. j = 1 \/ 1 < j  OBVIOUS
        <4>2. 1 < j => (s[1][2] = s[j][2] /\ s[j][3] - s[1][3] = j - 1) \/ s[1][2] < s[j][2]
          BY <1>0, <1>1, <1>3, Zenon DEF StreamInv
        <4>3. ~(i < i)  BY <1>3
        <4> QED  BY <1>3, <2>1, <2>2, <4>1, <4>2, <4>3
      <3> QED  BY <1>2, <1>4, <3>1, <3>2
    <2>3. ASSUME j <= e PROVE h = i
      <3>1. i <= h
        <4>1. j = 1 \/ 1 < j  OBVIOUS
        <4>2. 1 < j => (s[1][2] = s[j][2] /\ s[j][3] - s[1][3] = j - 1) \/ s[1][2] < s[j][2]
          BY <1>0, <1>1, <1>3, Zenon DEF StreamInv
        <4>3. h = i \/ i < h  BY <1>3, <2>1, <4>1, <4>2
        <4> QED  BY <1>3, <4>3
      <3>2. h <= i
        <4>1. j = e \/ j < e  BY <2>3
        <4>2. j < e => (s[j][2] = s[e][2] /\ s[e][3] - s[j][3] = e - j) \/ s[j][2] < s[e][2]
          BY <1>0, <1>1, <1>4, Zenon DEF StreamInv
        <4>3. h = i \/ h < i  BY <1>4, <2>1, <4>1, <4>2
        <4> QED  BY <1>3, <4>3
      <3> QED  BY <1>3, <3>1, <3>2
    <2> QED  BY <2>1, <2>2, <2>3
  <1>7. e # l => s[e + 1][3] = 1
    <2> SUFFICES ASSUME e # l PROVE s[e + 1][3] = 1
      OBVIOUS
    <2>1. e + 1 \in 1 .. l /\ ~(e + 1 <= e)  BY <1>4
    <2>2. s[e + 1][2] # i  BY <1>6, <2>1
    <2>3. LastOfItem(e)  BY <1>1, <1>4, <2>2 DEF LastOfItem
    <2> QED  BY <1>0, <1>1, <1>4, <2>3 DEF StreamInv
  <1> QED  BY <1>1, <1>2, <1>4, <1>5, <1>6, <1>7 DEF Ends

LEMMA Idles ==
    ASSUME OrderInv, rx = <<>>, core1 = "loop"
    PROVE  ~Core1
  BY DEF Core1, DispatchFrame, DispatchAt, DispatchDialogue, DialogueTimesOut, Dispatch, Drained,
     FrameOverflow, FrameByte, FrameEnds, EndFrame, AtOverflow, AtByte, StoreBelow, AtLine,
     TextByte, TextEnds, TextIsFull, DataByte, Read

LEMMA CoreKeeps ==
    ASSUME OrderInv, Core1
    PROVE  /\ UNCHANGED <<items, sending, pause>> /\ UNCHANGED Last
           /\ OrderInv'
           /\ \A i : FormOf(i)' = FormOf(i) /\ BytesOf(i)' = BytesOf(i)
  <1>1. UNCHANGED <<items, sending, pause>>  BY Core1Moves DEF OrderInv, hostVars
  <1>2. OrderInv'  BY OrderStep DEF Next
  <1> QED  BY <1>1, <1>2 DEF Last, FormOf, BytesOf

LEMMA Remains ==
    ASSUME OrderInv, NEW m, Drops(m), NEW j \in 1 .. Len(Stream), m < j
    PROVE  j - m \in 1 .. Len(Stream') /\ Stream'[j - m] = Stream[j]
  <1>0. HostTypes /\ InputTypes  BY DEF OrderInv
  <1>1. PICK l \in Nat, n \in Nat, p \in Nat :
            /\ l = Len(Stream) /\ n = Len(Stream') /\ p = m /\ l = n + p
            /\ \A h \in 1 .. n : Stream'[h] = Stream[h + p]
    <2>1. /\ m \in Nat /\ Len(Stream) \in Nat /\ Len(Stream') \in Nat
          /\ Len(Stream) = Len(Stream') + m
          /\ \A h \in 1 .. Len(Stream') : Stream'[h] = Stream[h + m]
      BY <1>0, DropPlaces, Zenon
    <2>2. PICK l \in Nat : l = Len(Stream)  BY <2>1
    <2>3. PICK n \in Nat : n = Len(Stream')  BY <2>1
    <2>4. PICK p \in Nat : p = m  BY <2>1
    <2> QED  BY <2>1, <2>2, <2>3, <2>4, Zenon
  <1>2. j \in 1 .. l /\ p < j  BY <1>1
  <1>3. j - p \in 1 .. n /\ (j - p) + p = j  BY <1>1, <1>2
  <1>4. Stream'[j - p] = Stream[(j - p) + p]  BY <1>1, <1>3, Zenon
  <1> QED  BY <1>1, <1>3, <1>4

(* With a fresh item behind the first one, the first one is read as it     *)
(* should be.                                                              *)
LEMMA FirstOfMany ==
    ASSUME SerialInv, Core1, NEW j \in 1 .. Len(Stream), Stream[j][2] # Stream[1][2],
           items[Stream[j][2]].fresh,
           NEW h, NEW k, h = Stream[1][2], k = Stream[1][3]
    PROVE  \E m, e \in Nat :
               /\ Stepped(h, k, m) /\ Ends(h, k, e) /\ m <= e /\ e < j
               /\ Follows(Stream[j][2], h) /\ h # Len(items)
  <1>0. OrderInv /\ StepInv /\ FollowInv /\ HostTypes /\ StreamInv
    BY DEF SerialInv, OrderInv
  <1>1. PICK s \in Seq(Byte), l \in Nat : s = Stream /\ l = Len(s) /\ j \in 1 .. l
    <2>1. Stream \in Seq(Byte)
      BY <1>0, StreamFacts DEF OrderInv, HostTypes, InputTypes
    <2> QED  BY <2>1, LenProperties
  <1>2. 1 \in 1 .. l /\ 1 < j /\ s # <<>>
    <2>1. j # 1  OBVIOUS
    <2>2. 1 \in 1 .. l /\ 1 < j  BY <1>1, <2>1
    <2>3. Len(<<>>) = 0  OBVIOUS
    <2> QED  BY <1>1, <2>2, <2>3
  <1>3. Front(h, k)  BY <1>0, <1>1, <1>2 DEF Front
  <1>4. Follows(Stream[j][2], h)  BY <1>0, <1>1, <1>2 DEF FollowInv
  <1>5. PICK m : Stepped(h, k, m)
    <2>1. items[h].fresh /\ ~Heedless(h) /\ ~Flushed(h)
      BY <1>4 DEF Follows, Heedless, Flushed
    <2> QED  BY <1>0, <1>3, <2>1, FrontStep
  <1>6. PICK e \in Nat : Ends(h, k, e)
    <2>1. items[h].whole  BY <1>4 DEF Follows
    <2> QED  BY <1>3, <2>1, FirstItem
  <1>7. e < j
    <2>1. ~(j <= e)  BY <1>6 DEF Ends
    <2> QED  BY <1>1, <2>1
  <1>8. m \in Nat /\ m <= e
    <2>1. PICK f \in Nat : f = Len(FormOf(h)) /\ k \in Nat
      <3>1. Len(FormOf(h)) \in Nat  BY <1>3, FrontFacts, FormFacts DEF FormOf
      <3> QED  BY <1>3, <3>1, FrontFacts
    <2>2. m \in Nat /\ k + m <= f + 1 /\ k + e = f + 1
      BY <1>5, <1>6, <2>1 DEF Stepped, Ends
    <2>3. PICK p \in Nat, q \in Nat : p = m /\ q = k  BY <2>1, <2>2
    <2>4. q + p <= f + 1 /\ q + e = f + 1  BY <2>2, <2>3, Zenon
    <2>5. p <= e  BY <2>4
    <2> QED  BY <2>3, <2>5
  <1>9. h # Len(items)
    <2>1. PICK a \in Nat, b \in Nat : a = s[j][2] /\ b = h /\ b < a /\ a <= Len(items)
      <3>1. s[j][2] \in 1 .. Len(items) /\ h \in 1 .. Len(items)
        BY <1>0, <1>1, <1>2 DEF StreamInv, IsByte
      <3>2. Len(items) \in Nat  BY <1>0, LenProperties DEF HostTypes
      <3>3. h < s[j][2]
        BY <1>0, <1>1, <1>2, Zenon DEF StreamInv
      <3> QED  BY <3>1, <3>2, <3>3
    <2>2. Len(items) \in Nat  BY <1>0, LenProperties DEF HostTypes
    <2> QED  BY <2>1, <2>2
  <1> QED  BY <1>4, <1>5, <1>6, <1>7, <1>8, <1>9

LEMMA CoreStepInv ==
    ASSUME SerialInv, Core1
    PROVE  StepInv'
  <1>0. OrderInv /\ StepInv  BY DEF SerialInv
  <1>1. /\ UNCHANGED <<items, sending>> /\ OrderInv'
        /\ \A i : FormOf(i)' = FormOf(i) /\ BytesOf(i)' = BytesOf(i)
    BY <1>0, CoreKeeps
  <1> SUFFICES ASSUME NEW i, NEW n, Stream' # <<>>, i = Stream'[1][2], n = Stream'[1][3],
                      items[i].fresh
               PROVE  Mode(i, n)'
    BY <1>1 DEF StepInv, Stands
  <1>2. \E m : Drops(m)  BY <1>0, Core1Moves DEF OrderInv, Moves
  <1>3. PICK s \in Seq(Byte), t \in Seq(Byte), l \in Nat \ {0}, c \in Nat \ {0} :
            s = Stream /\ t = Stream' /\ l = Len(s) /\ c = Len(t) /\ c <= l
    <2>1. PICK m : Drops(m)  BY <1>2
    <2>2. /\ Stream \in Seq(Byte) /\ Stream' \in Seq(Byte) /\ Len(Stream) = Len(Stream') + m
          /\ Len(Stream) \in Nat /\ Len(Stream') \in Nat /\ m \in Nat
      BY <1>0, <2>1, DropPlaces, Zenon DEF OrderInv
    <2>3. Len(Stream') # 0  BY <2>2, EmptySeq
    <2>4. PICK l \in Nat, c \in Nat, p \in Nat : l = Len(Stream) /\ c = Len(Stream') /\ p = m
      BY <2>2
    <2>5. l = c + p /\ c # 0  BY <2>2, <2>3, <2>4, Zenon
    <2>6. l \in Nat \ {0} /\ c \in Nat \ {0} /\ c <= l  BY <2>5
    <2> QED  BY <2>2, <2>4, <2>6, Zenon
  <1>4. PICK h, k : h = s[1][2] /\ k = s[1][3] /\ 1 \in 1 .. l /\ 1 \in 1 .. c
    <2>1. 1 \in 1 .. l /\ 1 \in 1 .. c  OBVIOUS
    <2> QED  BY <2>1, Zenon
  <1>5. Front(h, k) /\ k \in Nat
    <2>1. s # <<>>
      <3>1. Len(<<>>) = 0  OBVIOUS
      <3> QED  BY <1>3, <3>1
    <2>2. Front(h, k)  BY <1>0, <1>3, <1>4, <2>1 DEF Front
    <2> QED  BY <2>2, FrontFacts
  (* Where the next byte was. *)
  <1>6. ASSUME NEW m, Drops(m)
        PROVE  /\ m \in Nat /\ 1 + m \in 1 .. l /\ s[1 + m][2] = i /\ s[1 + m][3] = n
               /\ i = h => n = k + m
    <2>1. /\ m \in Nat /\ \A j \in 1 .. c : j + m \in 1 .. l /\ t[j] = s[j + m]
      BY <1>0, <1>3, <1>6, DropPlaces, Zenon DEF OrderInv
    <2>2. 1 + m \in 1 .. l /\ t[1] = s[1 + m]  BY <1>4, <2>1, Zenon
    <2>3. s[1 + m][2] = i /\ s[1 + m][3] = n  BY <1>3, <2>2
    <2>4. ASSUME i = h PROVE n = k + m
      <3>1. n \in Nat /\ i \in Nat
        <4>1. s[1 + m] \in Byte  BY <1>3, <2>2, ElementOfSeq
        <4>2. MaxItems \in Nat  BY SerialAssumption
        <4>3. s[1 + m][2] \in 1 .. MaxItems /\ s[1 + m][3] \in Nat \ {0}
          BY <4>1, ByteTypes
        <4>4. \A x \in 1 .. MaxItems : x \in Nat  BY <4>2
        <4>5. \A x \in Nat \ {0} : x \in Nat  OBVIOUS
        <4> QED  BY <2>3, <4>3, <4>4, <4>5, Zenon
      <3>2. m = 0 \/ (1 < 1 + m /\ (1 + m) - 1 = m)  BY <2>1
      <3>3. 1 < 1 + m => \/ s[1][2] = s[1 + m][2] /\ s[1 + m][3] - s[1][3] = (1 + m) - 1
                         \/ s[1][2] < s[1 + m][2]
        BY <1>0, <1>3, <1>4, <2>2, Zenon DEF OrderInv, StreamInv
      <3>4. ~(i < i)  BY <3>1
      <3>5. 1 < 1 + m => n - k = m
        <4> SUFFICES ASSUME 1 < 1 + m PROVE n - k = m  OBVIOUS
        <4>1. s[1 + m][3] - s[1][3] = (1 + m) - 1  BY <1>4, <2>3, <2>4, <3>3, <3>4
        <4> QED  BY <1>4, <2>1, <2>3, <4>1
      <3>6. m = 0 => n = k
        <4>1. m = 0 => s[1 + m] = s[1]  BY <2>1
        <4> QED  BY <1>4, <2>3, <4>1
      <3>7. PICK x \in Nat, y \in Nat, z \in Nat : x = n /\ y = k /\ z = m
        BY <1>5, <2>1, <3>1
      <3>8. /\ z = 0 \/ 1 < 1 + z
            /\ 1 < 1 + z => x - y = z
            /\ z = 0 => x = y
        BY <3>2, <3>5, <3>6, <3>7, Zenon
      <3>9. x = y + z  BY <3>8
      <3> QED  BY <3>7, <3>9, Zenon
    <2> QED  BY <2>1, <2>2, <2>3, <2>4
  <1>7. CASE i = h
    <2>1. CASE Heedless(i)
      <3>1. i \in 1 .. MaxItems  BY <1>5, <1>7, FrontFacts
      <3>2. Taken(i)'  BY <1>0, <1>1, <2>1, <3>1, TakenStays DEF Heedless
      <3> QED  BY <1>1, <2>1, <3>2 DEF Heedless, Mode, LongMode, Frames
    <2>2. CASE ~Heedless(i)
      <3>0. ~Flushed(h)
        <4> SUFFICES ASSUME Flushed(h) PROVE FALSE
          OBVIOUS
        <4>1. t = sending /\ h # Len(items)
          BY <1>0, <1>3, ConcatEmptySeq DEF Flushed, Stream, OrderInv, HostTypes
        <4>2. t[1][2] = Len(items)
          BY <1>0, <1>3, <1>4, <4>1 DEF OrderInv, SendingInv
        <4> QED  BY <1>3, <1>7, <4>1, <4>2
      <3>1. PICK m : Stepped(h, k, m)  BY <1>0, <1>5, <1>7, <2>2, <3>0, FrontStep
      <3>2. n = k + m  BY <1>6, <1>7, <3>1 DEF Stepped
      <3>3. n <= Len(FormOf(i))
        <4>1. IsByte(t[1])'  BY <1>1, <1>3, <1>4 DEF OrderInv, StreamInv
        <4>2. n \in 1 .. Len(FormOf(i))  BY <1>1, <1>3, <4>1 DEF IsByte, KindOf, FormOf
        <4> QED  BY <4>2
      <3>4. After(i, n)'  BY <1>7, <3>1, <3>2 DEF Stepped
      <3> QED  BY <1>1, <3>3, <3>4 DEF After
    <2> QED  BY <2>1, <2>2
  <1>8. CASE i # h
    <2>1. PICK m \in Nat : Drops(m)  BY <1>2, <1>6
    <2>2. PICK j : j = 1 + m /\ j \in 1 .. Len(Stream) /\ s[j][2] = i
      BY <1>3, <1>6, <2>1
    <2>3. PICK q, e \in Nat :
              /\ Stepped(h, k, q) /\ Ends(h, k, e) /\ q <= e
              /\ Follows(i, h) /\ h # Len(items)
      BY <1>3, <1>4, <1>8, <2>2, FirstOfMany
    <2>4. q = e /\ e # l
      <3>1. q \in Nat /\ 1 + q \in 1 .. l /\ s[1 + q][2] = i  BY <1>6, <2>3 DEF Stepped
      <3>2. ~(1 + q <= e)  BY <1>3, <1>8, <2>3, <3>1 DEF Ends
      <3> QED  BY <2>3, <3>1, <3>2
    <2>5. n = 1
      <3>1. s[e + 1][3] = 1  BY <1>3, <2>3, <2>4 DEF Ends
      <3>2. s[1 + e][3] = n  BY <1>6, <2>3, <2>4 DEF Stepped
      <3>3. 1 + e = e + 1  OBVIOUS
      <3> QED  BY <3>1, <3>2, <3>3
    <2>6. Done(h)'
      <3>1. After(h, k + e)'  BY <2>3, <2>4 DEF Stepped
      <3>2. ~(k + e <= Len(FormOf(h)))
        <4>1. PICK f \in Nat : f = Len(FormOf(h))
          <5>1. Len(FormOf(h)) \in Nat  BY <1>5, FrontFacts, FormFacts DEF FormOf
          <5> QED  BY <5>1
        <4>2. k + e = f + 1  BY <2>3, <4>1 DEF Ends
        <4> QED  BY <4>1, <4>2
      <3> QED  BY <1>1, <3>1, <3>2 DEF After
    <2>7. /\ Settled' /\ device_state' = "IDLE" /\ UNCHANGED awaiting
          /\ Tidy(i) => at_buffer' = <<>>
      BY <1>1, <2>3, <2>6 DEF Done, Follows, Stepped, Tidy
    <2>8. /\ items[i].kind \in Lines \union Frames /\ (items[i].kind \notin Frames => Heeded(i)')
      BY <1>1, <2>3, <2>7, KindNames DEF Follows, Lines, Awaited, Heeded
    <2>9. Before(i, 1)' = <<>>
      <3>1. Front(i, n)'  BY <1>1, <1>3 DEF Front
      <3>2. BytesOf(i)' \in Seq(Byte)
        <4>1. i \in 1 .. Len(items)
          BY <1>0, <1>3, <2>2 DEF OrderInv, StreamInv, IsByte
        <4>2. BytesOf(i) \in Seq(Byte)  BY <1>0, <4>1, ItemFacts DEF OrderInv
        <4> QED  BY <1>1, <4>2
      <3>3. PICK b \in Seq(Byte) : b = BytesOf(i)'  BY <3>2
      <3>4. SubSeq(b, 1, 0) = <<>>  BY <3>3
      <3>5. 1 - 1 = 0  OBVIOUS
      <3> QED  BY <3>3, <3>4, <3>5 DEF Before
    <2>10. Mode(i, 1)'
      BY <1>1, <2>7, <2>8, <2>9 DEF Settled, Tidy, Mode, FrameMode, CommandMode, In, Lines, Frames
    <2> QED  BY <2>5, <2>10
  <1> QED  BY <1>7, <1>8

LEMMA CoreFollowInv ==
    ASSUME SerialInv, Core1
    PROVE  FollowInv'
  <1>0. OrderInv /\ StreamInv /\ FollowInv  BY DEF SerialInv, OrderInv
  <1>1. UNCHANGED items  BY <1>0, CoreKeeps
  <1>2. PICK m : Drops(m)  BY <1>0, Core1Moves DEF OrderInv, Moves
  <1>3. PICK s \in Seq(Byte), t \in Seq(Byte), l \in Nat, c \in Nat, p \in Nat :
            /\ s = Stream /\ t = Stream' /\ l = Len(s) /\ c = Len(t) /\ p = m
            /\ \A j \in 1 .. c : j + p \in 1 .. l /\ t[j] = s[j + p]
    <2>1. /\ Stream \in Seq(Byte) /\ Stream' \in Seq(Byte)
          /\ Len(Stream) \in Nat /\ Len(Stream') \in Nat /\ m \in Nat
          /\ \A j \in 1 .. Len(Stream') : j + m \in 1 .. Len(Stream) /\ Stream'[j] = Stream[j + m]
      BY <1>0, <1>2, DropPlaces, Zenon DEF OrderInv
    <2> QED  BY <2>1, Zenon
  <1> SUFFICES ASSUME NEW j \in 1 .. c, NEW n \in 1 .. c, j < n, t[j][2] # t[n][2],
                      items[t[n][2]].fresh
               PROVE  Follows(t[n][2], t[j][2])'
    BY <1>1, <1>3 DEF FollowInv
  <1>4. PICK x \in 1 .. l : x = j + p /\ t[j] = s[x]  BY <1>3
  <1>5. PICK y \in 1 .. l : y = n + p /\ t[n] = s[y]  BY <1>3
  <1>6. x < y /\ 1 \in 1 .. l /\ (x = 1 \/ 1 < x) /\ 1 < y  BY <1>4, <1>5
  <1>7. Follows(s[y][2], s[x][2])  BY <1>0, <1>3, <1>4, <1>5, <1>6 DEF FollowInv
  <1>8. s[y][2] # s[1][2]
    <2>1. PICK a \in Nat, b \in Nat, d \in Nat : a = s[1][2] /\ b = s[x][2] /\ d = s[y][2]
      <3>1. s[1] \in Byte /\ s[x] \in Byte /\ s[y] \in Byte  BY <1>3, <1>6, ElementOfSeq
      <3>2. MaxItems \in Nat  BY SerialAssumption
      <3>3. \A h \in 1 .. MaxItems : h \in Nat  BY <3>2
      <3>4. s[1][2] \in Nat /\ s[x][2] \in Nat /\ s[y][2] \in Nat
        BY <3>1, <3>3, ByteTypes, Zenon
      <3> QED  BY <3>4, Zenon
    <2>2. s[x][2] = s[y][2] \/ s[x][2] < s[y][2]
      BY <1>0, <1>3, <1>6, Zenon DEF StreamInv
    <2>3. x = 1 \/ s[1][2] = s[x][2] \/ s[1][2] < s[x][2]
      BY <1>0, <1>3, <1>6, Zenon DEF StreamInv
    <2>4. b < d  BY <1>4, <1>5, <2>1, <2>2
    <2>5. a = b \/ a < b  BY <2>1, <2>3
    <2>6. a # d  BY <2>4, <2>5
    <2> QED  BY <2>1, <2>6
  <1>9. UNCHANGED awaiting
    <2>1. PICK h, k : h = Stream[1][2] /\ k = Stream[1][3]  OBVIOUS
    <2>2. PICK q, e \in Nat : Stepped(h, k, q) /\ h # Len(items) /\ Follows(s[y][2], h)
      BY <1>3, <1>5, <1>8, <2>1, FirstOfMany
    <2> QED  BY <2>2 DEF Stepped, Follows
  <1> QED  BY <1>1, <1>4, <1>5, <1>7, <1>9 DEF Follows, Awaited, Tidy

LEMMA CoreFreshInv ==
    ASSUME SerialInv, Core1
    PROVE  FreshInv'
  <1>0. OrderInv /\ StepInv /\ FreshInv /\ HostTypes /\ StreamInv
    BY DEF SerialInv, OrderInv
  <1>1. /\ UNCHANGED items /\ \A i : FormOf(i)' = FormOf(i)
    BY <1>0, CoreKeeps
  <1> SUFFICES ASSUME NEW i \in 1 .. Len(items), items[i].fresh, items[i].whole,
                      \A j \in 1 .. Len(Stream') : Stream'[j][2] # i
               PROVE  Taken(i)'
    BY <1>1 DEF FreshInv
  <1>2. i \in 1 .. MaxItems  BY <1>0, ItemFacts
  <1>3. CASE Taken(i)  BY <1>0, <1>1, <1>2, <1>3, TakenStays
  <1>4. CASE ~Taken(i)
    <2>1. PICK j \in 1 .. Len(Stream) : Stream[j][2] = i  BY <1>0, <1>4 DEF FreshInv
    <2>2. PICK h, k : h = Stream[1][2] /\ k = Stream[1][3]  OBVIOUS
    <2>3. PICK s \in Seq(Byte), l \in Nat : s = Stream /\ l = Len(s) /\ j \in 1 .. l
      <3>1. Stream \in Seq(Byte)
        BY <1>0, StreamFacts DEF OrderInv, HostTypes, InputTypes
      <3> QED  BY <3>1, LenProperties
    <2>4. ASSUME NEW m, Drops(m), NEW n \in 1 .. l, m < n PROVE s[n][2] # i
      <3>1. n - m \in 1 .. Len(Stream') /\ Stream'[n - m] = Stream[n]
        BY <1>0, <2>3, <2>4, Remains
      <3> QED  BY <2>3, <3>1
    <2>5. CASE h # i
      <3>1. PICK m, e \in Nat : Stepped(h, k, m) /\ m <= e /\ e < j
        BY <2>1, <2>2, <2>5, FirstOfMany
      <3>2. PICK p \in Nat : p = m  BY <3>1 DEF Stepped
      <3>3. p < j  BY <2>3, <3>1, <3>2
      <3> QED  BY <2>1, <2>3, <2>4, <3>1, <3>2, <3>3 DEF Stepped
    <2>6. CASE h = i
      <3>1. Front(i, k)
        <4>1. s # <<>>
          <5>1. Len(<<>>) = 0  OBVIOUS
          <5> QED  BY <2>3, <5>1
        <4> QED  BY <1>0, <2>2, <2>3, <2>6, <4>1 DEF Front
      <3> SUFFICES ASSUME ~Flushed(i) PROVE Taken(i)'
        BY DEF Flushed
      <3>2. PICK m : Stepped(i, k, m)
        BY <1>0, <1>4, <3>1, FrontStep DEF Heedless
      <3>3. PICK e \in Nat : Ends(i, k, e)  BY <3>1, FirstItem
      <3>4. PICK p \in Nat, q \in Nat, f \in Nat :
                /\ p = m /\ q = k /\ f = Len(FormOf(i)) /\ q + p <= f + 1 /\ q + e = f + 1
        <4>1. Len(FormOf(i)) \in Nat  BY <3>1, FrontFacts, FormFacts DEF FormOf
        <4>2. m \in Nat /\ k \in Nat /\ k + m <= Len(FormOf(i)) + 1 /\ k + e = Len(FormOf(i)) + 1
          BY <3>1, <3>2, <3>3, FrontFacts DEF Stepped, Ends
        <4> QED  BY <4>1, <4>2, Zenon
      <3>5. p <= e  BY <3>4
      <3>6. e \in 1 .. l /\ s[e][2] = i
        <4>1. e \in 1 .. l  BY <2>3, <3>3 DEF Ends
        <4>2. e <= e  OBVIOUS
        <4> QED  BY <2>3, <3>3, <4>1, <4>2 DEF Ends
      <3>7. ~(p < e)  BY <2>4, <3>2, <3>4, <3>6 DEF Stepped
      <3>8. q + p = f + 1 /\ ~(q + p <= f)  BY <3>4, <3>5, <3>7
      <3>9. After(i, k + m)'  BY <3>2 DEF Stepped
      <3>10. ~(k + m <= Len(FormOf(i)))  BY <3>4, <3>8
      <3> QED  BY <1>1, <3>9, <3>10 DEF After, Done
    <2> QED  BY <2>5, <2>6
  <1> QED  BY <1>3, <1>4

LEMMA CorePauseInv ==
    ASSUME SerialInv, Core1
    PROVE  PauseInv'
  <1>0. /\ OrderInv /\ StepInv /\ PauseInv /\ HostTypes /\ StreamInv /\ SendingInv
        /\ rx \in Seq(Byte) /\ sending \in Seq(Byte)
    BY DEF SerialInv, OrderInv, HostTypes, InputTypes
  <1>1. UNCHANGED <<items, sending, pause>> /\ UNCHANGED Last /\ \A i : FormOf(i)' = FormOf(i)
    BY <1>0, CoreKeeps
  <1>2. ~(rx = <<>> /\ Settled)  BY <1>0, Idles DEF Settled
  <1>3. pause' = "none"  BY <1>0, <1>1, <1>2 DEF PauseInv, HostTypes
  <1> SUFFICES ASSUME Stream' = <<>>, items # <<>>, Last.fresh, Last.whole, Last.kind # "long"
               PROVE  Settled' /\ (Last.tidy => at_buffer' = <<>> /\ received' = <<>>)
    BY <1>1, <1>3 DEF PauseInv
  <1>4. PICK L : L = Len(items) /\ L \in 1 .. Len(items) /\ Last = items[L]
    BY <1>0, LastItem
  <1>5. Stream # <<>>
    <2>1. Stream = <<>> => rx = <<>>  BY <1>0, StreamFacts
    <2> QED  BY <1>0, <1>2, <2>1 DEF PauseInv
  <1>6. PICK s \in Seq(Byte), l \in Nat : s = Stream /\ l = Len(s) /\ l \in 1 .. l
    <2>1. Stream \in Seq(Byte)  BY <1>0, StreamFacts
    <2>2. PICK l \in Nat : l = Len(Stream) /\ l # 0  BY <1>5, <2>1, EmptySeq, LenProperties
    <2>3. l \in 1 .. l  BY <2>2
    <2> QED  BY <2>1, <2>2, <2>3
  <1>7. PICK h, k : h = Stream[1][2] /\ k = Stream[1][3] /\ Front(h, k)
    BY <1>0, <1>5 DEF Front
  <1>8. ASSUME NEW m, Drops(m) PROVE m = l
    <2>1. /\ m \in Nat /\ Len(Stream) = Len(Stream') + m
      BY <1>0, <1>8, DropPlaces, Zenon DEF OrderInv
    <2>2. PICK p \in Nat : p = m  BY <2>1
    <2>3. Len(<<>>) = 0  OBVIOUS
    <2>4. PICK c : c = Len(Stream') /\ c = 0  BY <2>3
    <2>5. l = c + p  BY <1>6, <2>1, <2>2, <2>4, Zenon
    <2>6. l = p  BY <2>4, <2>5
    <2> QED  BY <2>2, <2>6
  <1>9. s[l][2] = L
    <2>1. s[l] = BytesOf(L)[Len(Form[items[L].kind])]
      BY <1>0, <1>4, <1>5, <1>6 DEF SendingInv
    <2>2. Len(Form[items[L].kind]) \in 1 .. Len(Form[items[L].kind])
          /\ items[L].kind \in AllKinds /\ L \in 1 .. MaxItems
      <3>1. L \in 1 .. MaxItems /\ items[L].kind \in AllKinds  BY <1>0, <1>4, ItemFacts
      <3>2. PICK f \in Nat \ {0} : f = Len(Form[items[L].kind])  BY <3>1, FormFacts
      <3>3. f \in 1 .. f  BY <3>2
      <3> QED  BY <3>1, <3>2, <3>3
    <2> QED  BY <2>1, <2>2, ItemBytes DEF BytesOf
  <1>10. CASE h # L
    <2>1. PICK m, e \in Nat : Stepped(h, k, m) /\ m <= e /\ e < l
      BY <1>4, <1>6, <1>7, <1>9, <1>10, FirstOfMany
    <2>2. m = l  BY <1>8, <2>1 DEF Stepped
    <2> QED  BY <2>1, <2>2
  <1>11. CASE h = L
    <2>1. PICK m : Stepped(h, k, m)
      BY <1>0, <1>4, <1>7, <1>11, FrontStep DEF Heedless, Flushed
    <2>2. m = l  BY <1>8, <2>1 DEF Stepped
    <2>3. k + l = Len(FormOf(h)) + 1  BY <1>4, <1>6, <1>7, <1>11, LastOne
    <2>4. After(h, k + m)'  BY <1>4, <1>11, <2>1 DEF Stepped
    <2>5. ~(k + m <= Len(FormOf(h)))
      <3>1. PICK f \in Nat : f = Len(FormOf(h))
        <4>1. Len(FormOf(h)) \in Nat  BY <1>7, FrontFacts, FormFacts DEF FormOf
        <4> QED  BY <4>1
      <3>2. k + m = f + 1 /\ ~(f + 1 <= f)  BY <2>2, <2>3, <3>1
      <3> QED  BY <3>1, <3>2
    <2>6. Done(h)'  BY <1>1, <2>4, <2>5 DEF After
    <2> QED  BY <1>1, <1>4, <1>11, <2>6 DEF Done, Tidy
  <1> QED  BY <1>10, <1>11

(* What an action of Core 1 does to the dialogue.                          *)
LEMMA CoreDialogue ==
    ASSUME OrderInv, Core1
    PROVE  /\ \/ UNCHANGED <<dialogue, abandoned, device_state>>
              \/ dialogue' = device_state' /\ ~abandoned'
           /\ late' => late
           /\ core1 = "loop" => UNCHANGED rx
  <1> USE DEF answerVars, dialogueVars, otherVars, deviceVars
  <1>0. LoopInv  BY DEF OrderInv
  <1>1. CASE DispatchFrame \/ DispatchAt \/ DispatchDialogue \/ Drained
    BY <1>1 DEF DispatchFrame, DispatchAt, DispatchDialogue, Drained
  <1>2. CASE DialogueTimesOut
    BY <1>2 DEF DialogueTimesOut, at_reset_state, Answer
  <1>3. CASE FrameOverflow \/ FrameByte \/ FrameEnds
    BY <1>3 DEF FrameOverflow, FrameByte, FrameEnds, EndFrame, Read
  <1>4. CASE AtOverflow \/ AtByte
    BY <1>0, <1>4 DEF AtOverflow, AtByte, StoreBelow, Read, LoopInv, Answer
  <1>5. CASE AtLine
    <2>1. \/ UNCHANGED <<dialogue, abandoned, dialogueVars>>
          \/ Answer("IDLE") /\ UNCHANGED dialogueVars
          \/ \E asked : Answer(asked) /\ device_state' = asked /\ late' = FALSE
      BY <1>5 DEF AtLine, EmptyLine, Command, OpenDialogue, BadLine
    <2>2. core1 = "at" /\ device_state = "IDLE"  BY <1>0, <1>5 DEF AtLine, LoopInv
    <2> QED  BY <2>1, <2>2 DEF Answer
  <1>6. CASE TextByte \/ TextEnds \/ TextIsFull \/ DataByte
    <2>1. core1 \in {"text", "data"}
      BY <1>6 DEF TextByte, TextEnds, TextIsFull, DataByte, Read
    <2>2. \/ UNCHANGED <<dialogue, abandoned, device_state>> /\ (late' = FALSE \/ UNCHANGED late)
          \/ Answer("IDLE") /\ device_state' = "IDLE" /\ late' = FALSE
      BY <1>6 DEF TextByte, TextEnds, TextIsFull, DataByte, Complete, at_reset_state
    <2> QED  BY <2>1, <2>2 DEF Answer
  <1> QED  BY <1>1, <1>2, <1>3, <1>4, <1>5, <1>6 DEF Core1

LEMMA CoreKnownInv ==
    ASSUME SerialInv, Core1
    PROVE  KnownInv'
  <1> USE DEF dialogueVars, otherVars, frameVars, deviceVars
  <1>0. OrderInv /\ LoopInv /\ PauseInv /\ KnownInv /\ HostTypes /\ DialogueTypes
    BY DEF SerialInv, OrderInv
  <1>1. UNCHANGED <<items, sending, pause, Last>>  BY <1>0, CoreKeeps
  <1>2. pause = "none"  BY <1>0, Idles DEF PauseInv, Settled, HostTypes
  <1>3. late => core1 = "loop"  BY <1>0 DEF LoopInv, KnownInv, OrderInv, InputTypes
  <1>4. /\ ~abandoned' => dialogue' = device_state'
        /\ late' => late /\ UNCHANGED rx
        /\ abandoned' => abandoned
    BY <1>0, <1>3, CoreDialogue DEF KnownInv
  <1>5. InDialogue' => InDialogue  BY <1>1 DEF InDialogue
  <1>6. device_state' # "IDLE" => core1' # "frame" /\ binary_frame_buffer' = <<>>
    <2>1. CASE core1 = "loop"
      <3>1. DispatchFrame \/ DispatchAt \/ DispatchDialogue \/ DialogueTimesOut
        BY <2>1 DEF Core1, Drained, FrameOverflow, FrameByte, FrameEnds, EndFrame, AtOverflow,
           AtByte, StoreBelow, AtLine, TextByte, TextEnds, TextIsFull, DataByte, Read
      <3>2. CASE DispatchFrame
        BY <1>0, <3>2 DEF DispatchFrame, Pending, KnownInv
      <3>3. CASE DispatchAt  BY <3>3 DEF DispatchAt
      <3>4. CASE DispatchDialogue  BY <3>4 DEF DispatchDialogue, Dispatch
      <3>5. CASE DialogueTimesOut  BY <3>5 DEF DialogueTimesOut, at_reset_state
      <3> QED  BY <3>1, <3>2, <3>3, <3>4, <3>5
    <2>2. CASE core1 = "frame"
      <3>1. Drained \/ FrameOverflow \/ FrameByte \/ FrameEnds
        BY <2>2 DEF Core1, DispatchFrame, DispatchAt, DispatchDialogue, DialogueTimesOut, Dispatch,
           AtOverflow, AtByte, StoreBelow, AtLine, TextByte, TextEnds, TextIsFull, DataByte, Read
      <3>2. device_state = "IDLE"  BY <1>0, <2>2 DEF KnownInv
      <3> QED  BY <3>1, <3>2 DEF Drained, FrameOverflow, FrameByte, FrameEnds, EndFrame
    <2>3. CASE core1 \in {"at", "text", "data"}
      <3>1. binary_frame_buffer = <<>>  BY <1>0, <2>3 DEF LoopInv
      <3>2. core1' \in {core1, "loop"} /\ UNCHANGED binary_frame_buffer
        BY <2>3 DEF Core1, DispatchFrame, DispatchAt, DispatchDialogue, DialogueTimesOut, Dispatch,
           Drained, FrameOverflow, FrameByte, FrameEnds, EndFrame, AtOverflow, AtByte, StoreBelow,
           AtLine, TextByte, TextEnds, TextIsFull, DataByte, Complete, Read
      <3> QED  BY <2>3, <3>1, <3>2
    <2> QED  BY <1>0, <2>1, <2>2, <2>3 DEF OrderInv, InputTypes
  <1> QED  BY <1>0, <1>1, <1>2, <1>4, <1>5, <1>6 DEF KnownInv

LEMMA Core1Serial ==
    ASSUME SerialInv, Core1
    PROVE  SerialInv'
  BY CoreKeeps, CoreStepInv, CoreFollowInv, CoreFreshInv, CorePauseInv, CoreKnownInv
  DEF SerialInv

-----------------------------------------------------------------------------
(* The host keeps the invariant.                                           *)

(* An item does as it did.                                                 *)
Same(i) ==
    /\ items'[i].kind = items[i].kind
    /\ items'[i].tidy = items[i].tidy /\ items'[i].behind = items[i].behind
    /\ Awaited(i) => Awaited(i)'

LEMMA ModeKept ==
    ASSUME NEW i, NEW k, Mode(i, k), Same(i), UNCHANGED <<core1, deviceVars>>
    PROVE  Mode(i, k)'
  <1> USE DEF Same
  <1>1. UNCHANGED <<binary_frame_buffer, frame_stalled, at_buffer, device_state, received, late,
                    served, core1>>
    BY DEF deviceVars, frameVars, otherVars, dialogueVars
  <1>2. /\ Pending' = Pending /\ BytesOf(i)' = BytesOf(i)
        /\ (Tidy(i) <=> Tidy(i)') /\ (Taken(i) <=> Taken(i)')
    BY <1>1 DEF Pending, BytesOf, Tidy, Taken
  <1>3. \A n : Before(i, n)' = Before(i, n)  BY <1>2 DEF Before
  <1>4. \A loop, state : In(loop, state)' <=> In(loop, state)  BY <1>1, <1>2 DEF In
  <1>5. /\ \A n : Trails(i, n) => Trails(i, n)'
        /\ Heeded(i) => Heeded(i)'
    BY <1>1, <1>2, <1>4 DEF Trails, Heeded
  <1>6. CASE items[i].kind \in Frames
    <2>1. FrameMode(i, k)'  BY <1>1, <1>2, <1>3, <1>6 DEF Mode, FrameMode
    <2> QED  BY <1>6, <2>1 DEF Mode, Frames
  <1>7. CASE items[i].kind \in Lines
    <2>1. CommandMode(i, k)  BY <1>7 DEF Mode, Lines
    <2>2. CommandMode(i, k)'  BY <1>1, <1>2, <1>3, <1>4, <1>5, <2>1, Zenon DEF CommandMode
    <2> QED  BY <1>7, <2>2 DEF Mode, Lines, Frames
  <1>8. CASE items[i].kind = "text"
    <2>1. TextMode(i, k)  BY <1>8 DEF Mode
    <2>2. TextMode(i, k)'  BY <1>1, <1>2, <1>3, <1>4, <1>5, <2>1, Zenon DEF TextMode
    <2> QED  BY <1>8, <2>2 DEF Mode, Frames
  <1>9. CASE items[i].kind = "long"
    <2>1. LongMode(i, k)  BY <1>9 DEF Mode
    <2>2. LongMode(i, k)'  BY <1>1, <1>2, <1>3, <1>4, <2>1, Zenon DEF LongMode
    <2> QED  BY <1>9, <2>2 DEF Mode, Frames
  <1>10. CASE items[i].kind = "data"
    <2>1. DataMode(i, k)  BY <1>10 DEF Mode
    <2>2. DataMode(i, k)'  BY <1>1, <1>2, <1>3, <1>4, <2>1, Zenon DEF DataMode
    <2> QED  BY <1>10, <2>2 DEF Mode, Frames
  <1> QED  BY <1>6, <1>7, <1>8, <1>9, <1>10 DEF Mode, Lines

LEMMA StandsKept ==
    ASSUME NEW i, NEW k, Stands(i, k), Same(i), UNCHANGED <<core1, deviceVars>>
    PROVE  Stands(i, k)'
  <1>1. CASE Mode(i, k)  BY <1>1, ModeKept DEF Stands
  <1>2. CASE Overdue(i, k)
    BY <1>2 DEF Stands, Overdue, Same, Settled, Pending, deviceVars, frameVars, otherVars,
       dialogueVars
  <1> QED  BY <1>1, <1>2 DEF Stands

(* A fresh item that no byte is left of is not in the way.                 *)
LEMMA NothingAwaited ==
    ASSUME NEW i, NEW k, Mode(i, k), ~Awaited(i), ~items[i].behind, items[i].kind \in AllKinds,
           items[i].kind # "long"
    PROVE  device_state = "IDLE"
  BY DEF Mode, FrameMode, CommandMode, TextMode, DataMode, Trails, In, AllKinds, LineKinds, Frames

LEMMA SilenceSerial ==
    ASSUME SerialInv, NEW long \in BOOLEAN, Silence(long)
    PROVE  SerialInv'
  <1>0. /\ OrderInv /\ PauseInv /\ FreshInv /\ KnownInv
        /\ HostTypes /\ InputTypes /\ SendingInv
        /\ rx \in Seq(Byte) /\ sending \in Seq(Byte)
    BY DEF SerialInv, OrderInv, HostTypes, InputTypes
  <1>1. OrderInv'  BY <1>0, SilenceOrder
  <1>2. /\ UNCHANGED <<sending, rx, core1, binary_frame_buffer, at_buffer, device_state,
                       received, served>>
        /\ core1 = "loop" /\ rx = <<>> /\ frame_stalled' = (binary_frame_buffer # <<>>)
    BY DEF Silence
  <1>3. Stream' = Stream /\ Stream = sending
    BY <1>0, <1>2, ConcatEmptySeq DEF Stream
  <1>4. /\ Len(items') = Len(items)
        /\ \A i \in 1 .. Len(items) : /\ items'[i].kind = items[i].kind
                                      /\ items'[i].whole = items[i].whole
                                      /\ items'[i].tidy = items[i].tidy
                                      /\ items'[i].behind = items[i].behind
                                      /\ items'[i].fresh => items[i].fresh
    BY <1>0, SilenceItems
  <1>5. \A j \in 1 .. Len(Stream) : Stream[j][2] = Len(items)
    BY <1>0, <1>3 DEF SendingInv
  <1>6. sending # <<>> => ~items'[Len(items)].fresh
    <2> SUFFICES ASSUME sending # <<>> PROVE ~items'[Len(items)].fresh
      OBVIOUS
    <2>1. Len(items) \in 1 .. Len(items)  BY <1>0, LastItem DEF SendingInv
    <2> QED  BY <1>0, <2>1 DEF Silence, HostTypes
  <1>7. StepInv'
    <2> SUFFICES ASSUME sending # <<>> PROVE ~items'[Stream[1][2]].fresh
      BY <1>2, <1>3 DEF StepInv
    <2>1. 1 \in 1 .. Len(Stream)
      <3>1. PICK n \in Nat : n = Len(sending) /\ n # 0  BY <1>0, EmptySeq, LenProperties
      <3> QED  BY <1>3, <3>1
    <2> QED  BY <1>5, <1>6, <2>1
  <1>8. FollowInv'  BY <1>3, <1>5 DEF FollowInv
  <1>9. Settled'  BY <1>2 DEF Settled, Pending
  <1>10. PauseInv'
    <2>1. Stream = <<>> => UNCHANGED items /\ UNCHANGED Last
      BY <1>3 DEF Silence, Last
    <2> QED  BY <1>0, <1>2, <1>3, <1>9, <2>1 DEF PauseInv
  <1>11. FreshInv'  BY <1>0, <1>2, <1>3, <1>4 DEF FreshInv, Taken, Tidy
  <1>12. KnownInv'
    <2>1. ~abandoned' => ~abandoned /\ UNCHANGED dialogue  BY <1>0 DEF Silence, HostTypes
    <2>2. pause' = "long" => device_state = "IDLE" \/ late'
      BY <1>0 DEF Silence, KnownInv
    <2>3. late' => pause' = "long"  BY <1>0 DEF Silence, KnownInv
    <2>4. ~InDialogue'
      <3>1. pause' # "none"  BY DEF Silence
      <3>2. sending # <<>> => ~Last'.fresh  BY <1>4, <1>6 DEF Last
      <3> QED  BY <1>2, <3>1, <3>2 DEF InDialogue
    <2> QED  BY <1>0, <1>2, <2>1, <2>2, <2>3, <2>4 DEF KnownInv
  <1> QED  BY <1>1, <1>7, <1>8, <1>10, <1>11, <1>12 DEF SerialInv

LEMMA BreakOffSerial ==
    ASSUME SerialInv, BreakOff
    PROVE  SerialInv'
  <1>0. /\ OrderInv /\ StepInv /\ FollowInv /\ PauseInv /\ FreshInv /\ KnownInv
        /\ HostTypes /\ InputTypes /\ SendingInv
        /\ rx \in Seq(Byte) /\ sending \in Seq(Byte) /\ Stream \in Seq(Byte)
    BY StreamFacts DEF SerialInv, OrderInv, HostTypes, InputTypes
  <1>1. OrderInv'  BY <1>0, BreakOffOrder
  <1>2. /\ UNCHANGED <<items, answerVars, pause, rx, core1, deviceVars>>
        /\ sending' = <<>> /\ sending # <<>> /\ UNCHANGED awaiting
    BY DEF BreakOff, answerVars
  <1>3. ~Last.whole /\ UNCHANGED Last  BY <1>0, <1>2 DEF SendingInv, Last
  <1>4. Stream' = rx  BY <1>0, <1>2, ConcatEmptySeq DEF Stream
  <1>5. PICK r \in Nat, n \in Nat : /\ r = Len(rx) /\ n = Len(sending) /\ Len(Stream) = r + n
                                    /\ \A j \in 1 .. r : Stream[j] = rx[j]
                                    /\ \A j \in 1 .. n : Stream[r + j] = sending[j]
    <2>1. Len(rx) \in Nat /\ Len(sending) \in Nat  BY <1>0, LenProperties
    <2> QED  BY <1>0, <2>1, StreamFacts
  <1>6. \A j \in 1 .. r : j \in 1 .. Len(Stream) /\ Stream'[j] = Stream[j]
    BY <1>4, <1>5
  <1>7. \A i : UNCHANGED <<items[i], Awaited(i), Tidy(i), Taken(i)>>
    BY <1>2 DEF Awaited, Tidy, Taken, deviceVars, otherVars
  <1>8. StepInv'
    <2> SUFFICES ASSUME NEW i, NEW k, Stream' # <<>>, i = Stream'[1][2], k = Stream'[1][3],
                        items'[i].fresh
                 PROVE  Stands(i, k)'
      BY DEF StepInv
    <2>1. r # 0  BY <1>0, <1>4, <1>5, EmptySeq
    <2>2. 1 \in 1 .. r  BY <2>1
    <2>3. i = Stream[1][2] /\ k = Stream[1][3] /\ items[i].fresh
      BY <1>2, <1>6, <2>2
    <2>5. Stands(i, k)
      <3>1. Stream # <<>>  BY <1>0, StreamFacts, <1>2
      <3> QED  BY <1>0, <2>3, <3>1 DEF StepInv
    <2>6. Same(i)  BY <1>2, <1>7 DEF Same
    <2> QED  BY <1>2, <2>5, <2>6, StandsKept
  <1>9. FollowInv'
    <2> SUFFICES ASSUME NEW j \in 1 .. Len(Stream'), NEW k \in 1 .. Len(Stream'), j < k,
                        Stream'[j][2] # Stream'[k][2], items'[Stream'[k][2]].fresh
                 PROVE  Follows(Stream[k][2], Stream[j][2])'
      BY DEF FollowInv
    <2>1. /\ j \in 1 .. Len(Stream) /\ k \in 1 .. Len(Stream)
          /\ Stream'[j] = Stream[j] /\ Stream'[k] = Stream[k]
      BY <1>4, <1>5, <1>6
    <2>2. Follows(Stream[k][2], Stream[j][2])  BY <1>0, <1>2, <2>1 DEF FollowInv
    <2> QED  BY <1>2, <2>1, <2>2 DEF Follows, Tidy, Awaited
  <1>10. PauseInv'
    <2>1. UNCHANGED Settled  BY <1>2 DEF Settled, Pending, deviceVars, frameVars
    <2> QED  BY <1>0, <1>2, <1>3, <2>1 DEF PauseInv
  <1>11. FreshInv'
    <2> SUFFICES ASSUME NEW i \in 1 .. Len(items'), items'[i].fresh, items'[i].whole,
                        \A j \in 1 .. Len(Stream') : Stream'[j][2] # i
                 PROVE  Taken(i)
      BY <1>7 DEF FreshInv
    <2>0. /\ i \in 1 .. Len(items) /\ items[i].fresh /\ items[i].whole
          /\ \A j \in 1 .. r : Stream[j][2] # i
      BY <1>2, <1>4, <1>5, <1>6
    <2>1. i # Len(items)  BY <1>3, <2>0 DEF Last
    <2>2. ASSUME NEW j \in 1 .. Len(Stream) PROVE Stream[j][2] # i
      <3>1. CASE j \in 1 .. r  BY <2>0, <3>1
      <3>2. CASE j \notin 1 .. r
        <4>1. PICK p \in 1 .. n : j = r + p
          <5>1. j - r \in 1 .. n /\ j = r + (j - r)  BY <1>5, <3>2
          <5> QED  BY <5>1
        <4>2. Stream[j][2] = Len(items)  BY <1>0, <1>5, <4>1 DEF SendingInv
        <4> QED  BY <2>1, <4>2
      <3> QED  BY <3>1, <3>2
    <2> QED  BY <1>0, <2>0, <2>2 DEF FreshInv
  <1>12. KnownInv'
    BY <1>0, <1>2, <1>3 DEF KnownInv, InDialogue, answerVars, deviceVars, frameVars, otherVars,
       dialogueVars
  <1> QED  BY <1>1, <1>8, <1>9, <1>10, <1>11, <1>12 DEF SerialInv

LEMMA SendSerial ==
    ASSUME SerialInv, SendByte
    PROVE  SerialInv'
  <1>0. /\ OrderInv /\ StepInv /\ FollowInv /\ PauseInv /\ FreshInv /\ KnownInv
        /\ HostTypes /\ SendingInv /\ StreamInv /\ sending # <<>>
    BY DEF SerialInv, OrderInv, SendByte
  <1>1. OrderInv'  BY <1>0, SendOrder
  <1>2. PICK L, f, m, n \in Nat \ {0} : Sends(L, f, m, n)  BY <1>0, SendTypes
  <1>3. /\ L = Len(items) /\ Len(items') = L /\ L \in 1 .. L /\ Last = items[L] /\ ~items[L].whole
        /\ Stream' = Stream /\ Stream # <<>>
    <2>1. L = Len(items) /\ Len(items') = L /\ Last = items[L] /\ Stream' = Stream
          /\ Stream # <<>>
      BY <1>2 DEF Sends
    <2>2. ~Last.whole  BY <1>0 DEF SendingInv
    <2> QED  BY <2>1, <2>2
  <1>4. \A i \in 1 .. L : /\ items'[i].kind = items[i].kind
                          /\ items'[i].fresh = items[i].fresh
                          /\ items'[i].tidy = items[i].tidy /\ items'[i].behind = items[i].behind
                          /\ i # L => items'[i].whole = items[i].whole
    <2>1. PICK w \in BOOLEAN : w <=> sending' = <<>>  OBVIOUS
    <2>2. items' = [items EXCEPT ![L].whole = w]  BY <1>3, <2>1 DEF SendByte
    <2> DEFINE Item == ItemRecord
    <2>3. items \in Seq(Item)  BY <1>0 DEF HostTypes
    <2>4. items[L] \in Item  BY <1>3, <2>3, ElementOfSeq
    <2>5. PICK item \in Item : item = [items[L] EXCEPT !.whole = w]  BY <2>4 DEF ItemRecord
    <2>6. items' = [items EXCEPT ![L] = item]  BY <2>2, <2>5
    <2>7. \A i \in 1 .. L : items'[i] = IF i = L THEN item ELSE items[i]
      BY <1>3, <2>3, <2>6, ExceptSeq
    <2>8. item.kind = items[L].kind /\ item.fresh = items[L].fresh /\ item.tidy = items[L].tidy
          /\ item.behind = items[L].behind
      BY <2>4, <2>5 DEF ItemRecord
    <2> QED  BY <2>7, <2>8
  <1>5. UNCHANGED <<core1, deviceVars, answerVars, awaiting>> /\ pause' = "none"
    BY DEF SendByte, answerVars
  <1>6. \A i : Awaited(i)' <=> Awaited(i)  BY <1>3, <1>5 DEF Awaited
  <1>7. \A i \in 1 .. L : (Tidy(i)' <=> Tidy(i)) /\ (Taken(i)' <=> Taken(i))
    BY <1>4, <1>5 DEF Tidy, Taken, deviceVars, otherVars
  <1>8. \A j \in 1 .. Len(Stream) : Stream[j][2] \in 1 .. L
    BY <1>0, <1>3 DEF StreamInv, IsByte
  <1>9. 1 \in 1 .. Len(Stream) /\ Len(Stream) \in 1 .. Len(Stream)
        /\ Stream[Len(Stream)][2] = L
    <2>1. rx \in Seq(Byte) /\ sending \in Seq(Byte)  BY <1>0 DEF OrderInv, HostTypes, InputTypes
    <2>2. PICK r \in Nat, p \in Nat : r = Len(rx) /\ p = Len(sending) /\ p # 0
      BY <1>0, <2>1, EmptySeq, LenProperties
    <2>3. Len(Stream) = r + p /\ \A j \in 1 .. p : Stream[r + j] = sending[j]
      BY <2>1, <2>2, StreamFacts
    <2>4. p \in 1 .. p /\ 1 \in 1 .. r + p /\ r + p \in 1 .. r + p  BY <2>2
    <2>5. sending[p][2] = L  BY <1>0, <1>3, <2>2, <2>4 DEF SendingInv
    <2> QED  BY <2>3, <2>4, <2>5
  <1>10. StepInv'
    <2> SUFFICES ASSUME NEW i, NEW k, i = Stream[1][2], k = Stream[1][3], items'[i].fresh
                 PROVE  Stands(i, k)'
      BY <1>3 DEF StepInv
    <2>1. i \in 1 .. L  BY <1>8, <1>9
    <2>2. Stands(i, k)  BY <1>0, <1>3, <1>4, <2>1 DEF StepInv
    <2>3. Same(i)  BY <1>4, <1>6, <2>1 DEF Same
    <2> QED  BY <1>5, <2>2, <2>3, StandsKept
  <1>11. FollowInv'
    <2> SUFFICES ASSUME NEW j \in 1 .. Len(Stream), NEW k \in 1 .. Len(Stream), j < k,
                        NEW h, NEW i, h = Stream[j][2], i = Stream[k][2], h # i, items'[i].fresh
                 PROVE  Follows(i, h)'
      BY <1>3 DEF FollowInv
    <2>1. h \in 1 .. L /\ i \in 1 .. L  BY <1>8
    <2>2. Follows(i, h)  BY <1>0, <1>4, <2>1 DEF FollowInv
    <2>3. h # L  BY <1>3, <2>2 DEF Follows
    <2> QED  BY <1>4, <1>6, <2>1, <2>2, <2>3 DEF Follows, Tidy
  <1>12. PauseInv'  BY <1>3, <1>5 DEF PauseInv
  <1>13. FreshInv'
    <2> SUFFICES ASSUME NEW i \in 1 .. L, items'[i].fresh, items'[i].whole,
                        \A j \in 1 .. Len(Stream) : Stream[j][2] # i
                 PROVE  Taken(i)'
      BY <1>3 DEF FreshInv
    <2>1. i # L  BY <1>9
    <2>2. Taken(i)  BY <1>0, <1>3, <1>4, <2>1 DEF FreshInv
    <2> QED  BY <1>7, <2>2
  <1>14. KnownInv'
    <2>1. items' # <<>> /\ Last' = items'[L] /\ rx' # <<>>
      <3>1. Len(items') # 0  BY <1>3
      <3>2. items' # <<>>
        <4>1. Len(<<>>) = 0  OBVIOUS
        <4> QED  BY <3>1, <4>1
      <3>3. Len(rx') # 0
        <4>1. rx \in Seq(Byte) /\ sending \in Seq(Byte)
          BY <1>0 DEF OrderInv, HostTypes, InputTypes
        <4>2. /\ rx' \in Seq(Byte) /\ sending' \in Seq(Byte) /\ Stream' = Stream
              /\ Len(sending') = Len(sending) - n
          BY <1>2 DEF Sends
        <4>3. Len(rx') + Len(sending') = Len(rx) + Len(sending)
          <5>1. Len(Stream) = Len(rx) + Len(sending)  BY <4>1, StreamFacts
          <5>2. Len(rx' \o sending') = Len(rx') + Len(sending')  BY <4>2, Concatenation
          <5>3. Stream' = rx' \o sending'  BY DEF Stream
          <5> QED  BY <4>2, <5>1, <5>2, <5>3
        <4>4. PICK a \in Nat, b \in Nat, c \in Nat, d \in Nat :
                  a = Len(rx) /\ b = Len(sending) /\ c = Len(rx') /\ d = Len(sending')
          BY <4>1, <4>2, LenProperties
        <4> QED  BY <4>2, <4>3, <4>4
      <3>4. rx' # <<>>
        <4>1. Len(<<>>) = 0  OBVIOUS
        <4> QED  BY <3>3, <4>1
      <3> QED  BY <1>3, <3>2, <3>4 DEF Last
    <2>2. InDialogue' => InDialogue  BY <1>0, <1>3, <1>4, <2>1 DEF InDialogue, SendingInv
    <2> QED  BY <1>0, <1>5, <2>1, <2>2 DEF KnownInv, answerVars, deviceVars, frameVars, otherVars,
                dialogueVars
  <1> QED  BY <1>1, <1>10, <1>11, <1>12, <1>13, <1>14 DEF SerialInv

(* A new item starts fresh: what is left of the ones before is fresh and   *)
(* whole, and the device is or will be ready for it.                       *)
LEMMA ReadyForFresh ==
    ASSUME SerialInv, ~awaiting, sending = <<>>, NEW kind \in AllKinds, StartsFresh(kind),
           kind \in Answers[dialogue]
    PROVE  /\ Stream = <<>> =>
                  /\ Settled
                  /\ StartsTidy => at_buffer = <<>>
                  /\ \/ /\ kind \in Answers[device_state] /\ ~late
                        /\ StartsTidy => received = <<>>
                     \/ /\ abandoned /\ device_state \in Dialogues /\ late
                        /\ kind \in Answers["IDLE"]
           /\ Stream # <<>> =>
                  /\ kind \in Answers["IDLE"]
                  /\ \A j \in 1 .. Len(Stream) :
                         /\ items[Stream[j][2]].fresh /\ items[Stream[j][2]].whole
                         /\ items[Stream[j][2]].kind # "long" /\ ~items[Stream[j][2]].behind
                         /\ Tidy(Stream[j][2]) = StartsTidy
           /\ abandoned \/ ~late
  <1>0. /\ OrderInv /\ StepInv /\ FollowInv /\ PauseInv /\ KnownInv
        /\ HostTypes /\ SendingInv /\ StreamInv /\ LoopInv /\ DialogueTypes
        /\ rx \in Seq(Byte) /\ sending \in Seq(Byte) /\ Stream \in Seq(Byte)
    BY StreamFacts DEF SerialInv, OrderInv, HostTypes, InputTypes
  <1>1. pause \in {"none", "short", "long"} /\ device_state \in {"IDLE"} \union Dialogues
    BY <1>0, KindNames DEF HostTypes, DialogueTypes, Dialogues
  <1>2. /\ pause = "none" => InStep /\ InDialogue
        /\ pause = "short" => ~abandoned
        /\ pause = "long" => kind \in Answers["IDLE"]
    BY DEF StartsFresh, InStep, InDialogue
  <1>3. ~abandoned => kind \in Answers[device_state]  BY <1>0 DEF KnownInv
  <1>4. abandoned \/ ~late
    <2>1. CASE pause = "none"  BY <1>0, <1>2, <2>1 DEF KnownInv
    <2>2. CASE pause = "short"
      <3>1. rx = <<>>  BY <1>0, <2>2 DEF PauseInv
      <3> QED  BY <1>0, <2>2, <3>1 DEF KnownInv
    <2>3. CASE pause = "long" /\ ~abandoned
      <3>1. kind \in Answers["IDLE"] /\ kind \in Answers[device_state]  BY <1>2, <1>3, <2>3
      <3>2. device_state = "IDLE"  BY <1>1, <3>1, KindNames DEF Dialogues, Frames
      <3> QED  BY <1>0, <3>2 DEF LoopInv
    <2> QED  BY <1>1, <2>1, <2>2, <2>3
  <1>5. CASE Stream = <<>>
    <2>1. Settled  BY <1>0, <1>2, <1>5 DEF PauseInv, InStep
    <2>2. StartsTidy => at_buffer = <<>>
      BY <1>0, <1>2, <1>5 DEF PauseInv, InStep, StartsTidy
    <2>3. CASE pause = "long" /\ device_state \in Dialogues
      <3>1. late  BY <1>0, <2>3 DEF KnownInv, Dialogues
      <3> QED  BY <1>2, <1>4, <1>5, <2>1, <2>2, <2>3, <3>1
    <2>4. CASE pause = "long" /\ device_state = "IDLE"
      <3>1. received = <<>> /\ ~late  BY <1>0, <2>4 DEF LoopInv
      <3> QED  BY <1>2, <1>4, <1>5, <2>1, <2>2, <2>4, <3>1
    <2>5. CASE pause # "long"
      <3>1. ~abandoned  BY <1>0, <1>1, <1>2, <2>5 DEF KnownInv
      <3>2. StartsTidy => received = <<>>
        BY <1>0, <1>1, <1>2, <1>5, <2>5 DEF PauseInv, InStep, StartsTidy
      <3> QED  BY <1>2, <1>3, <1>4, <1>5, <2>1, <2>2, <3>1, <3>2
    <2> QED  BY <1>1, <2>3, <2>4, <2>5
  <1>6. CASE Stream # <<>>
    <2>1. pause = "none" /\ InStep /\ StartsTidy = Last.tidy
      <3>1. pause # "none" => Stream = <<>>  BY <1>0, StreamFacts DEF PauseInv
      <3> QED  BY <1>2, <1>6, <3>1 DEF StartsTidy
    <2>2. PICK L : L = Len(items) /\ L \in 1 .. Len(items) /\ Last = items[L]
      BY <1>0, <2>1, LastItem DEF InStep
    <2>3. PICK l \in Nat : l = Len(Stream) /\ 1 \in 1 .. l /\ l \in 1 .. l
      <3>1. PICK l \in Nat : l = Len(Stream) /\ l # 0  BY <1>0, <1>6, EmptySeq, LenProperties
      <3>2. 1 \in 1 .. l /\ l \in 1 .. l  BY <3>1
      <3> QED  BY <3>1, <3>2
    <2>4. Stream[l][2] = L
      <3>1. Stream[l] = BytesOf(L)[Len(Form[items[L].kind])]
        BY <1>0, <1>6, <2>1, <2>2, <2>3 DEF SendingInv, InStep
      <3>2. L \in 1 .. MaxItems /\ items[L].kind \in AllKinds  BY <1>0, <2>2, ItemFacts
      <3>3. PICK f \in Nat \ {0} : f = Len(Form[items[L].kind])  BY <3>2, FormFacts
      <3>4. f \in 1 .. f  BY <3>3
      <3> QED  BY <3>1, <3>2, <3>3, <3>4, ItemBytes DEF BytesOf
    <2>5. ASSUME NEW j \in 1 .. Len(Stream)
          PROVE  /\ items[Stream[j][2]].fresh /\ items[Stream[j][2]].whole
                 /\ items[Stream[j][2]].kind # "long" /\ ~items[Stream[j][2]].behind
                 /\ Tidy(Stream[j][2]) = StartsTidy
      <3>1. CASE Stream[j][2] = L  BY <2>1, <2>2, <3>1 DEF Tidy, InStep
      <3>2. CASE Stream[j][2] # L
        <4>1. j # l /\ j < l
          <5>1. j # l  BY <2>4, <3>2
          <5> QED  BY <2>3, <5>1
        <4>2. Follows(L, Stream[j][2])
          BY <1>0, <2>1, <2>2, <2>3, <2>4, <3>2, <4>1 DEF FollowInv, InStep
        <4> QED  BY <2>1, <2>2, <4>2 DEF Follows, Tidy
      <3> QED  BY <3>1, <3>2
    <2>6. device_state = "IDLE"
      <3>1. PICK i, k : i = Stream[1][2] /\ k = Stream[1][3]  OBVIOUS
      <3>2. Mode(i, k) /\ items[i].kind # "long" /\ ~items[i].behind
        <4>1. Stands(i, k) /\ items[i].kind # "long" /\ ~items[i].behind
          BY <1>0, <1>6, <2>3, <2>5, <3>1 DEF StepInv
        <4> QED  BY <4>1 DEF Stands, Overdue
      <3>3. items[i].kind \in AllKinds
        <4>1. i \in 1 .. Len(items)  BY <1>0, <2>3, <3>1 DEF StreamInv, IsByte
        <4> QED  BY <1>0, <4>1, ItemFacts
      <3> QED  BY <3>2, <3>3, NothingAwaited DEF Awaited
    <2>7. kind \in Answers["IDLE"]
      <3>1. ~abandoned  BY <1>0, <1>2, <2>1 DEF KnownInv
      <3> QED  BY <1>3, <2>6, <3>1
    <2> QED  BY <1>4, <1>6, <2>1, <2>5, <2>7
  <1> QED  BY <1>5, <1>6

LEMMA BeginSerial ==
    ASSUME SerialInv, NEW kind \in Kinds, BeginItem(kind)
    PROVE  SerialInv'
  <1>0. /\ OrderInv /\ StepInv /\ FollowInv /\ PauseInv /\ FreshInv /\ KnownInv
        /\ HostTypes /\ SendingInv /\ StreamInv /\ LoopInv /\ DialogueTypes /\ rx \in Seq(Byte)
    BY DEF SerialInv, OrderInv, InputTypes
  <1>1. OrderInv'  BY <1>0, BeginOrder
  <1>2. /\ UNCHANGED <<dialogue, abandoned, pause, rx, core1, deviceVars>>
        /\ sending = <<>> /\ ~awaiting /\ awaiting' = (kind \notin Frames)
        /\ kind \in AllKinds /\ kind \in Answers[dialogue]
    BY KindNames DEF BeginItem
  <1>3. PICK L \in Nat, f \in Nat \ {0} :
            /\ L = Len(items) /\ Len(items') = L + 1 /\ f = Len(Form[kind])
            /\ \A i \in 1 .. L : items'[i] = items[i]
            /\ items'[L + 1].kind = kind /\ ~items'[L + 1].whole /\ Last' = items'[L + 1]
            /\ items' # <<>>
            /\ sending' = Bytes(L + 1, kind) /\ sending' \in Seq(Byte) /\ Len(sending') = f
            /\ \A j \in 1 .. f : sending'[j][2] = L + 1 /\ sending'[j][3] = j
    BY <1>0, BeginTypes
  <1>4. /\ items'[L + 1].fresh = StartsFresh(kind) /\ items'[L + 1].tidy = StartsTidy
        /\ items'[L + 1].behind = abandoned
    <2>1. PICK item : item = [kind |-> kind, whole |-> FALSE, fresh |-> StartsFresh(kind),
                              tidy |-> StartsTidy, behind |-> abandoned]
      OBVIOUS
    <2>2. items' = Append(items, item)  BY <2>1 DEF BeginItem
    <2>3. items'[L + 1] = item  BY <1>0, <1>3, <2>2 DEF HostTypes
    <2> QED  BY <2>1, <2>3
  <1>5. Stream = rx  BY <1>0, <1>2, ConcatEmptySeq DEF Stream
  <1>6. PICK r \in Nat : /\ r = Len(Stream) /\ Len(Stream') = r + f
                         /\ \A j \in 1 .. r : Stream'[j] = Stream[j]
                         /\ \A j \in 1 .. f : Stream'[r + j] = sending'[j]
    <2>1. PICK r \in Nat : r = Len(rx)  BY <1>0, LenProperties
    <2>2. rx' = rx /\ rx' \in Seq(Byte)  BY <1>0, <1>2
    <2>a. PICK old \in Seq(Byte) : old = rx' /\ old = rx  BY <2>2
    <2>b. PICK new \in Seq(Byte) : new = sending'  BY <1>3
    <2>c. Len(old) = r /\ Len(new) = f  BY <1>3, <2>1, <2>a, <2>b
    <2>d. /\ Len(old \o new) = r + f
          /\ \A j \in 1 .. r : (old \o new)[j] = old[j]
          /\ \A j \in 1 .. f : (old \o new)[r + j] = new[j]
      BY <2>c, Concatenation
    <2>3. /\ Len(rx' \o sending') = r + f
          /\ \A j \in 1 .. r : (rx' \o sending')[j] = rx[j]
          /\ \A j \in 1 .. f : (rx' \o sending')[r + j] = sending'[j]
      BY <2>a, <2>b, <2>d
    <2> QED  BY <1>5, <2>1, <2>3 DEF Stream
  <1>7. \A j \in 1 .. r : Stream[j][2] \in 1 .. L
    BY <1>0, <1>3, <1>6 DEF StreamInv, IsByte
  <1>8. \A i \in 1 .. L : /\ Tidy(i)' = Tidy(i) /\ (Taken(i)' <=> Taken(i)) /\ ~Awaited(i)
    BY <1>2, <1>3 DEF Tidy, Taken, Awaited, deviceVars, otherVars
  <1>9. \A j \in 1 .. r + f : j \in 1 .. r \/ Stream'[j][2] = L + 1
    <2> SUFFICES ASSUME NEW j \in 1 .. r + f, j \notin 1 .. r PROVE Stream'[j][2] = L + 1
      OBVIOUS
    <2>1. PICK p \in 1 .. f : j = r + p
      <3>1. j - r \in 1 .. f /\ j = r + (j - r)  OBVIOUS
      <3> QED  BY <3>1
    <2>2. Stream'[r + p] = sending'[p]  BY <1>6, <2>1
    <2>3. sending'[p][2] = L + 1  BY <1>3, <2>1
    <2> QED  BY <2>1, <2>2, <2>3
  <1>10. L + 1 \notin 1 .. L  OBVIOUS
  (* What its freshness says. *)
  <1>11. ASSUME StartsFresh(kind)
         PROVE  /\ Stream = <<>> =>
                       /\ Settled
                       /\ StartsTidy => at_buffer = <<>>
                       /\ \/ /\ kind \in Answers[device_state] /\ ~late
                             /\ StartsTidy => received = <<>>
                          \/ /\ abandoned /\ device_state \in Dialogues /\ late
                             /\ kind \in Answers["IDLE"]
                /\ Stream # <<>> =>
                       /\ kind \in Answers["IDLE"]
                       /\ \A j \in 1 .. Len(Stream) :
                              /\ items[Stream[j][2]].fresh /\ items[Stream[j][2]].whole
                              /\ items[Stream[j][2]].kind # "long" /\ ~items[Stream[j][2]].behind
                              /\ Tidy(Stream[j][2]) = StartsTidy
                /\ abandoned \/ ~late
    BY <1>2, <1>11, ReadyForFresh
  <1>12. StepInv'
    <2> SUFFICES ASSUME NEW i, NEW k, i = Stream'[1][2], k = Stream'[1][3], items'[i].fresh
                 PROVE  Stands(i, k)'
      BY DEF StepInv
    <2>1. CASE Stream # <<>>
      <3>1. r # 0 /\ 1 \in 1 .. r
        <4>1. r # 0
          <5>1. Len(rx) # 0  BY <1>0, <1>5, <2>1, EmptySeq
          <5> QED  BY <1>5, <1>6, <5>1
        <4> QED  BY <4>1
      <3>2. i = Stream[1][2] /\ k = Stream[1][3] /\ i \in 1 .. L  BY <1>6, <1>7, <3>1
      <3>3. Stands(i, k)  BY <1>0, <1>3, <2>1, <3>2 DEF StepInv
      <3>4. Same(i)  BY <1>3, <1>8, <3>2 DEF Same
      <3> QED  BY <1>2, <3>3, <3>4, StandsKept
    <2>2. CASE Stream = <<>>
      <3>1. r = 0
        <4>1. Len(<<>>) = 0  OBVIOUS
        <4> QED  BY <1>6, <2>2, <4>1
      <3>2. 1 \in 1 .. f /\ r + 1 = 1  BY <3>1
      <3>3. i = L + 1 /\ k = 1  BY <1>3, <1>6, <3>2
      <3>4. StartsFresh(kind)  BY <1>4, <3>3
      <3>5. Settled /\ (StartsTidy => at_buffer = <<>>)  BY <1>11, <2>2, <3>4
      <3>20. CASE abandoned /\ device_state \in Dialogues /\ late /\ kind \in Answers["IDLE"]
        <4>1. Settled'
          BY <1>2, <3>5 DEF Settled, Pending, deviceVars, frameVars, otherVars, dialogueVars
        <4>2. items'[i].behind /\ items'[i].kind = kind  BY <1>3, <1>4, <3>3, <3>20
        <4>3. Overdue(i, k)'
          BY <1>2, <3>3, <3>20, <4>1, <4>2 DEF Overdue, deviceVars, otherVars, dialogueVars
        <4> QED  BY <4>3 DEF Stands
      <3> SUFFICES ASSUME kind \in Answers[device_state], ~late, StartsTidy => received = <<>>
                   PROVE  Mode(i, k)'
        BY <1>11, <2>2, <3>4, <3>20 DEF Stands
      <3>6. /\ core1' = "loop" /\ Pending' = <<>> /\ device_state' = device_state
            /\ received' = received /\ kind \in Answers[device_state] /\ late' = FALSE
            /\ at_buffer' = at_buffer
        BY <1>0, <1>2, <3>5
        DEF Settled, Pending, deviceVars, frameVars, otherVars, dialogueVars, DialogueTypes
      <3>7. Tidy(i)' => at_buffer' = <<>> /\ received' = <<>>
        BY <1>4, <3>3, <3>5, <3>6 DEF Tidy
      <3>8. Awaited(i)' <=> kind \notin Frames  BY <1>2, <1>3, <3>3 DEF Awaited
      <3>9. Before(i, 1)' = <<>>
        <4>1. L + 1 \in 1 .. Len(items')  BY <1>3
        <4>2. BytesOf(i)' = sending'  BY <1>3, <3>3 DEF BytesOf
        <4>3. PICK b \in Seq(Byte) : b = BytesOf(i)'  BY <1>3, <4>2
        <4>4. SubSeq(b, 1, 0) = <<>>  BY <4>3
        <4>5. 1 - 1 = 0  OBVIOUS
        <4> QED  BY <4>3, <4>4, <4>5 DEF Before
      <3>10. items'[i].kind = kind  BY <1>3, <3>3
      <3>11. device_state \in DOMAIN Answers  BY <1>0 DEF DialogueTypes
      <3>12. CASE kind \in Frames
        <4>1. device_state = "IDLE"  BY <3>6, <3>11, <3>12, KindNames DEF Frames
        <4>2. FrameMode(i, 1)'  BY <3>6, <3>7, <3>9, <4>1 DEF FrameMode
        <4> QED  BY <3>3, <3>10, <3>12, <4>2 DEF Mode, Frames
      <3>13. CASE kind \in Lines
        <4>1. device_state = "IDLE"  BY <3>6, <3>11, <3>13, KindNames DEF Lines
        <4>2. kind \notin Frames  BY <3>13 DEF Lines, Frames
        <4>3. CommandMode(i, 1)'  BY <3>6, <3>7, <3>8, <4>1, <4>2 DEF CommandMode, Heeded, In
        <4> QED  BY <3>3, <3>10, <3>13, <4>2, <4>3 DEF Mode, Lines
      <3>14. CASE kind = "text"
        <4>1. device_state = "WAITING_FOR_MSG"  BY <3>6, <3>11, <3>14, KindNames DEF Frames
        <4>2. Len(received) < MAX_FLEX_MESSAGE_LENGTH
          <5>1. PICK n \in Nat, max \in Nat : n = Len(received) /\ max = MAX_FLEX_MESSAGE_LENGTH
            <6>1. Len(received) \in Nat  BY <1>0, LenProperties DEF DialogueTypes
            <6> QED  BY <6>1, SerialAssumption
          <5>2. n # max  BY <1>0, <3>5, <4>1, <5>1 DEF LoopInv, Settled
          <5>3. n <= max  BY <1>0, <4>1, <5>1 DEF DialogueTypes
          <5>4. n < max  BY <5>2, <5>3
          <5> QED  BY <5>1, <5>4
        <4>3. kind \notin Frames  BY <3>14 DEF Frames
        <4>4. TextMode(i, 1)'  BY <3>6, <3>7, <3>8, <3>9, <4>1, <4>2, <4>3 DEF TextMode, In
        <4> QED  BY <3>3, <3>10, <3>14, <4>3, <4>4 DEF Mode
      <3>15. CASE kind = "long"
        <4>1. device_state = "WAITING_FOR_MSG"  BY <3>6, <3>11, <3>15, KindNames DEF Frames
        <4>2. kind \notin Frames  BY <3>15 DEF Frames
        <4>3. 1 <= MAX_FLEX_MESSAGE_LENGTH + 1  BY SerialAssumption
        <4>4. CASE Tidy(i)'
          <5>1. LongMode(i, 1)'
            BY <3>6, <3>7, <3>8, <3>9, <4>1, <4>2, <4>3, <4>4 DEF LongMode, In
          <5> QED  BY <3>3, <3>10, <3>15, <4>2, <5>1 DEF Mode
        <4>5. CASE ~Tidy(i)'
          <5>1. LongMode(i, 1)'  BY <3>10, <4>2, <4>5 DEF LongMode, Taken
          <5> QED  BY <3>3, <3>10, <3>15, <4>2, <5>1 DEF Mode
        <4> QED  BY <4>4, <4>5
      <3>16. CASE kind = "data"
        <4>1. device_state = "WAITING_FOR_DATA"  BY <3>6, <3>11, <3>16, KindNames DEF Frames
        <4>2. kind \notin Frames  BY <3>16 DEF Frames
        <4>3. Len(received) >= 1 - 1
          <5>1. PICK n \in Nat : n = Len(received)  BY <1>0, LenProperties DEF DialogueTypes
          <5>2. n >= 1 - 1  OBVIOUS
          <5> QED  BY <5>1, <5>2
        <4>4. DataMode(i, 1)'
          BY <3>6, <3>7, <3>8, <3>9, <4>1, <4>2, <4>3 DEF DataMode, In
        <4> QED  BY <3>3, <3>10, <3>16, <4>2, <4>4 DEF Mode
      <3> QED  BY <1>2, <3>12, <3>13, <3>14, <3>15, <3>16 DEF AllKinds, LineKinds, Lines
    <2> QED  BY <2>1, <2>2
  <1>13. FollowInv'
    <2> SUFFICES ASSUME NEW j \in 1 .. r + f, NEW k \in 1 .. r + f, j < k,
                        NEW h, NEW i, h = Stream'[j][2], i = Stream'[k][2], h # i, items'[i].fresh
                 PROVE  Follows(i, h)'
      BY <1>6 DEF FollowInv
    <2>1. j \in 1 .. r
      <3> SUFFICES ASSUME j \notin 1 .. r PROVE FALSE
        OBVIOUS
      <3>1. k \notin 1 .. r  OBVIOUS
      <3> QED  BY <1>9, <3>1
    <2>2. h = Stream[j][2] /\ h \in 1 .. L /\ items'[h] = items[h]  BY <1>3, <1>6, <1>7, <2>1
    <2>3. CASE k \in 1 .. r
      <3>1. i = Stream[k][2] /\ i \in 1 .. L /\ items'[i] = items[i]  BY <1>3, <1>6, <1>7, <2>3
      <3>2. Follows(i, h)  BY <1>0, <1>6, <2>1, <2>2, <2>3, <3>1 DEF FollowInv
      <3> QED  BY <1>8, <2>2, <3>1, <3>2 DEF Follows, Tidy
    <2>4. CASE k \notin 1 .. r
      <3>1. i = L + 1  BY <1>9, <2>4
      <3>2. StartsFresh(kind)  BY <1>4, <3>1
      <3>3. Stream # <<>> /\ j \in 1 .. Len(Stream)
        <4>1. Len(<<>>) = 0  OBVIOUS
        <4>2. r # 0  BY <2>1
        <4> QED  BY <1>6, <2>1, <4>1, <4>2
      <3>4. /\ items[h].fresh /\ items[h].whole /\ items[h].kind # "long" /\ ~items[h].behind
            /\ Tidy(h) = StartsTidy /\ kind \in Answers["IDLE"]
        BY <1>11, <2>2, <3>2, <3>3
      <3>5. items'[i].tidy = items'[h].tidy  BY <1>4, <2>2, <3>1, <3>4 DEF Tidy
      <3>6. items'[i].kind = kind /\ kind \in Answers["IDLE"]
        BY <1>3, <3>1, <3>4
      <3>7. kind \notin Frames => Awaited(i)'  BY <1>2, <1>3, <3>1 DEF Awaited
      <3> QED  BY <2>2, <3>4, <3>5, <3>6, <3>7 DEF Follows, Tidy
    <2> QED  BY <2>3, <2>4
  <1>14. PauseInv'
    <2>1. Stream' # <<>>
      <3>1. Len(<<>>) = 0 /\ r + f # 0  OBVIOUS
      <3> QED  BY <1>6, <3>1
    <2>2. pause' # "none" => rx' = <<>> /\ Settled'
      BY <1>0, <1>2 DEF PauseInv, Settled, Pending, deviceVars, frameVars
    <2> QED  BY <2>1, <2>2 DEF PauseInv
  <1>15. FreshInv'
    <2> SUFFICES ASSUME NEW i \in 1 .. L + 1, items'[i].fresh, items'[i].whole,
                        \A j \in 1 .. r + f : Stream'[j][2] # i
                 PROVE  Taken(i)'
      BY <1>3, <1>6 DEF FreshInv
    <2>1. i \in 1 .. L
      <3>1. i # L + 1  BY <1>3
      <3> QED  BY <3>1
    <2>2. \A j \in 1 .. r : Stream[j][2] # i
      <3>1. \A j \in 1 .. r : j \in 1 .. r + f  OBVIOUS
      <3> QED  BY <1>6, <3>1
    <2>3. Taken(i)  BY <1>0, <1>3, <1>6, <2>1, <2>2 DEF FreshInv
    <2> QED  BY <1>8, <2>1, <2>3
  <1>16. KnownInv'
    <2>1. InDialogue' => ~abandoned /\ ~late
      BY <1>3, <1>4, <1>11 DEF InDialogue
    <2> QED  BY <1>0, <1>2, <2>1 DEF KnownInv, deviceVars, frameVars, otherVars, dialogueVars
  <1> QED  BY <1>1, <1>12, <1>13, <1>14, <1>15, <1>16 DEF SerialInv

-----------------------------------------------------------------------------
(* The theorem.                                                            *)

LEMMA SerialInit ==
    ASSUME Init
    PROVE  SerialInv
  <1>1. OrderInv  BY OrderInit
  <1>2. Stream = <<>>
    <2>1. rx = <<>> /\ sending = <<>>  BY DEF Init
    <2> QED  BY <1>1, <2>1, StreamFacts DEF OrderInv, HostTypes, InputTypes
  <1>3. \A j \in 1 .. Len(<<>>) : FALSE  OBVIOUS
  <1>4. StepInv /\ FollowInv /\ PauseInv /\ FreshInv
    BY <1>2, <1>3 DEF StepInv, FollowInv, PauseInv, FreshInv, Settled, Pending, Init
  <1>5. KnownInv  BY DEF KnownInv, InDialogue, Init
  <1> QED  BY <1>1, <1>4, <1>5 DEF SerialInv

LEMMA SerialStutter ==
    ASSUME SerialInv, UNCHANGED vars
    PROVE  SerialInv'
  <1> USE DEF vars, hostVars, answerVars, deviceVars, frameVars, otherVars, dialogueVars
  <1>0. OrderInv /\ StepInv /\ FollowInv /\ PauseInv /\ FreshInv /\ KnownInv  BY DEF SerialInv
  <1>1. OrderInv'  BY <1>0, OrderStep
  <1>2. Stream' = Stream /\ UNCHANGED <<items, awaiting, core1, deviceVars, Last, pause, rx>>
    BY DEF Stream, Last
  <1>3. StepInv'
    <2> SUFFICES ASSUME NEW i, NEW k, Stream # <<>>, i = Stream[1][2], k = Stream[1][3],
                        items[i].fresh
                 PROVE  Stands(i, k)'
      BY <1>2 DEF StepInv
    <2>1. Stands(i, k)  BY <1>0 DEF StepInv
    <2>2. Same(i)  BY <1>2 DEF Same, Awaited
    <2> QED  BY <1>2, <2>1, <2>2, StandsKept
  <1>4. FollowInv'  BY <1>0, <1>2 DEF FollowInv, Follows, Tidy, Awaited
  <1>5. PauseInv'  BY <1>0, <1>2 DEF PauseInv, Settled, Pending
  <1>6. FreshInv'  BY <1>0, <1>2 DEF FreshInv, Taken, Tidy
  <1>7. KnownInv'  BY <1>0 DEF KnownInv, InDialogue, Last
  <1> QED  BY <1>1, <1>3, <1>4, <1>5, <1>6, <1>7 DEF SerialInv

LEMMA SerialStep ==
    ASSUME SerialInv, [Next]_vars
    PROVE  SerialInv'
  BY BeginSerial, SendSerial, BreakOffSerial, SilenceSerial, Core1Serial, SerialStutter
     DEF Next, Host

(* The device finds back into step with the host: an item sent whole after *)
(* a pause takes effect, whatever was broken off or lost before, and so    *)
(* does every one sent after it without a mishap.  Behind a dialogue that  *)
(* the host has abandoned the pause must have been a long one: then it     *)
(* does, although the device still has to notice that the time is up.      *)
THEOREM FreshServed == Safety => []FreshItemsServed
  <1>1. Init => SerialInv  BY SerialInit
  <1>2. SerialInv /\ [Next]_vars => SerialInv'  BY SerialStep
  <1>3. SerialInv => FreshItemsServed
    <2> SUFFICES ASSUME SerialInv, Rest, NEW i \in 1 .. Len(items), items[i].fresh, items[i].whole
                 PROVE  Taken(i)
      BY DEF FreshItemsServed, Taken, Tidy
    <2>1. Stream = <<>>
      BY StreamFacts DEF Rest, SerialInv, OrderInv, HostTypes, InputTypes
    <2>2. \A j \in 1 .. Len(<<>>) : FALSE  OBVIOUS
    <2> QED  BY <2>1, <2>2 DEF SerialInv, FreshInv
  <1> QED  BY <1>1, <1>2, <1>3, PTL DEF Safety

=============================================================================

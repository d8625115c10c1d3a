---------------------------- MODULE HostLibrary -----------------------------
(***************************************************************************)
(* A program on the host that calls FlexDevice.h or FlexDevice.py, and the *)
(* transmitter at the other end of the line.  The library is synchronous:  *)
(* a call writes one frame and takes the first packet it can read for the  *)
(* answer; only the waiting for the end of a transmission compares uuids.  *)
(*                                                                         *)
(* A frame is one element of line or inbox.  The reader drops the text     *)
(* between frames, and what is left of a frame whose beginning it missed   *)
(* decodes to nothing (Codec): it is a packet of kind "BROKEN".            *)
(***************************************************************************)
EXTENDS TransmissionTask, BinaryCommands, FiniteSets

CONSTANTS
    Libs,          \* the libraries a program may use: "c", "py"
    Calls,         \* the functions it calls
    CutFrames,     \* whether it may join the stream in the middle of a frame
    SlowDevice,    \* whether the device may be busy, as it is for five seconds
                   \* after a reset, for longer than the host waits for an answer
    MaxLine        \* bound: commands and packets unread when a call begins

ASSUME HostAssumption ==
    /\ Libs \subseteq {"c", "py"} /\ Libs # {}
    /\ Calls \subseteq {"send_msg", "send_msg_wait", "ping", "get_status"}
    /\ {CutFrames, SlowDevice} \subseteq BOOLEAN
    /\ MaxLine \in Nat \ {0}
    /\ IsFiniteSet(Uuids)

VARIABLES
    port,      \* open or closed
    call,      \* the call in progress
    line,      \* the commands on their way to the device
    inbox,     \* the packets on their way to the program
    result     \* what the call that sent a message returned

libVars == <<port, call, line, inbox, result>>
deviceVars == vars

Sends == Calls \intersect {"send_msg", "send_msg_wait"}
Queries == Calls \ Sends

(* uuid is that of the message, NoMessage for a query.                     *)
Call == [api : Calls, uuid : Uuids \union {NoMessage}, awaits : {"answer", "end"}]
NoCall == [api |-> "none", uuid |-> NoMessage, awaits |-> "nothing"]
Packet(u, kind) == [uuid |-> u, kind |-> kind]
Broken == Packet(NoMessage, "BROKEN")

HostInit ==
    /\ Init
    /\ port = "closed"
    /\ call = NoCall
    /\ line = <<>>
    /\ inbox = <<>>
    /\ result = [u \in Uuids |-> "none"]

-----------------------------------------------------------------------------
(* The program.                                                            *)

(* flex_open: what had arrived is flushed, and a packet that was on its    *)
(* way loses its beginning.                                                *)
Open ==
    /\ port = "closed"
    /\ port' = "open"
    /\ inbox' \in {<<>>} \union (IF CutFrames THEN {<<Broken>>} ELSE {})
    /\ UNCHANGED <<call, line, result, deviceVars>>

Close ==
    /\ port = "open"
    /\ call = NoCall
    /\ port' = "closed"
    /\ inbox' = <<>>
    /\ UNCHANGED <<call, line, result, deviceVars>>

(* Every send draws a fresh uuid.                                          *)
Fresh(u) == fate[u] = "unused" /\ result[u] = "none"

Begin(api, u) ==
    /\ port = "open"
    /\ call = NoCall
    /\ Len(line) + Len(inbox) < MaxLine
    /\ call' = [api |-> api, uuid |-> u, awaits |-> "answer"]
    /\ line' = Append(line, [api |-> api, uuid |-> u])
    /\ UNCHANGED <<port, inbox, deviceVars>>

CallSend(api, u) ==
    /\ Fresh(u)
    /\ Begin(api, u)
    /\ result' = [result EXCEPT ![u] = "calling"]

CallQuery(api) == Begin(api, NoMessage) /\ UNCHANGED result

(* Mutant: the call that has returned still counts as under way.           *)
ReturnLingering(how) ==
    /\ call' = [call EXCEPT !.awaits = "nothing"]
    /\ result' = IF call.uuid = NoMessage THEN result
                 ELSE [result EXCEPT ![call.uuid] = how]

(* The call returns; a query has no result to remember.                    *)
Return(how) ==
    /\ call' = NoCall
    /\ result' = IF call.uuid = NoMessage THEN result
                 ELSE [result EXCEPT ![call.uuid] = how]

(* The packet at the head of the input, when the call awaits what.         *)
Read(what) ==
    /\ call.awaits = what
    /\ inbox # <<>>
    /\ inbox' = Tail(inbox)
    /\ UNCHANGED <<port, line, deviceVars>>

(* Mutant: the answer stays in the input and is read again by the next     *)
(* call.                                                                   *)
SendAnsweredTwice ==
    /\ call.awaits = "answer" /\ inbox # <<>>
    /\ call.api = "send_msg"
    /\ Return(IF Head(inbox).kind = "ACK" THEN "accepted" ELSE "failed")
    /\ UNCHANGED <<port, line, inbox, deviceVars>>

(* The first packet decides: its type and opcode are looked at, not its    *)
(* uuid, and any other packet ends the call with an error.                 *)
SendAnswered ==
    /\ Read("answer")
    /\ call.api = "send_msg"
    /\ Return(IF Head(inbox).kind = "ACK" THEN "accepted" ELSE "failed")

SendWaitAnswered ==
    /\ Read("answer")
    /\ call.api = "send_msg_wait"
    /\ IF Head(inbox).kind = "ACK"
       THEN call' = [call EXCEPT !.awaits = "end"] /\ UNCHANGED result
       ELSE Return("failed")

(* Whatever it is, the call is over.                                       *)
QueryAnswered == Read("answer") /\ call.api \in Queries /\ Return("over")

(* A time-out strikes before a packet or inside it; in the second case the *)
(* bytes that were read are gone.                                          *)
MissPacket ==
    /\ inbox' = IF inbox = <<>> THEN inbox ELSE <<Broken>> \o Tail(inbox)
    /\ UNCHANGED <<port, line, deviceVars>>

AnswerTimesOut ==
    /\ SlowDevice
    /\ call.awaits = "answer"
    /\ MissPacket
    /\ Return("timeout")

(* Mutant: the end of another message is taken for that of this one.       *)
EventSeenOfAny ==
    /\ Read("end")
    /\ CASE Head(inbox).kind = "DONE" -> Return("transmitted")
         [] Head(inbox).kind = "FAILED" -> Return("failed")
         [] OTHER -> UNCHANGED <<call, result>>

(* While it waits for the end of its transmission the program reads every  *)
(* packet and compares the uuids.                                          *)
EventSeen ==
    /\ Read("end")
    /\ CASE Head(inbox) = Packet(call.uuid, "DONE") -> Return("transmitted")
         [] Head(inbox) = Packet(call.uuid, "FAILED") -> Return("failed")
         [] OTHER -> /\ Head(inbox) = Broken => "c" \in Libs
                     /\ UNCHANGED <<call, result>>

(* A broken frame is ignored in C; in Python it is a FlexError, which      *)
(* leaves send_message_wait: only the time-out is caught there.            *)
EventBroken ==
    /\ "py" \in Libs
    /\ Read("end")
    /\ Head(inbox) = Broken
    /\ Return("failed")

(* One second without a whole packet, or the end of the whole wait.        *)
EventTimesOut ==
    /\ call.awaits = "end"
    /\ MissPacket
    /\ Return("timeout") \/ (CutFrames /\ inbox # <<>> /\ UNCHANGED <<call, result>>)

Program ==
    \/ Open
    \/ Close
    \/ \E u \in Uuids, api \in Sends : CallSend(api, u)
    \/ \E api \in Queries : CallQuery(api)
    \/ SendAnswered
    \/ SendWaitAnswered
    \/ QueryAnswered
    \/ AnswerTimesOut
    \/ EventSeen
    \/ EventBroken
    \/ EventTimesOut

-----------------------------------------------------------------------------
(* The transmitter.                                                        *)

(* A closed port loses what the device sends.                              *)
Arrives(packets) == inbox' = IF port = "open" THEN inbox \o packets ELSE <<>>

(* The packet a step of the device has sent about a message.               *)
News ==
    LET about == {u \in Uuids : events'[u] # events[u]} IN
    IF about = {} THEN <<>>
    ELSE LET u == CHOOSE u \in about : TRUE IN
         <<Packet(u, events'[u][Len(events'[u])])>>

(* The device reads a command: frames are served in the order they arrive. *)
ServeSend ==
    /\ line # <<>>
    /\ Head(line).api \in Sends
    /\ \/ \E m \in HostMessage : m.uuid = Head(line).uuid /\ ReceiveSendFlex(m)
       \/ RejectSendFlex(Head(line).uuid)
    /\ line' = Tail(line)
    /\ Arrives(News)
    /\ UNCHANGED <<port, call, result>>

ServeQuery ==
    /\ line # <<>>
    /\ Head(line).api \in Queries
    /\ AnswerCommand
    /\ line' = Tail(line)
    /\ Arrives(<<Packet(NoMessage, "REPLY")>>)
    /\ UNCHANGED <<port, call, result>>

Alert == \E u \in Uuids : Fresh(u) /\ QueueAlert(u)

DeviceGoesOn ==
    /\ \/ Core0 \/ FifoInterrupt \/ Alert
       \/ AddSendFlex \/ RefuseSendFlex \/ SendAck \/ SendQueued
    /\ Arrives(News)
    /\ UNCHANGED <<port, call, line, result>>

HostNext == Program \/ ServeSend \/ ServeQuery \/ DeviceGoesOn

HostSafety == HostInit /\ [][HostNext]_<<vars, libVars>>
=============================================================================

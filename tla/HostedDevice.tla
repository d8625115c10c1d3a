---------------------------- MODULE HostedDevice ----------------------------
(***************************************************************************)
(* What a program that uses the library may believe.                       *)
(***************************************************************************)
EXTENDS HostLibrary

Kinds == {"ACK", "NACK", "QUEUED", "START", "DONE", "FAILED",
          "REPLY", "BROKEN"}

(* Type invariant of the library and of the device behind it.              *)
HostTypeOK ==
    /\ TypeOK
    /\ port \in {"open", "closed"}
    /\ call \in Call \union {NoCall}
    /\ line \in Seq([api : Calls, uuid : Uuids \union {NoMessage}])
    /\ inbox \in Seq([uuid : Uuids \union {NoMessage}, kind : Kinds])
    /\ result \in [Uuids -> {"none", "calling", "accepted", "transmitted",
                             "failed", "timeout"}]

(* flex_send_msg_wait returns 0 only for a message that has gone out,      *)
(* whatever else was in the stream: packets of other messages, answers to  *)
(* calls that had timed out, pieces of frames.                             *)
TransmittedIsTrue ==
    \A u \in Uuids :
        result[u] = "transmitted" =>
            /\ "DONE" \in Packets(u)
            /\ Ends(u, "done")

(* One acknowledgement makes at most one call succeed: a program counts no *)
(* more successes than messages the device has taken.                      *)
AcksCountOnce ==
    Cardinality({u \in Uuids : result[u] \in {"accepted", "transmitted"}})
        <= Cardinality({u \in Uuids : "ACK" \in Packets(u)})

(* FlexDevice.h says of flex_send_msg that it returns "0 on                *)
(* STATUS_ACCEPTED" and -1 "on error / NACK / timeout": a call that failed *)
(* before its time was over has not queued the message.                    *)
FailedIsNotQueued ==
    \A u \in Uuids : result[u] = "failed" => fate[u] \in {"unused", "pending", "refused"}
=============================================================================

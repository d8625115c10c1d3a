------------------------------ MODULE TxService ------------------------------
(***************************************************************************)
(* What the transmitter promises its host about each message it is given:  *)
(* the message is accepted or refused, once; accepted messages are served  *)
(* in the order of acceptance, at most Capacity of them at a time; and     *)
(* each one ends exactly once, as done or as failed.                       *)
(***************************************************************************)
EXTENDS Naturals, Sequences

CONSTANTS
    Uuids,      \* the names of the messages
    Capacity    \* how many accepted messages can be unfinished

VARIABLES
    waiting,    \* the accepted and unfinished messages, oldest first
    fate        \* what became of each message

vars == <<waiting, fate>>

Init ==
    /\ waiting = <<>>
    /\ fate = [u \in Uuids |-> "unused"]

Accept(u) ==
    /\ fate[u] = "unused"
    /\ Len(waiting) < Capacity
    /\ waiting' = Append(waiting, u)
    /\ fate' = [fate EXCEPT ![u] = "accepted"]

Refuse(u) ==
    /\ fate[u] = "unused"
    /\ fate' = [fate EXCEPT ![u] = "refused"]
    /\ UNCHANGED waiting

Finish ==
    /\ waiting # <<>>
    /\ waiting' = Tail(waiting)
    /\ \E outcome \in {"done", "failed"} :
            fate' = [fate EXCEPT ![Head(waiting)] = outcome]

Next ==
    \/ \E u \in Uuids : Accept(u) \/ Refuse(u)
    \/ Finish

Safety == Init /\ [][Next]_vars

(* An accepted message does not wait for ever.                             *)
Spec == Safety /\ WF_vars(Finish)
=============================================================================

------------------------------ MODULE FifoQueue ------------------------------
(***************************************************************************)
(* What the transmission queue promises to its two users.  One side puts   *)
(* accepted messages at the end; the other serves the message at the front *)
(* and removes it only when it is done with it, so a message keeps its     *)
(* place, and counts against the capacity, for as long as it is served.    *)
(***************************************************************************)
EXTENDS Naturals, Sequences

CONSTANTS
    Capacity,   \* the number of messages the queue holds
    Messages,   \* the messages that can be put in it
    NoMessage   \* nobody is being served

VARIABLES
    queue,      \* the accepted messages that are not yet complete, in order
    serving     \* the message in service, or NoMessage

vars == <<queue, serving>>

Init ==
    /\ queue = <<>>
    /\ serving = NoMessage

Put(m) ==
    /\ Len(queue) < Capacity
    /\ queue' = Append(queue, m)
    /\ UNCHANGED serving

Take ==
    /\ serving = NoMessage
    /\ queue # <<>>
    /\ serving' = Head(queue)
    /\ UNCHANGED queue

Complete ==
    /\ serving # NoMessage
    /\ queue' = Tail(queue)
    /\ serving' = NoMessage

Next ==
    \/ \E m \in Messages : Put(m)
    \/ Take
    \/ Complete

Safety == Init /\ [][Next]_vars

(* A message at the front is taken into service and completed.             *)
Spec == Safety /\ WF_vars(Take) /\ WF_vars(Complete)
==============================================================================

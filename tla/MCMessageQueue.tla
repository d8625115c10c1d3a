--------------------------- MODULE MCMessageQueue ---------------------------
(* Two contents and three slots: the ring wraps, fills and drains, with    *)
(* equal and different neighbours.                                         *)
EXTENDS MessageQueue

CONSTANTS m1, m2

MCMessages == {m1, m2}
=============================================================================

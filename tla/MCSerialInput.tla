---------------------------- MODULE MCSerialInput ----------------------------
(* Hosts for SerialInput.                                                  *)
EXTENDS SerialInput

EveryKind == {"line", "msg", "send", "text", "long", "data", "frame", "odd"}
OverlongKinds == {"msg", "long"}
=============================================================================

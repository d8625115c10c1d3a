--------------------------- MODULE MCHostedDevice ---------------------------
(* Programs for HostedDevice.                                              *)
EXTENDS HostedDevice, TLC

CONSTANTS u1, u2, f1

TwoUuids == {u1, u2}
OneFreq == {f1}
Symmetric == Permutations(Uuids)

HostInputs == {"SEND_FLEX", "QUERY", "ALERT"}
SendInputs == {"SEND_FLEX"}
AllCalls == {"send_msg", "send_msg_wait", "get_status"}
SendCalls == {"send_msg"}
BothLibs == {"c", "py"}
NoFaults == {}
TuneFaults == {"tune"}
=============================================================================

------------------------------ MODULE MCDevice ------------------------------
(* Workloads for Device: what the host sends in each run.                  *)
EXTENDS Device, TLC

CONSTANTS u1, u2, u3, f1, f2

TwoUuids == {u1, u2}
ThreeUuids == {u1, u2, u3}
OneFreq == {f1}
TwoFreqs == {f1, f2}

(* Messages and frequencies are only compared, never ordered.              *)
Symmetric == Permutations(Uuids) \union Permutations(Freqs)

BinaryInputs == {"SEND_FLEX", "QUERY", "ALERT"}
MixedInputs == {"SEND_FLEX", "MAILDROP", "MSG", "SEND"}
ServiceInputs ==
    {"SEND_FLEX", "QUERY", "ALERT", "AT", "ABORT", "FREQ", "MSG", "SEND"}
SendInputs == {"SEND_FLEX", "QUERY"}
AtInputs == {"AT", "MSG"}
DropInputs == {"AT", "MSG", "MAILDROP"}
FreqInputs == {"AT", "MSG", "FREQ"}
DataInputs == {"SEND_FLEX", "QUERY", "AT", "SEND"}
AbortInputs == {"SEND_FLEX", "QUERY", "ABORT"}

(* Announced lengths: shorter than a frame, and longer.                    *)
ShortAndLong == {1, 3}
Short == {1}

NoFaults == {}
MessageFaults == {"tune", "encode"}
AllFaults == {"tune", "encode", "start"}
=============================================================================

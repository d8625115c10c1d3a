-------------------------------- MODULE Cobs --------------------------------
(***************************************************************************)
(* Consistent overhead byte stuffing, as the firmware and both host        *)
(* libraries do it: runs of non-zero bytes, each behind the number that    *)
(* says where the next zero would be, and one zero at the end of a frame.  *)
(***************************************************************************)
EXTENDS Naturals, Sequences

CONSTANT MAX_CODE       \* 0xFF in the code: a run of MAX_CODE - 1 bytes has no zero

ASSUME CodeAssumption == MAX_CODE \in 2 .. 255

Byte == 0 .. 255

-----------------------------------------------------------------------------
(* Encoding.  What went out already, and the run that is being collected.  *)

Closed(r) == [out |-> r.out \o (<<Len(r.run) + 1>> \o r.run), run |-> <<>>]

(* Mutant: the zero that ends a run is written too.                        *)
CollectKeepingZeros(r, b) ==
    LET grown == [r EXCEPT !.run = Append(@, b)]
    IN  IF b = 0 \/ Len(grown.run) + 1 = MAX_CODE THEN Closed(grown) ELSE grown

Collect(r, b) ==
    LET grown == [r EXCEPT !.run = Append(@, b)]
    IN  IF b = 0 THEN Closed(r)
        ELSE IF Len(grown.run) + 1 = MAX_CODE THEN Closed(grown)
        ELSE grown

Collected(s) ==
    LET upTo[i \in 0 .. Len(s)] ==
            IF i = 0 THEN [out |-> <<>>, run |-> <<>>] ELSE Collect(upTo[i - 1], s[i])
    IN  upTo

Encode(s) == Closed(Collected(s)[Len(s)]).out \o <<0>>

-----------------------------------------------------------------------------
(* Decoding.                                                               *)

(* Where the run behind code i ends: a code that points past the end of    *)
(* the frame takes what there is.                                          *)
RunEnd(f, i) == IF i + f[i] > Len(f) - 1 THEN Len(f) ELSE i + f[i]

(* Mutant: every run but the last stands for a zero, a full one too.       *)
RunWithZeroAfterFull(f, i) ==
    SubSeq(f, i + 1, RunEnd(f, i) - 1) \o (IF RunEnd(f, i) < Len(f) THEN <<0>> ELSE <<>>)

(* What code i and the run behind it stand for.                            *)
Run(f, i) ==
    SubSeq(f, i + 1, RunEnd(f, i) - 1)
    \o (IF f[i] < MAX_CODE /\ RunEnd(f, i) < Len(f) THEN <<0>> ELSE <<>>)

Decoded(f) ==
    LET from[i \in 1 .. Len(f)] ==
            IF i = Len(f) THEN <<>> ELSE Run(f, i) \o from[RunEnd(f, i)]
    IN  from

(* A frame without a zero at its end, or with one in the place of a code,  *)
(* decodes to nothing.  No other zero stands before the end: the readers   *)
(* cut a frame at its first.                                               *)
Decode(f) ==
    IF f = <<>> \/ f[Len(f)] # 0 \/ \E i \in 1 .. Len(f) - 1 : f[i] = 0 THEN <<>>
    ELSE Decoded(f)[1]
=============================================================================

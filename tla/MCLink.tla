------------------------------- MODULE MCLink -------------------------------
(* Packets of 27 bytes with all fields, runs of at most four bytes without *)
(* a zero, texts on both sides of both limits, uuids with zeros, and one   *)
(* whose first zero makes a code that is text (4 for carriage return).     *)
EXTENDS Link

MCUuids == {<<7, 8, 9>>, <<7, 0, 9>>, <<0, 8, 200>>}
MCTexts == {<<>>, <<65, 66, 65, 66>>, <<65, 66, 65, 66, 65, 66>>}
MCNoise == {0, 1, 4, 255}
MCAscii == {4, 10, 65, 66}
MCLogLines == {<<>>, <<65, 66, 4, 10>>}
=============================================================================

------------------------------- MODULE Crc16 -------------------------------
(***************************************************************************)
(* CRC-16-CCITT with the polynomial 0x1021 and the initial value 0xFFFF,   *)
(* over bytes, by the table that the firmware and both libraries contain.  *)
(***************************************************************************)
EXTENDS Naturals, Sequences

Word == 0 .. 65535

(* Exclusive or, of hexadecimal digits and of words.                       *)
digit_xor ==
    [a \in 0 .. 15 |-> [b \in 0 .. 15 |->
        LET differ(k) == ((a \div k) + (b \div k)) % 2
        IN  differ(1) + 2 * differ(2) + 4 * differ(4) + 8 * differ(8)]]

Xor(v, w) ==
    LET at(k) == digit_xor[(v \div k) % 16][(w \div k) % 16]
    IN  at(1) + 16 * at(16) + 256 * at(256) + 4096 * at(4096)

(* The table is the remainder of each byte, bit by bit.                    *)
Shifted(crc) ==
    LET twice == (crc * 2) % 65536
    IN  IF crc >= 32768 THEN Xor(twice, 4129) ELSE twice

crc16_table ==
    [byte \in 0 .. 255 |->
        Shifted(Shifted(Shifted(Shifted(Shifted(Shifted(Shifted(Shifted(byte * 256))))))))]

Updated(crc, byte) ==
    Xor((crc * 256) % 65536, crc16_table[Xor(crc \div 256, byte)])

Checksums(data) ==
    LET upTo[i \in 0 .. Len(data)] ==
            IF i = 0 THEN 65535 ELSE Updated(upTo[i - 1], data[i])
    IN  upTo

crc16_ccitt(data) == Checksums(data)[Len(data)]
=============================================================================

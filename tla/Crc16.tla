-------------------------------- MODULE Crc16 --------------------------------
(***************************************************************************)
(* The checksums: ScudBmsProtocol::crc16_ccitt() (scud_bms_driver.cpp) and *)
(* the table-driven calculate_crc() of the TWS and GF485 protocols, each   *)
(* with the reference it is checked against, a division of polynomials     *)
(* over GF(2).                                                             *)
(*                                                                         *)
(* A word is the set of its bits that are 1; a polynomial is the set of    *)
(* its exponents.                                                          *)
(***************************************************************************)
EXTENDS Integers
LOCAL INSTANCE FiniteSetsExt

Uint8  == SUBSET (0 .. 7)
Uint16 == SUBSET (0 .. 15)

\* ^, and << and >> truncated to a uint16_t.
Xor(v, w)        == (v \ w) \cup (w \ v)
ShiftLeft(w, n)  == {i \in 0 .. 15 : i - n \in w}
ShiftRight(w, n) == {i \in 0 .. 15 : i + n \in w}
LowByte(w)       == w \cap 0 .. 7

\* Mutant: the last exclusive or takes the whole word, not its low byte.
Crc16StepWide(w, byte) ==
    LET w1 == ShiftRight(w, 8) \cup ShiftLeft(w, 8)
        w2 == Xor(w1, byte)
        w3 == Xor(w2, ShiftRight(LowByte(w2), 4))
        w4 == Xor(w3, ShiftLeft(w3, 12))
    IN  Xor(w4, ShiftLeft(w4, 5))

\* One turn of the loop: swap the bytes, then four exclusive ors.
Crc16Step(w, byte) ==
    LET w1 == ShiftRight(w, 8) \cup ShiftLeft(w, 8)
        w2 == Xor(w1, byte)
        w3 == Xor(w2, ShiftRight(LowByte(w2), 4))
        w4 == Xor(w3, ShiftLeft(w3, 12))
    IN  Xor(w4, ShiftLeft(LowByte(w4), 5))

\* The reference: eight times, the bit that leaves the register on the left
\* subtracts x^16 + x^12 + x^5 + 1.
Divide(w) ==
    IF 15 \in w THEN Xor(ShiftLeft(w, 1), {0, 5, 12}) ELSE ShiftLeft(w, 1)

DivideByte(w) ==
    LET two(v)  == Divide(Divide(v))
        four(v) == two(two(v))
    IN  four(four(w))

\* Bytes come in most significant bit first.
Remainder(w, byte) == DivideByte(Xor(w, ShiftLeft(byte, 8)))

-----------------------------------------------------------------------------
(* calculate_crc() of the TWS and GF485 protocols, and its reference.       *)

\* The table has two rows of sixteen, which alternate in this order.
HiRows == << <<0, 193, 129, 64, 1, 192, 128, 65, 1, 192, 128, 65, 0, 193, 129, 64>>,
             <<1, 192, 128, 65, 0, 193, 129, 64, 0, 193, 129, 64, 1, 192, 128, 65>> >>
aucCRCHi == LET row == <<1, 2, 2, 1, 2, 1, 1, 2, 2, 1, 1, 2, 1, 2, 2, 1>>
            IN  [i \in 0 .. 255 |-> HiRows[row[(i \div 16) + 1]][(i % 16) + 1]]

aucCRCLo ==
    LET entries == <<
      0, 192, 193, 1, 195, 3, 2, 194, 198, 6, 7, 199, 5, 197, 196, 4,
      204, 12, 13, 205, 15, 207, 206, 14, 10, 202, 203, 11, 201, 9, 8, 200,
      216, 24, 25, 217, 27, 219, 218, 26, 30, 222, 223, 31, 221, 29, 28, 220,
      20, 212, 213, 21, 215, 23, 22, 214, 210, 18, 19, 211, 17, 209, 208, 16,
      240, 48, 49, 241, 51, 243, 242, 50, 54, 246, 247, 55, 245, 53, 52, 244,
      60, 252, 253, 61, 255, 63, 62, 254, 250, 58, 59, 251, 57, 249, 248, 56,
      40, 232, 233, 41, 235, 43, 42, 234, 238, 46, 47, 239, 45, 237, 236, 44,
      228, 36, 37, 229, 39, 231, 230, 38, 34, 226, 227, 35, 225, 33, 32, 224,
      160, 96, 97, 161, 99, 163, 162, 98, 102, 166, 167, 103, 165, 101, 100, 164,
      108, 172, 173, 109, 175, 111, 110, 174, 170, 106, 107, 171, 105, 169, 168, 104,
      120, 184, 185, 121, 187, 123, 122, 186, 190, 126, 127, 191, 125, 189, 188, 124,
      180, 116, 117, 181, 119, 183, 182, 118, 114, 178, 179, 115, 177, 113, 112, 176,
      80, 144, 145, 81, 147, 83, 82, 146, 150, 86, 87, 151, 85, 149, 148, 84,
      156, 92, 93, 157, 95, 159, 158, 94, 90, 154, 155, 91, 153, 89, 88, 152,
      136, 72, 73, 137, 75, 139, 138, 74, 78, 142, 143, 79, 141, 77, 76, 140,
      68, 132, 133, 69, 135, 71, 70, 134, 130, 66, 67, 131, 65, 129, 128, 64>>
    IN  [i \in 0 .. 255 |-> entries[i + 1]]

\* The bits of a byte, and the byte.
Bits(n)   == {i \in 0 .. 7 : (n \div 2^i) % 2 = 1}
Number(w) == MapThenSumSet(LAMBDA i : 2^i, w)

\* Mutant: the index is taken from the other half.
ModbusStepSwapped(w, byte) ==
    LET index == Number(Xor(w.hi, byte))
    IN  [lo |-> Xor(w.hi, Bits(aucCRCHi[index])), hi |-> Bits(aucCRCLo[index])]

\* One turn of the loop.  The halves keep their names, though ucCRCHi is the
\* one that goes on the wire last.
ModbusStep(w, byte) ==
    LET index == Number(Xor(w.lo, byte))
    IN  [lo |-> Xor(w.hi, Bits(aucCRCHi[index])), hi |-> Bits(aucCRCLo[index])]

ModbusStart == [hi |-> 0 .. 7, lo |-> 0 .. 7]
ModbusCrc(w) == ShiftLeft(w.hi, 8) \cup w.lo

\* The reference: eight times, the bit that leaves the register on the right
\* subtracts x^16 + x^15 + x^2 + 1, whose exponents count from the left.
Reflected(w) ==
    IF 0 \in w THEN Xor(ShiftRight(w, 1), {0, 13, 15}) ELSE ShiftRight(w, 1)

ReflectedByte(w) ==
    LET two(v)  == Reflected(Reflected(v))
        four(v) == two(two(v))
    IN  four(four(w))

\* Bytes come in least significant bit first.
ReflectedRemainder(w, byte) == ReflectedByte(Xor(w, byte))
=============================================================================

----------------------------- MODULE Crc16Check -----------------------------
(***************************************************************************)
(* Checksums in progress: a message arrives byte by byte.  crc16_ccitt()   *)
(* and calculate_crc() take each in one turn of their loops; beside them,  *)
(* the references divide by it bit by bit.                                 *)
(***************************************************************************)
EXTENDS Crc16

CONSTANTS
    Bytes,   \* the bytes messages go on with; they start with any
    MaxLen   \* bound on their length

ASSUME CrcAssumption == Bytes \subseteq Uint8 /\ MaxLen \in Nat

VARIABLES
    length,     \* bytes taken so far
    crc,        \* crc16_ccitt()
    remainder,  \* history: what the division leaves
    modbus,     \* calculate_crc()
    reflected   \* history: what the reflected division leaves

\* The tables hold, for each index, what the division leaves of it: 256 entries,
\* all of which the model checker computes.
ASSUME TablesAssumption ==
    \A index \in Uint8 :
        ReflectedByte(index) =
            ModbusCrc([lo |-> Bits(aucCRCHi[Number(index)]),
                       hi |-> Bits(aucCRCLo[Number(index)])])

sums == <<length, crc, remainder, modbus, reflected>>

-----------------------------------------------------------------------------
SumInit ==
    /\ length = 0
    /\ crc = {} /\ remainder = {}
    /\ modbus = ModbusStart /\ reflected = 0 .. 15

Extend(byte) ==
    /\ length < MaxLen /\ length' = length + 1
    /\ crc' = Crc16Step(crc, byte)
    /\ remainder' = Remainder(remainder, byte)
    /\ modbus' = ModbusStep(modbus, byte)
    /\ reflected' = ReflectedRemainder(reflected, byte)

\* The first byte of a message meets every entry of the tables.
SumNext ==
    \/ length = 0 /\ \E byte \in Uint8 : Extend(byte)
    \/ length > 0 /\ \E byte \in Bytes : Extend(byte)

SumSpec == SumInit /\ [][SumNext]_sums

-----------------------------------------------------------------------------
\* The comment at crc16_ccitt(): it is CRC-16/XMODEM, the remainder modulo
\* 0x1021 from an initial 0.
IsXmodem == crc = remainder

\* The tables of calculate_crc() and the loop that reads them compute the Modbus
\* checksum, the reflected remainder modulo 0x8005 from an initial 0xFFFF.
IsModbus == ModbusCrc(modbus) = reflected
=============================================================================

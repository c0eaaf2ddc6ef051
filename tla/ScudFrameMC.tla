---------------------------- MODULE ScudFrameMC ----------------------------
(***************************************************************************)
(* Lines for ScudFrame: up to two pieces of what a shared half-duplex bus  *)
(* carries, with or without the target frame behind them.                  *)
(***************************************************************************)
EXTENDS ScudFrame, Crc16
LOCAL INSTANCE SequencesExt

\* crc16_ccitt() of a sequence of numbers, as a number.
Crc16Ccitt(bytes) ==
    LET crc == FoldLeft(LAMBDA w, byte : Crc16Step(w, Bits(byte)), {}, bytes)
    IN  Number(ShiftRight(crc, 8)) * 256 + Number(LowByte(crc))

Target   == Frame(ExpectCmd, <<\hFE, 5>>)
Echo     == Frame(ExpectCmd, <<1>>)
Foreign  == Frame(\h31, <<\hFE, ExpectCmd, 3>>)

\* Target with byte k replaced, without its bytes from k to l, and cut behind k.
Flipped(k, byte) == [Target EXCEPT ![k] = byte]
Without(k, l)    == SubSeq(Target, 1, k - 1)
                    \o SubSeq(Target, l + 1, Len(Target))
Cut(k)           == SubSeq(Target, 1, k)

\* Echo, foreign frames, stray bytes, odd runs of FE, frames with a damaged
\* length, payload, CRC or tail, and frames that lost one byte or their end.
Noise ==
    { <<>>, <<0>>, <<\hFE>>, <<\hFE, \hFE, \hFE>>, <<ExpectCmd>>,
      Echo, Foreign, Flipped(4, 9), Flipped(4, \hFE), Flipped(6, 6),
      Flipped(7, 0), Flipped(9, \hFE), Flipped(9, 0), Without(6, 6),
      Without(9, 9), Cut(4), Cut(6) }

NoisyLines == { a \o b \o t : a \in Noise, b \in Noise, t \in {<<>>, Target} }
=============================================================================

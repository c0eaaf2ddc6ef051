------------------------------ MODULE ScudFrame ------------------------------
(***************************************************************************)
(* ScudBmsProtocol::read_frame() (scud_bms_driver.cpp): the byte-wise scan *)
(* for one response frame                                                  *)
(*                                                                         *)
(*     FE FE | command | length | payload | CRC (2) | BB                   *)
(*                                                                         *)
(* One action per stage of the switch; each takes one byte off the line.   *)
(* The line is a finite sequence of bytes; once it is exhausted nothing    *)
(* more arrives, and the deadline ends the query.                          *)
(*                                                                         *)
(* The checksum is a parameter: crc16_ccitt() is modelled in Crc16.        *)
(***************************************************************************)
EXTENDS Integers, Sequences

CONSTANTS
    Lines,      \* what may arrive in one query: sequences of bytes
    ExpectCmd,  \* expect_cmd
    ExpectLen,  \* expect_len
    Checksum(_) \* crc16_ccitt()

ASSUME FrameAssumption ==
    /\ ExpectCmd \in 0 .. 253 /\ ExpectLen \in 1 .. 253
    /\ Lines \subseteq Seq(0 .. 255)

\* crc16_ccitt() returns two bytes, whatever stands in place of a payload.
ASSUME ChecksumAssumption ==
    \A l \in Lines : \A i \in 1 .. Len(l) - ExpectLen + 1 :
        LET sum == Checksum(<<ExpectCmd, ExpectLen>>
                            \o SubSeq(l, i, i - 1 + ExpectLen))
        IN  sum \in Nat /\ sum \div 256 < 256

VARIABLES
    line,    \* the bytes that arrive in this query
    taken,   \* how many of them read_raw() has returned
    stage,   \* the stage of the scan, then how it ended
    body,    \* the payload collected so far
    recv,    \* crc_hi and crc_lo
    data     \* the payload handed to the caller

scan == <<line, taken, stage, body, recv, data>>

FRAME_HEAD == \hFE
FRAME_TAIL == \hBB

Stages == {"kHead1", "kHead2", "kCmd", "kLen", "kPayload", "kCrcHi", "kCrcLo",
           "kTail", "accepted", "timeout"}

\* Every call starts from scratch: read_frame() keeps nothing between calls.
Start ==
    /\ line' \in Lines /\ taken' = 0
    /\ stage' = "kHead1" /\ body' = <<>> /\ recv' = 0
    /\ data' = <<>>

ScanInit ==
    /\ line \in Lines /\ taken = 0
    /\ stage = "kHead1" /\ body = <<>> /\ recv = 0
    /\ data = <<>>

-----------------------------------------------------------------------------
\* The byte read_raw() returns in stage s.
Byte == line[taken + 1]
In(s) ==
    /\ stage = s
    /\ taken < Len(line) /\ taken' = taken + 1
    /\ UNCHANGED line

\* Where the scan resumes after a frame is dropped: at this very byte.
Resync == IF Byte = FRAME_HEAD THEN "kHead2" ELSE "kHead1"

Head1 ==
    /\ In("kHead1")
    /\ stage' = Resync
    /\ UNCHANGED <<body, recv, data>>

Head2 ==
    /\ In("kHead2")
    /\ IF Byte = FRAME_HEAD THEN stage' = "kCmd" /\ body' = <<>>
                            ELSE stage' = "kHead1" /\ body' = body
    /\ UNCHANGED <<recv, data>>

\* Mutant: an FE in place of the command falls back to the second head byte.
CmdFallsBack ==
    /\ In("kCmd")
    /\ stage' = IF Byte = ExpectCmd THEN "kLen"
                ELSE IF Byte = FRAME_HEAD THEN "kHead2" ELSE "kHead1"
    /\ UNCHANGED <<body, recv, data>>

\* Another FE may be the second head byte of a later frame.
Cmd ==
    /\ In("kCmd")
    /\ stage' = IF Byte = ExpectCmd THEN "kLen"
                ELSE IF Byte = FRAME_HEAD THEN "kCmd" ELSE "kHead1"
    /\ UNCHANGED <<body, recv, data>>

LenByte ==
    /\ In("kLen")
    /\ IF Byte = ExpectLen THEN stage' = "kPayload" /\ body' = <<>>
                           ELSE stage' = Resync /\ body' = body
    /\ UNCHANGED <<recv, data>>

Payload ==
    /\ In("kPayload")
    /\ body' = Append(body, Byte)
    /\ stage' = IF Len(body') = ExpectLen THEN "kCrcHi" ELSE "kPayload"
    /\ UNCHANGED <<recv, data>>

CrcHi ==
    /\ In("kCrcHi")
    /\ recv' = Byte * 256
    /\ stage' = "kCrcLo"
    /\ UNCHANGED <<body, data>>

CrcLo ==
    /\ In("kCrcLo")
    /\ recv' = recv + Byte
    /\ stage' = "kTail"
    /\ UNCHANGED <<body, data>>

\* Mutant: the CRC is not compared.
TailByteUnchecked ==
    /\ In("kTail")
    /\ IF Byte = FRAME_TAIL
       THEN stage' = "accepted" /\ data' = body
       ELSE stage' = Resync /\ data' = data
    /\ UNCHANGED <<body, recv>>

TailByte ==
    /\ In("kTail")
    /\ IF /\ Byte = FRAME_TAIL
          /\ Checksum(<<ExpectCmd, ExpectLen>> \o body) = recv
       THEN stage' = "accepted" /\ data' = body
       ELSE stage' = Resync /\ data' = data
    /\ UNCHANGED <<body, recv>>

Deadline ==
    /\ stage \notin {"accepted", "timeout"} /\ taken = Len(line)
    /\ stage' = "timeout"
    /\ UNCHANGED <<line, taken, body, recv, data>>

NextCall == stage \in {"accepted", "timeout"} /\ Start

ScanNext ==
    \/ Head1 \/ Head2 \/ Cmd \/ LenByte \/ Payload \/ CrcHi \/ CrcLo \/ TailByte
    \/ Deadline \/ NextCall

ScanSpec == ScanInit /\ [][ScanNext]_scan

-----------------------------------------------------------------------------
(* Properties.                                                             *)

\* The frame the pack sends, by the protocol and not by the parser.
Frame(cmd, payload) ==
    LET covered == <<cmd, Len(payload)>> \o payload
        check   == Checksum(covered)
    IN  <<FRAME_HEAD, FRAME_HEAD>> \o covered
        \o <<check \div 256, check % 256, FRAME_TAIL>>

FrameLen == ExpectLen + 7

\* The bytes from k on are a frame the query asks for.
TargetAt(k) ==
    /\ line[k + 2] = ExpectCmd /\ line[k + 3] = ExpectLen
    /\ SubSeq(line, k, k + FrameLen - 1)
          = Frame(ExpectCmd, SubSeq(line, k + 4, k + 3 + ExpectLen))

\* Whatever was dropped before, what is accepted stands on the line as one
\* whole frame, and its payload is what the caller gets.
AcceptedIsAFrame ==
    stage = "accepted" =>
        /\ taken >= FrameLen
        /\ TargetAt(taken - FrameLen + 1)
        /\ data = SubSeq(line, taken - 2 - ExpectLen, taken - 3)

\* A header of such a frame from j on, and k in what it takes for its payload
\* and its checksum.
Covers(j, k) ==
    /\ line[j] = FRAME_HEAD /\ line[j + 1] = FRAME_HEAD
    /\ line[j + 2] = ExpectCmd /\ line[j + 3] = ExpectLen
    /\ k \in j + 4 .. j + ExpectLen + 5

\* "Non-target frames are dropped in place and the byte-wise scan continues
\* until the target frame arrives or the deadline expires": every target frame
\* that has come by is accepted, unless it begins inside what an earlier header
\* of the same command and length takes for its own frame.
OnlyCoveredIsMissed ==
    \A k \in 1 .. taken - FrameLen + 1 :
        TargetAt(k) =>
            \/ stage = "accepted" /\ k = taken - FrameLen + 1
            \/ \E j \in 1 .. k - 4 : Covers(j, k)
=============================================================================

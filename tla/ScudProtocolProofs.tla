------------------------- MODULE ScudProtocolProofs -------------------------
(***************************************************************************)
(* ScudBmsProtocol.  First, the order of SCUD485 records for any number of *)
(* queries and any number of unanswered ones.  The pack answers in order,  *)
(* so the replies on their way are in the order of their queries; what has *)
(* to be shown is that they are all ahead of everything taken so far,      *)
(* wherever it is kept.  Second, that read_frame() accepts whole frames    *)
(* only, whatever is on the line, and which ones it can miss.  Third, that *)
(* crc16_ccitt(), and with it calculate_crc() of the TWS and GF485         *)
(* protocols, agrees with the division it stands for after any message.    *)
(***************************************************************************)
EXTENDS ScudBus, ScudFrame, Crc16Check, SequenceTheorems, TLAPS

Reads == {"read61", "read31"}
Steps == {"idle", "write61", "backfill", "write31", "return", "failed"} \cup Reads

TypeInv ==
    /\ pc \in Steps /\ version \in BOOLEAN /\ calm \in BOOLEAN
    /\ asked \in Seq(Frames) /\ rx \in Seq(Frames)
    /\ q \in Nat /\ first \in Nat /\ base \in Nat /\ cells \in Nat
    /\ record \in [base : Nat, cells : Nat]

InOrder(s) == \A i, j \in 1 .. Len(s) : i < j => s[i].q < s[j].q

\* A reply numbered n is of a query already written, and newer than everything
\* taken so far.
Ahead(n) == n \in 1 .. q /\ n > base /\ n > cells /\ n > record.base

LineInv ==
    /\ InOrder(rx) /\ InOrder(asked)
    /\ \A i \in 1 .. Len(rx), j \in 1 .. Len(asked) : rx[i].q < asked[j].q
    /\ \A i \in 1 .. Len(rx) : Ahead(rx[i].q)
    /\ \A i \in 1 .. Len(asked) : Ahead(asked[i].q)
    /\ base <= q /\ cells <= q /\ record.base <= q

\* What a transaction has filled at each of its steps, and what it may still
\* take in a round that began calm.
RoundInv ==
    /\ pc \in {"write61", "read61"} => base = 0 /\ cells = 0
    /\ pc \in {"backfill", "write31", "read31"} => base # 0 /\ cells = 0
    /\ pc = "return" => base # 0
    /\ pc # "idle" /\ base # 0 => base > record.base
    /\ pc = "read61" /\ calm =>
           /\ \A i \in 1 .. Len(rx) : rx[i].q = first
           /\ \A i \in 1 .. Len(asked) : asked[i].q = first

\* What a calm round has taken is its own reply.
TakesItsOwn == base # 0 /\ calm => base = first

IInv == TypeInv /\ LineInv /\ RoundInv /\ CellsFollowBase /\ TakesItsOwn

-----------------------------------------------------------------------------
(* Replies are taken from the front of the line and put at its end.        *)

\* A frame in a line of frames.
LEMMA FrameTyped ==
  ASSUME NEW s \in Seq(Frames), NEW i \in 1 .. Len(s)
  PROVE  s[i] \in Frames /\ s[i].q \in Nat
<1>1. s[i] \in Frames
    OBVIOUS
<1> QED
    BY <1>1 DEF Frames

\* What taking a frame leaves.
LEMMA TakeFrame ==
  ASSUME NEW s \in Seq(Frames), s # <<>>
  PROVE  /\ Len(s) \in Nat \ {0} /\ Head(s) = s[1] /\ 1 \in 1 .. Len(s)
         /\ Head(s) \in Frames /\ Head(s).q \in Nat
         /\ Tail(s) \in Seq(Frames)
         /\ \A i \in 1 .. Len(Tail(s)) : i + 1 \in 2 .. Len(s) /\ Tail(s)[i] = s[i + 1]
<1>1. Head(s) \in Frames
    OBVIOUS
<1> QED
    BY <1>1 DEF Frames

\* What putting one behind the others makes.
LEMMA PutFrame ==
  ASSUME NEW s \in Seq(Frames), NEW f \in Frames
  PROVE  /\ Append(s, f) \in Seq(Frames) /\ Len(s) \in Nat
         /\ \A i \in 1 .. Len(Append(s, f)) :
                \/ i \in 1 .. Len(s) /\ Append(s, f)[i] = s[i]
                \/ i = Len(s) + 1 /\ Append(s, f)[i] = f
  OBVIOUS

\* One that is behind all the others may follow them.
LEMMA OneMoreInOrder ==
  ASSUME NEW s \in Seq(Frames), NEW t \in Seq(Frames), NEW f \in Frames,
         InOrder(s), \A i \in 1 .. Len(s) : s[i].q < f.q,
         \A i \in 1 .. Len(t) :
             \/ i \in 1 .. Len(s) /\ t[i] = s[i]
             \/ i = Len(s) + 1 /\ t[i] = f
  PROVE  InOrder(t)
<1> SUFFICES ASSUME NEW i \in 1 .. Len(t), NEW j \in 1 .. Len(t), i < j
             PROVE  t[i].q < t[j].q
    BY DEF InOrder
<1>1. i # Len(s) + 1
    OBVIOUS
<1>2. i \in 1 .. Len(s) /\ t[i] = s[i]
    BY <1>1
<1>3. CASE j \in 1 .. Len(s) /\ t[j] = s[j]
  <2>1. s[i].q < s[j].q
      BY <1>2, <1>3 DEF InOrder
  <2> QED
      BY <2>1, <1>2, <1>3
<1>4. CASE j = Len(s) + 1 /\ t[j] = f
    BY <1>2, <1>4
<1> QED
    BY <1>3, <1>4

\* What is left when the first is gone is in order and behind it.
LEMMA TailInOrder ==
  ASSUME NEW s \in Seq(Frames), s # <<>>, InOrder(s)
  PROVE  /\ InOrder(Tail(s))
         /\ \A i \in 1 .. Len(Tail(s)) :
                /\ \E k \in 1 .. Len(s) : Tail(s)[i] = s[k]
                /\ Tail(s)[i].q > Head(s).q
<1>1. /\ Len(s) \in Nat \ {0} /\ Head(s) = s[1] /\ 1 \in 1 .. Len(s)
      /\ \A i \in 1 .. Len(Tail(s)) : i + 1 \in 2 .. Len(s) /\ Tail(s)[i] = s[i + 1]
    BY TakeFrame
<1>2. \A i \in 1 .. Len(Tail(s)) : i + 1 \in 1 .. Len(s) /\ 1 < i + 1
    BY <1>1
<1>3. \A i, j \in 1 .. Len(Tail(s)) : i < j => i + 1 < j + 1
    OBVIOUS
<1>4. InOrder(Tail(s))
    BY <1>1, <1>2, <1>3 DEF InOrder
<1>5. \A i \in 1 .. Len(s) : s[i].q \in Nat
    BY FrameTyped
<1>6. \A i \in 1 .. Len(Tail(s)) : s[1].q < s[i + 1].q
    BY <1>1, <1>2 DEF InOrder
<1> QED
    BY <1>1, <1>2, <1>4, <1>5, <1>6

-----------------------------------------------------------------------------
(* The steps of a transaction.                                             *)

\* The daemon starts on a quiet line.
LEMMA Initially == Init => IInv
<1> SUFFICES ASSUME Init PROVE IInv
    OBVIOUS
<1>1. TypeInv
    BY DEF Init, TypeInv, Steps, Reads, NoRecord
<1>2. LineInv
    BY DEF Init, LineInv, InOrder, NoRecord
<1> QED
    BY <1>1, <1>2 DEF Init, IInv, RoundInv, CellsFollowBase, TakesItsOwn

\* A restarted daemon begins with an empty record and a quiet line.
LEMMA RestartKeeps == IInv /\ Restart => IInv'
<1> SUFFICES ASSUME IInv, Restart PROVE IInv'
    OBVIOUS
<1>1. TypeInv'
    BY DEF Restart, TypeInv, Steps, Reads, NoRecord
<1>2. LineInv'
    BY DEF Restart, LineInv, InOrder, NoRecord
<1> QED
    BY <1>1, <1>2 DEF Restart, IInv, RoundInv, CellsFollowBase, TakesItsOwn

\* A flush empties the buffer; what is asked for stays ahead.
LEMMA FlushKeeps == IInv /\ (Begin \/ BeginBackfill) => IInv'
<1> SUFFICES ASSUME IInv, Begin \/ BeginBackfill PROVE IInv'
    OBVIOUS
<1>1. /\ rx' = <<>> /\ UNCHANGED <<version, asked, q, record, first, calm>>
      /\ \/ pc' = "write61" /\ base' = 0 /\ cells' = 0
         \/ pc = "backfill" /\ pc' = "write31" /\ base' = base /\ cells' = cells
    BY DEF Begin, BeginBackfill, Flush
<1>2. TypeInv'
    BY <1>1 DEF IInv, TypeInv, Steps, Reads
<1>3. \A n : Ahead(n) => Ahead(n)'
    BY <1>1 DEF Ahead, IInv, TypeInv
<1>4. LineInv'
    BY <1>1, <1>3 DEF IInv, TypeInv, LineInv, InOrder, Ahead
<1>5. RoundInv' /\ CellsFollowBase' /\ TakesItsOwn'
    BY <1>1 DEF IInv, RoundInv, CellsFollowBase, TakesItsOwn
<1> QED
    BY <1>2, <1>4, <1>5 DEF IInv

\* The new query is ahead of everything, and in a calm round it is all there is.
LEMMA WriteKeeps == IInv /\ (WriteUserInfo \/ WriteSummary) => IInv'
<1> SUFFICES ASSUME IInv, WriteUserInfo \/ WriteSummary PROVE IInv'
    OBVIOUS
<1>1. PICK cmd \in {CMD_USER_INFO, CMD_BATTERY_SUMMARY} :
          asked' = Append(asked, [cmd |-> cmd, q |-> q + 1])
    BY DEF WriteUserInfo, WriteSummary, Write
<1> DEFINE f == [cmd |-> cmd, q |-> q + 1]
<1>2. /\ q' = q + 1 /\ UNCHANGED <<version, rx, base, cells, record>>
      /\ \/ /\ pc = "write61" /\ pc' = "read61" /\ first' = q + 1
            /\ calm' = (asked = <<>> /\ rx = <<>>)
         \/ pc = "write31" /\ pc' = "read31" /\ first' = first /\ calm' = calm
    BY DEF WriteUserInfo, WriteSummary, Write
<1>3. /\ q \in Nat /\ asked \in Seq(Frames) /\ rx \in Seq(Frames) /\ f \in Frames
      /\ f.q = q + 1
    BY DEF IInv, TypeInv, Frames
<1> HIDE DEF f
<1>4. /\ asked' \in Seq(Frames) /\ Len(asked) \in Nat
      /\ \A i \in 1 .. Len(asked') :
            \/ i \in 1 .. Len(asked) /\ asked'[i] = asked[i]
            \/ i = Len(asked) + 1 /\ asked'[i] = f
  <2>1. asked' = Append(asked, f)
      BY <1>1 DEF f
  <2> QED
      BY <2>1, <1>3, PutFrame
<1>5. TypeInv'
  <2>1. calm' \in BOOLEAN
      BY <1>2 DEF IInv, TypeInv
  <2>2. first' \in Nat /\ pc' \in Steps
      BY <1>2, <1>3 DEF IInv, TypeInv, Steps, Reads
  <2> QED
      BY <2>1, <2>2, <1>2, <1>3, <1>4 DEF IInv, TypeInv
<1>6. \A n : Ahead(n) => Ahead(n)' /\ n < q + 1
    BY <1>2, <1>3 DEF Ahead
<1>7. \A n : n = q + 1 => Ahead(n)'
    BY <1>2, <1>3 DEF Ahead, IInv, TypeInv, LineInv
<1>8. LineInv'
  <2>1. \A i \in 1 .. Len(asked') : Ahead(asked[i].q)'
      BY <1>3, <1>4, <1>6, <1>7 DEF IInv, LineInv, Ahead
  <2>2. \A i \in 1 .. Len(rx') : Ahead(rx[i].q)'
      BY <1>2, <1>6 DEF IInv, LineInv, Ahead
  <2>3. InOrder(asked)'
    <3>1. InOrder(asked) /\ \A i \in 1 .. Len(asked) : asked[i].q < f.q
        BY <1>3, <1>6 DEF IInv, LineInv
    <3>2. InOrder(asked')
        BY <3>1, <1>3, <1>4, OneMoreInOrder
    <3> QED
        BY <3>2 DEF InOrder
  <2>4. \A i \in 1 .. Len(rx'), j \in 1 .. Len(asked') : rx'[i].q < asked'[j].q
      BY <1>2, <1>3, <1>4, <1>6 DEF IInv, LineInv
  <2> QED
    <3>1. base' <= q' /\ cells' <= q' /\ record'.base <= q' /\ InOrder(rx')
        BY <1>2, <1>3 DEF IInv, TypeInv, LineInv
    <3> QED
        BY <2>1, <2>2, <2>3, <2>4, <3>1 DEF LineInv, InOrder
<1>9. RoundInv'
  <2>1. pc' = "read61" /\ calm' =>
           /\ \A i \in 1 .. Len(rx') : rx'[i].q = first'
           /\ \A i \in 1 .. Len(asked') : asked'[i].q = first'
    <3>1. CASE pc' = "read61" /\ calm'
      <4>1. pc = "write61" \/ pc = "write31"
          BY <1>2
      <4>2. asked = <<>> /\ rx = <<>> /\ first' = q + 1
          BY <1>2, <3>1, <4>1
      <4>3. Len(asked) = 0 /\ Len(rx') = 0
          BY <4>2, <1>2
      <4> QED
          BY <4>2, <4>3, <1>3, <1>4
    <3> QED
        BY <3>1
  <2> QED
      BY <2>1, <1>2 DEF IInv, RoundInv
<1>10. CellsFollowBase' /\ TakesItsOwn'
    BY <1>2 DEF IInv, RoundInv, CellsFollowBase, TakesItsOwn
<1> QED
    BY <1>5, <1>8, <1>9, <1>10 DEF IInv

\* A frame is dropped.
LEMMA SkipKeeps == IInv /\ (SkipInUserInfo \/ SkipInSummary) => IInv'
<1> SUFFICES ASSUME IInv, SkipInUserInfo \/ SkipInSummary PROVE IInv'
    OBVIOUS
<1>1. /\ rx # <<>> /\ rx' = Tail(rx)
      /\ UNCHANGED <<pc, version, asked, q, first, calm, base, cells, record>>
    BY DEF SkipInUserInfo, SkipInSummary, Skip
<1>2. rx \in Seq(Frames) /\ rx' \in Seq(Frames)
    BY <1>1, TakeFrame DEF IInv, TypeInv
<1>3. /\ InOrder(rx')
      /\ \A i \in 1 .. Len(rx') : \E k \in 1 .. Len(rx) : rx'[i] = rx[k]
    BY <1>1, <1>2, TailInOrder DEF IInv, LineInv
<1>4. TypeInv'
    BY <1>1, <1>2 DEF IInv, TypeInv
<1>5. LineInv'
    BY <1>1, <1>3 DEF IInv, LineInv, InOrder, Ahead
<1>6. RoundInv' /\ CellsFollowBase' /\ TakesItsOwn'
    BY <1>1, <1>3 DEF IInv, RoundInv, CellsFollowBase, TakesItsOwn
<1> QED
    BY <1>4, <1>5, <1>6 DEF IInv

\* The frame taken was ahead of everything; the others are ahead of it.
LEMMA TakeKeeps == IInv /\ (TakeUserInfo \/ TakeSummary) => IInv'
<1> SUFFICES ASSUME IInv, TakeUserInfo \/ TakeSummary PROVE IInv'
    OBVIOUS
<1> DEFINE n == Head(rx).q
<1>1. /\ rx # <<>> /\ rx' = Tail(rx)
      /\ UNCHANGED <<version, asked, q, first, calm, record>>
      /\ \/ pc = "read61" /\ pc' \in {"return", "backfill"} /\ base' = n
            /\ cells' \in {0, cells}
         \/ pc = "read31" /\ pc' = "return" /\ base' = base /\ cells' = n
    BY DEF TakeUserInfo, TakeSummary
<1>2. rx \in Seq(Frames) /\ rx' \in Seq(Frames) /\ n \in Nat
    BY <1>1, TakeFrame DEF IInv, TypeInv
<1>3. Ahead(n) /\ n \in 1 .. q
  <2>1. rx[1] = Head(rx) /\ 1 \in 1 .. Len(rx)
      BY <1>1, <1>2, TakeFrame
  <2> QED
      BY <2>1 DEF IInv, LineInv, Ahead
<1>4. /\ InOrder(rx')
      /\ \A i \in 1 .. Len(rx') : /\ \E k \in 1 .. Len(rx) : rx'[i] = rx[k]
                                  /\ rx'[i].q > n
    BY <1>1, <1>2, TailInOrder DEF IInv, LineInv
<1>5. \A i \in 1 .. Len(asked) : asked[i].q > n
  <2>1. rx[1] = Head(rx) /\ 1 \in 1 .. Len(rx)
      BY <1>1, <1>2, TakeFrame
  <2>2. \A i \in 1 .. Len(asked) : asked[i].q \in Nat /\ rx[1].q < asked[i].q
      BY <2>1, FrameTyped DEF IInv, TypeInv, LineInv
  <2> QED
      BY <2>1, <2>2, <1>2
<1>6. pc = "read61" /\ calm => n = first
  <2>1. rx[1] = Head(rx) /\ 1 \in 1 .. Len(rx)
      BY <1>1, <1>2, TakeFrame
  <2> QED
      BY <2>1 DEF IInv, RoundInv
<1> HIDE DEF n
<1>7. TypeInv'
    BY <1>1, <1>2 DEF IInv, TypeInv, Steps, Reads
<1>8. \A m : Ahead(m) /\ m > n => Ahead(m)'
    BY <1>1 DEF Ahead
<1>9. LineInv'
  <2>1. \A i \in 1 .. Len(rx') : Ahead(rx[i].q)'
      BY <1>4, <1>8 DEF IInv, LineInv, Ahead
  <2>2. \A i \in 1 .. Len(asked') : Ahead(asked[i].q)'
      BY <1>1, <1>5, <1>8 DEF IInv, LineInv, Ahead
  <2>3. \A i \in 1 .. Len(rx'), j \in 1 .. Len(asked') : rx'[i].q < asked'[j].q
      BY <1>1, <1>4 DEF IInv, LineInv
  <2>4. InOrder(rx') /\ InOrder(asked')
      BY <1>1, <1>4 DEF IInv, LineInv
  <2>5. base' <= q' /\ cells' <= q' /\ record'.base <= q'
      BY <1>1, <1>3 DEF IInv, TypeInv, LineInv
  <2> QED
      BY <2>1, <2>2, <2>3, <2>4, <2>5 DEF LineInv, InOrder
<1>10. RoundInv'
    BY <1>1, <1>3 DEF IInv, TypeInv, RoundInv, Ahead
<1>11. CellsFollowBase'
    BY <1>1, <1>3 DEF IInv, RoundInv, CellsFollowBase, Ahead
<1>12. TakesItsOwn'
    BY <1>1, <1>6 DEF IInv, RoundInv, TakesItsOwn
<1> QED
    BY <1>7, <1>9, <1>10, <1>11, <1>12 DEF IInv

\* A query that is given up leaves the line as it is.
LEMMA TimeoutKeeps == IInv /\ (UserInfoTimeout \/ SummaryTimeout) => IInv'
<1> SUFFICES ASSUME IInv, UserInfoTimeout \/ SummaryTimeout PROVE IInv'
    OBVIOUS
<1>1. /\ \/ pc = "read61" /\ pc' = "failed"
         \/ pc = "read31" /\ pc' = "return"
      /\ UNCHANGED <<version, asked, rx, q, first, calm, base, cells, record>>
    BY DEF UserInfoTimeout, SummaryTimeout
<1>2. TypeInv'
    BY <1>1 DEF IInv, TypeInv, Steps
<1>3. LineInv'
    BY <1>1 DEF IInv, LineInv, InOrder, Ahead
<1>4. RoundInv' /\ CellsFollowBase' /\ TakesItsOwn'
    BY <1>1 DEF IInv, RoundInv, CellsFollowBase, TakesItsOwn, Reads
<1> QED
    BY <1>2, <1>3, <1>4 DEF IInv

\* A round ends with what it has filled, or with nothing.
LEMMA ReturnKeeps == IInv /\ Return => IInv'
<1> SUFFICES ASSUME IInv, Return PROVE IInv'
    OBVIOUS
<1>1. /\ pc' = "idle" /\ version' = FALSE
      /\ UNCHANGED <<asked, rx, q, first, calm, base, cells>>
      /\ record' = record \/ record' = [base |-> base, cells |-> cells]
    BY DEF Return
<1>2. record' \in [base : Nat, cells : Nat] /\ record'.base \in {record.base, base}
    BY <1>1 DEF IInv, TypeInv
<1>3. TypeInv'
    BY <1>1, <1>2 DEF IInv, TypeInv, Steps
<1>4. \A n : Ahead(n) => Ahead(n)'
    BY <1>1, <1>2 DEF Ahead
<1>5. LineInv'
    BY <1>1, <1>2, <1>4 DEF IInv, LineInv, InOrder, Ahead
<1>6. RoundInv' /\ CellsFollowBase' /\ TakesItsOwn'
    BY <1>1 DEF IInv, RoundInv, CellsFollowBase, TakesItsOwn
<1> QED
    BY <1>3, <1>5, <1>6 DEF IInv

-----------------------------------------------------------------------------
(* The pack and the line.                                                  *)

\* The oldest query is answered or lost: the order of the line stays.
LEMMA PackKeeps == IInv /\ (Reply \/ Lose) => IInv'
<1> SUFFICES ASSUME IInv, Reply \/ Lose PROVE IInv'
    OBVIOUS
<1> DEFINE f == Head(asked)
<1>1. /\ asked # <<>> /\ asked' = Tail(asked)
      /\ rx' = rx \/ rx' = Append(rx, f)
      /\ UNCHANGED <<pc, version, q, first, calm, base, cells, record>>
    BY DEF Reply, Lose
<1>2. /\ asked \in Seq(Frames) /\ asked' \in Seq(Frames) /\ rx \in Seq(Frames)
      /\ f = asked[1] /\ 1 \in 1 .. Len(asked) /\ f \in Frames
    BY <1>1, TakeFrame DEF IInv, TypeInv
<1>3. /\ InOrder(asked')
      /\ \A i \in 1 .. Len(asked') : /\ \E k \in 1 .. Len(asked) : asked'[i] = asked[k]
                                     /\ asked'[i].q > f.q
    BY <1>1, <1>2, TailInOrder DEF IInv, LineInv
<1> HIDE DEF f
<1>4. /\ rx' \in Seq(Frames) /\ Len(rx) \in Nat
      /\ \A i \in 1 .. Len(rx') :
            \/ i \in 1 .. Len(rx) /\ rx'[i] = rx[i]
            \/ i = Len(rx) + 1 /\ rx'[i] = f
  <2>1. CASE rx' = rx
      BY <2>1, <1>2
  <2>2. CASE rx' = Append(rx, f)
      BY <2>2, <1>2, PutFrame
  <2> QED
      BY <1>1, <2>1, <2>2
<1>5. TypeInv'
    BY <1>1, <1>2, <1>4 DEF IInv, TypeInv
<1>6. f.q \in Nat /\ \A i \in 1 .. Len(asked') : asked'[i].q \in Nat
    BY <1>2, FrameTyped
<1>7. LineInv'
  <2>1. \A i \in 1 .. Len(rx') : Ahead(rx[i].q)'
      BY <1>1, <1>2, <1>4 DEF IInv, LineInv, Ahead
  <2>2. \A i \in 1 .. Len(asked') : Ahead(asked[i].q)'
      BY <1>1, <1>3 DEF IInv, LineInv, Ahead
  <2>3. InOrder(rx')
    <3>1. InOrder(rx) /\ \A i \in 1 .. Len(rx) : rx[i].q < f.q
        BY <1>2 DEF IInv, LineInv
    <3> QED
        BY <3>1, <1>2, <1>4, OneMoreInOrder
  <2>4. \A i \in 1 .. Len(rx'), j \in 1 .. Len(asked') : rx'[i].q < asked'[j].q
      BY <1>3, <1>4, <1>6 DEF IInv, LineInv
  <2> QED
      BY <2>1, <2>2, <2>3, <2>4, <1>1, <1>3 DEF IInv, LineInv, InOrder
<1>8. RoundInv'
  <2>1. ASSUME pc = "read61", calm
        PROVE  /\ \A i \in 1 .. Len(rx') : rx'[i].q = first
               /\ \A i \in 1 .. Len(asked') : asked'[i].q = first
    <3>1. /\ \A i \in 1 .. Len(rx) : rx[i].q = first
          /\ \A i \in 1 .. Len(asked) : asked[i].q = first
        BY <2>1 DEF IInv, RoundInv
    <3>2. f.q = first
        BY <1>2, <3>1
    <3> QED
        BY <1>3, <1>4, <3>1, <3>2
  <2>2. /\ pc \in {"write61", "read61"} => base = 0 /\ cells = 0
        /\ pc \in {"backfill", "write31", "read31"} => base # 0 /\ cells = 0
        /\ pc = "return" => base # 0
        /\ pc # "idle" /\ base # 0 => base > record.base
      BY DEF IInv, RoundInv
  <2> QED
      BY <1>1, <2>1, <2>2 DEF RoundInv
<1>9. CellsFollowBase' /\ TakesItsOwn'
    BY <1>1 DEF IInv, CellsFollowBase, TakesItsOwn
<1> QED
    BY <1>5, <1>7, <1>8, <1>9 DEF IInv

\* Nothing happens.
LEMMA StutterKeeps == IInv /\ UNCHANGED vars => IInv'
BY DEF IInv, TypeInv, LineInv, InOrder, Ahead, RoundInv, CellsFollowBase,
       TakesItsOwn, vars

\* The invariant holds in every reachable state.
THEOREM Inductive == Spec => []IInv
<1>1. Init => IInv
    BY Initially
<1>2. IInv /\ [Next]_vars => IInv'
    BY FlushKeeps, WriteKeeps, SkipKeeps, TakeKeeps, TimeoutKeeps, ReturnKeeps,
       RestartKeeps, PackKeeps, StutterKeeps DEF Next
<1> QED
    BY <1>1, <1>2, PTL DEF Spec

\* Every record is measured after the one before it: read_all() uses no reply
\* twice and none out of order, although replies carry no number.
THEOREM RecordsAreNew == Spec => []EachRecordIsNew
<1>1. IInv => EachRecordIsNew
    BY DEF IInv, RoundInv, EachRecordIsNew
<1> QED
    BY <1>1, Inductive, PTL

\* The cell extremes that the 0x31 query fills in are never older than the rest
\* of their record.
THEOREM CellsAreNewer == Spec => []CellsFollowBase
<1>1. IInv => CellsFollowBase
    BY DEF IInv
<1> QED
    BY <1>1, Inductive, PTL

\* Lateness is the only way to an old record: if nothing was on its way when a
\* round's query was written, its record is the round's own.
THEOREM OnlyLateIsStale == Spec => []StaleOnlyIfLate
<1>1. IInv => StaleOnlyIfLate
    BY DEF IInv, RoundInv, TakesItsOwn, StaleOnlyIfLate
<1> QED
    BY <1>1, Inductive, PTL

-----------------------------------------------------------------------------
(* read_frame().  Where the scan stands is where a frame has begun: at each *)
(* stage the bytes just taken, counted back from `taken', are the part of   *)
(* it that this stage lies behind, wherever the scan has resumed before.    *)

Octet == 0 .. 255

\* A header of the frame asked for stands on the line behind h bytes.
HeaderAt(h) ==
    /\ h \in Nat /\ h + 4 <= taken
    /\ line[h + 1] = FRAME_HEAD /\ line[h + 2] = FRAME_HEAD
    /\ line[h + 3] = ExpectCmd /\ line[h + 4] = ExpectLen

\* body is what follows that header.
BodyAt(h) ==
    /\ h + 4 + Len(body) <= taken
    /\ \A i \in 1 .. Len(body) : body[i] = line[h + 4 + i]

\* The whole payload has been read, and `behind' bytes after it.
Collected(behind) ==
    /\ Len(body) = ExpectLen
    /\ HeaderAt(taken - behind - 4 - ExpectLen)
    /\ BodyAt(taken - behind - 4 - ExpectLen)

ScanShape ==
    /\ line \in Seq(Octet) /\ taken \in 0 .. Len(line)
    /\ stage \in Stages /\ body \in Seq(Octet)

Heads ==
    /\ stage = "kHead2" => taken >= 1 /\ line[taken] = FRAME_HEAD
    /\ stage = "kCmd" =>
           taken >= 2 /\ line[taken - 1] = FRAME_HEAD /\ line[taken] = FRAME_HEAD
    /\ stage = "kLen" =>
           /\ taken >= 3 /\ line[taken - 2] = FRAME_HEAD
           /\ line[taken - 1] = FRAME_HEAD /\ line[taken] = ExpectCmd

Contents ==
    /\ stage = "kPayload" =>
           /\ Len(body) < ExpectLen
           /\ HeaderAt(taken - 4 - Len(body)) /\ BodyAt(taken - 4 - Len(body))
    /\ stage = "kCrcHi" => Collected(0)
    /\ stage = "kCrcLo" => Collected(1) /\ recv = line[taken] * 256
    /\ stage = "kTail" =>
           Collected(2) /\ recv = line[taken - 1] * 256 + line[taken]
    /\ stage = "accepted" =>
           /\ Collected(3) /\ recv = line[taken - 2] * 256 + line[taken - 1]
           /\ line[taken] = FRAME_TAIL /\ data = body
           /\ Checksum(<<ExpectCmd, ExpectLen>> \o body) = recv

ScanInv == ScanShape /\ Heads /\ Contents

\* HeaderAt and BodyAt in the next state, of a place fixed in this one.
StillHeader(h) ==
    /\ h \in Nat /\ h + 4 <= taken'
    /\ line'[h + 1] = FRAME_HEAD /\ line'[h + 2] = FRAME_HEAD
    /\ line'[h + 3] = ExpectCmd /\ line'[h + 4] = ExpectLen
StillBody(h) ==
    /\ h + 4 + Len(body') <= taken'
    /\ \A i \in 1 .. Len(body') : body'[i] = line'[h + 4 + i]

\* A header stays where it is while the line is read on.
LEMMA HeaderOn ==
    ASSUME NEW h, HeaderAt(h), line' = line, taken \in Nat, taken' = taken + 1
    PROVE  StillHeader(h)
<1>1. h \in Nat /\ h + 4 <= taken'
    BY DEF HeaderAt
<1> QED
    BY <1>1 DEF HeaderAt, StillHeader

\* So does a payload that has been read.
LEMMA CollectedOn ==
    ASSUME NEW b \in {0, 1, 2}, Collected(b), line' = line, body' = body,
           taken \in Nat, taken' = taken + 1
    PROVE  Collected(b + 1)'
<1> DEFINE h == taken - b - 4 - ExpectLen
<1>1. ExpectLen \in Nat
    BY FrameAssumption DEF FrameAssumption
<1>2. taken' - (b + 1) - 4 - ExpectLen = h
    BY <1>1
<1>3. HeaderAt(h) /\ BodyAt(h) /\ Len(body) = ExpectLen
    BY DEF Collected
<1> HIDE DEF h
<1>4. StillHeader(h)
    BY <1>3, HeaderOn
<1>5. h \in Nat /\ h + 4 + Len(body') <= taken'
    BY <1>1, <1>3 DEF HeaderAt, BodyAt
<1>6. StillBody(h)
    BY <1>3, <1>5 DEF BodyAt, StillBody
<1> QED
    BY <1>2, <1>3, <1>4, <1>6 DEF Collected, HeaderAt, BodyAt, StillHeader, StillBody

\* A query starts with nothing taken.
LEMMA ScanStarts == (ScanInit => ScanInv) /\ (Start => ScanInv')
<1>1. <<>> \in Seq(Octet)
    OBVIOUS
<1>2. ASSUME ScanInit PROVE ScanInv
  <2>1. line \in Seq(Octet)
      BY <1>2, FrameAssumption DEF ScanInit, FrameAssumption, Octet
  <2>2. Len(line) \in Nat
      BY <2>1
  <2> QED
      BY <1>1, <1>2, <2>1, <2>2 DEF ScanInit, ScanInv, ScanShape, Heads, Contents, Stages
<1>3. ASSUME Start PROVE ScanInv'
  <2>1. line' \in Seq(Octet)
      BY <1>3, FrameAssumption DEF Start, FrameAssumption, Octet
  <2>2. Len(line') \in Nat
      BY <2>1
  <2> QED
      BY <1>1, <1>3, <2>1, <2>2 DEF Start, ScanInv, ScanShape, Heads, Contents, Stages
<1> QED
    BY <1>2, <1>3

\* A stage takes the next byte of the line.
LEMMA ScanTakes ==
    ASSUME ScanInv, NEW s, In(s)
    PROVE  /\ stage = s /\ line' = line /\ taken' = taken + 1 /\ taken \in Nat
           /\ taken' \in 1 .. Len(line) /\ Byte = line[taken'] /\ Byte \in Octet
           /\ line \in Seq(Octet) /\ body \in Seq(Octet) /\ Len(body) \in Nat
           /\ taken' \in 0 .. Len(line')
<1>1. line \in Seq(Octet) /\ taken \in 0 .. Len(line) /\ body \in Seq(Octet)
    BY DEF ScanInv, ScanShape
<1>2. stage = s /\ taken < Len(line) /\ taken' = taken + 1 /\ line' = line
    BY DEF In
<1>3. Len(line) \in Nat /\ Len(body) \in Nat
    BY <1>1
<1>4. taken \in Nat /\ taken + 1 \in 1 .. Len(line)
    BY <1>1, <1>2, <1>3
<1> QED
    BY <1>1, <1>2, <1>3, <1>4 DEF Byte

\* While the heads, the command and the length pass by: the scan resumes at the
\* byte that did not fit.
LEMMA ScanHeads == ScanInv /\ (Head1 \/ Head2 \/ Cmd) => ScanInv'
<1> SUFFICES ASSUME ScanInv, Head1 \/ Head2 \/ Cmd PROVE ScanInv'
    OBVIOUS
<1> USE DEF Stages
<1>1. \E s : In(s)
    BY DEF Head1, Head2, Cmd
<1>2. /\ line' = line /\ taken' = taken + 1 /\ taken \in Nat
      /\ taken' \in 0 .. Len(line') /\ Byte = line[taken'] /\ line \in Seq(Octet)
      /\ body \in Seq(Octet)
    BY <1>1, ScanTakes
<1>3. body' \in {body, <<>>} /\ body' \in Seq(Octet)
  <2>1. <<>> \in Seq(Octet)
      OBVIOUS
  <2>2. body' \in {body, <<>>}
      BY DEF Head1, Head2, Cmd
  <2> QED
      BY <1>2, <2>1, <2>2
<1>4. taken' - 1 = taken /\ taken' - 2 = taken - 1
    BY <1>2
<1>5. /\ stage' \in {"kHead1", "kHead2", "kCmd", "kLen"}
      /\ stage' = "kHead2" => Byte = FRAME_HEAD
      /\ stage' = "kCmd" => stage \in {"kHead2", "kCmd"} /\ Byte = FRAME_HEAD
      /\ stage' = "kLen" => stage = "kCmd" /\ Byte = ExpectCmd
  <2>1. CASE Head1
      BY <2>1 DEF Head1, In, Resync
  <2>2. CASE Head2
      BY <2>2 DEF Head2, In
  <2>3. CASE Cmd
      BY <2>3 DEF Cmd, In
  <2> QED
      BY <2>1, <2>2, <2>3
<1>6. Heads'
  <2>1. stage \in {"kHead2", "kCmd"} => taken >= 1 /\ line[taken] = FRAME_HEAD
      BY <1>2 DEF ScanInv, Heads
  <2>2. stage = "kCmd" => taken >= 2 /\ line[taken - 1] = FRAME_HEAD
      BY DEF ScanInv, Heads
  <2>3. stage' = "kHead2" => taken' >= 1 /\ line'[taken'] = FRAME_HEAD
      BY <1>2, <1>5
  <2>4. stage' = "kCmd" =>
            taken' >= 2 /\ line'[taken' - 1] = FRAME_HEAD /\ line'[taken'] = FRAME_HEAD
      BY <1>2, <1>4, <1>5, <2>1
  <2>5. stage' = "kLen" =>
            /\ taken' >= 3 /\ line'[taken' - 2] = FRAME_HEAD
            /\ line'[taken' - 1] = FRAME_HEAD /\ line'[taken'] = ExpectCmd
      BY <1>2, <1>4, <1>5, <2>1, <2>2
  <2> QED
      BY <2>3, <2>4, <2>5 DEF Heads
<1>7. ScanShape'
    BY <1>2, <1>3, <1>5 DEF ScanShape
<1>8. Contents'
    BY <1>5 DEF Contents
<1> QED
    BY <1>6, <1>7, <1>8 DEF ScanInv

\* The length: the payload begins, or the scan resumes.
LEMMA ScanLength == ScanInv /\ LenByte => ScanInv'
<1> SUFFICES ASSUME ScanInv, LenByte PROVE ScanInv'
    OBVIOUS
<1> USE DEF Stages
<1>1. In("kLen")
    BY DEF LenByte
<1>2. /\ line' = line /\ taken' = taken + 1 /\ taken \in Nat
      /\ taken' \in 0 .. Len(line') /\ Byte = line[taken'] /\ line \in Seq(Octet)
      /\ body \in Seq(Octet) /\ stage = "kLen"
    BY <1>1, ScanTakes
<1>3. /\ stage' \in {"kHead1", "kHead2", "kPayload"}
      /\ stage' = "kHead2" => Byte = FRAME_HEAD
      /\ stage' = "kPayload" => Byte = ExpectLen /\ body' = <<>>
      /\ body' \in {body, <<>>}
    BY DEF LenByte, Resync
<1>4. body' \in Seq(Octet)
  <2>1. <<>> \in Seq(Octet)
      OBVIOUS
  <2> QED
      BY <1>2, <1>3, <2>1
<1>5. ScanShape'
    BY <1>2, <1>3, <1>4 DEF ScanShape
<1>6. Heads'
    BY <1>2, <1>3 DEF Heads
<1>7. Contents'
  <2> SUFFICES ASSUME stage' = "kPayload"
               PROVE  /\ Len(body') < ExpectLen
                      /\ HeaderAt(taken - 4 - Len(body))'
                      /\ BodyAt(taken - 4 - Len(body))'
      BY <1>3 DEF Contents
  <2>1. Len(body') = 0
      BY <1>3
  <2>2. ExpectLen \in Nat \ {0}
      BY FrameAssumption DEF FrameAssumption
  <2>3. /\ taken >= 3 /\ line[taken - 2] = FRAME_HEAD
        /\ line[taken - 1] = FRAME_HEAD /\ line[taken] = ExpectCmd
      BY <1>2 DEF ScanInv, Heads
  <2> DEFINE h == taken - 3
  <2>4. /\ h \in Nat /\ h + 1 = taken - 2 /\ h + 2 = taken - 1 /\ h + 3 = taken
        /\ h + 4 = taken' /\ h = taken' - 4 - Len(body')
      BY <1>2, <2>1, <2>3
  <2> HIDE DEF h
  <2>5. StillHeader(h)
      BY <1>2, <1>3, <2>3, <2>4 DEF StillHeader
  <2>6. StillBody(h)
      BY <1>2, <2>1, <2>4 DEF StillBody
  <2> QED
      BY <2>1, <2>2, <2>4, <2>5, <2>6 DEF HeaderAt, BodyAt, StillHeader, StillBody
<1> QED
    BY <1>5, <1>6, <1>7 DEF ScanInv

\* A byte of the payload is kept behind the others.
LEMMA ScanPayload == ScanInv /\ Payload => ScanInv'
<1> SUFFICES ASSUME ScanInv, Payload PROVE ScanInv'
    OBVIOUS
<1> USE DEF Stages
<1>1. In("kPayload")
    BY DEF Payload
<1>2. /\ line' = line /\ taken' = taken + 1 /\ taken \in Nat
      /\ taken' \in 0 .. Len(line') /\ Byte = line[taken'] /\ line \in Seq(Octet)
      /\ Byte \in Octet /\ body \in Seq(Octet) /\ Len(body) \in Nat
      /\ stage = "kPayload"
    BY <1>1, ScanTakes
<1>3. /\ body' = Append(body, Byte)
      /\ stage' = IF Len(body') = ExpectLen THEN "kCrcHi" ELSE "kPayload"
    BY DEF Payload
<1>4. /\ body' \in Seq(Octet) /\ Len(body') = Len(body) + 1
      /\ \A i \in 1 .. Len(body) : body'[i] = body[i]
      /\ body'[Len(body) + 1] = Byte
    BY <1>2, <1>3, AppendProperties
<1> DEFINE m == Len(body)
           h == taken - 4 - m
<1>5. m < ExpectLen /\ HeaderAt(h) /\ BodyAt(h) /\ ExpectLen \in Nat
    BY <1>2, FrameAssumption DEF ScanInv, Contents, FrameAssumption
<1>6. /\ m \in Nat /\ h \in Nat /\ h + 4 + m = taken
      /\ h = taken' - 4 - Len(body')
      /\ h + 4 + (m + 1) = taken'
    BY <1>2, <1>4, <1>5 DEF HeaderAt
<1>7. StillHeader(h)
    BY <1>2, <1>5, HeaderOn
<1>8. StillBody(h)
  <2>1. \A i \in 1 .. m : body[i] = line[h + 4 + i]
      BY <1>5 DEF BodyAt
  <2>2. body'[m + 1] = line[h + 4 + (m + 1)]
      BY <1>2, <1>4, <1>6
  <2>3. Len(body') = m + 1 /\ \A i \in 1 .. m : body'[i] = body[i]
      BY <1>4
  <2> HIDE DEF m, h
  <2>4. ASSUME NEW i \in 1 .. m + 1 PROVE body'[i] = line[h + 4 + i]
    <3>1. i = m + 1 \/ i \in 1 .. m
        BY <1>6
    <3>2. i \in 1 .. m => body'[i] = body[i] /\ body[i] = line[h + 4 + i]
        BY <2>1, <2>3
    <3> QED
        BY <2>2, <3>1, <3>2
  <2> QED
      BY <1>2, <1>6, <2>3, <2>4 DEF StillBody
<1>9. ScanShape'
    BY <1>2, <1>3, <1>4 DEF ScanShape
<1>10. Heads'
    BY <1>3 DEF Heads
<1> HIDE DEF m, h
<1>11. Contents'
  <2>1. CASE Len(body') = ExpectLen
    <3>1. h = taken' - 0 - 4 - ExpectLen
        BY <1>2, <1>5, <1>6, <2>1
    <3>2. Collected(0)'
        BY <2>1, <3>1, <1>7, <1>8
           DEF Collected, HeaderAt, BodyAt, StillHeader, StillBody
    <3> QED
        BY <1>3, <2>1, <3>2 DEF Contents
  <2>2. CASE Len(body') # ExpectLen
    <3>1. Len(body') < ExpectLen
        BY <1>4, <1>5, <1>6, <2>2 DEF m
    <3> QED
        BY <1>3, <1>6, <1>7, <1>8, <2>2, <3>1
           DEF Contents, HeaderAt, BodyAt, StillHeader, StillBody
  <2> QED
      BY <2>1, <2>2
<1> QED
    BY <1>9, <1>10, <1>11 DEF ScanInv

\* The checksum's bytes.
LEMMA ScanCrc == ScanInv /\ (CrcHi \/ CrcLo) => ScanInv'
<1> SUFFICES ASSUME ScanInv, CrcHi \/ CrcLo PROVE ScanInv'
    OBVIOUS
<1> USE DEF Stages
<1>1. \E s : In(s)
    BY DEF CrcHi, CrcLo
<1>2. /\ line' = line /\ taken' = taken + 1 /\ taken \in Nat
      /\ taken' \in 0 .. Len(line') /\ Byte = line[taken'] /\ body \in Seq(Octet)
    BY <1>1, ScanTakes
<1>3. body' = body /\ line \in Seq(Octet) /\ taken' - 1 = taken
    BY <1>1, <1>2, ScanTakes DEF CrcHi, CrcLo
<1>4. CASE CrcHi
  <2>1. stage = "kCrcHi" /\ stage' = "kCrcLo" /\ recv' = Byte * 256
      BY <1>4 DEF CrcHi, In
  <2>2. Collected(1)'
    <3>1. Collected(0)
        BY <2>1 DEF ScanInv, Contents
    <3> QED
        BY <1>2, <1>3, <3>1, CollectedOn
  <2>3. Contents'
      BY <1>2, <2>1, <2>2 DEF Contents
  <2>4. Heads' /\ ScanShape'
      BY <1>2, <1>3, <2>1 DEF Heads, ScanShape
  <2> QED
      BY <2>3, <2>4 DEF ScanInv
<1>5. CASE CrcLo
  <2>1. stage = "kCrcLo" /\ stage' = "kTail" /\ recv' = recv + Byte
      BY <1>5 DEF CrcLo, In
  <2>2. Collected(1) /\ recv = line[taken] * 256
      BY <2>1 DEF ScanInv, Contents
  <2>3. Collected(2)'
      BY <1>2, <1>3, <2>2, CollectedOn
  <2>4. recv' = line'[taken' - 1] * 256 + line'[taken']
      BY <1>2, <1>3, <2>1, <2>2
  <2>5. Contents'
      BY <2>1, <2>3, <2>4 DEF Contents
  <2>6. Heads' /\ ScanShape'
      BY <1>2, <1>3, <2>1 DEF Heads, ScanShape
  <2> QED
      BY <2>5, <2>6 DEF ScanInv
<1> QED
    BY <1>4, <1>5

\* The tail: the frame is accepted, or the scan resumes.
LEMMA ScanTail == ScanInv /\ TailByte => ScanInv'
<1> SUFFICES ASSUME ScanInv, TailByte PROVE ScanInv'
    OBVIOUS
<1> USE DEF Stages
<1>1. In("kTail") /\ body' = body /\ recv' = recv
    BY DEF TailByte
<1>2. /\ line' = line /\ taken' = taken + 1 /\ taken \in Nat
      /\ taken' \in 0 .. Len(line') /\ Byte = line[taken'] /\ body \in Seq(Octet)
      /\ line \in Seq(Octet) /\ stage = "kTail"
    BY <1>1, ScanTakes
<1>3. ScanShape'
  <2>1. stage' \in {"accepted", "kHead1", "kHead2"}
      BY DEF TailByte, Resync
  <2> QED
      BY <1>1, <1>2, <2>1 DEF ScanShape
<1>4. CASE /\ Byte = FRAME_TAIL
           /\ Checksum(<<ExpectCmd, ExpectLen>> \o body) = recv
  <2>1. stage' = "accepted" /\ data' = body
      BY <1>4 DEF TailByte
  <2>2. Collected(2) /\ recv = line[taken - 1] * 256 + line[taken]
      BY <1>2 DEF ScanInv, Contents
  <2>3. Collected(3)'
      BY <1>1, <1>2, <2>2, CollectedOn
  <2>4. taken' - 2 = taken - 1 /\ taken' - 1 = taken
      BY <1>2
  <2>5. Checksum(<<ExpectCmd, ExpectLen>> \o body') = recv'
      BY <1>1, <1>4
  <2>6. Contents'
      BY <1>1, <1>2, <1>4, <2>1, <2>2, <2>3, <2>4, <2>5 DEF Contents
  <2>7. Heads'
      BY <2>1 DEF Heads
  <2> QED
      BY <1>3, <2>6, <2>7 DEF ScanInv
<1>5. CASE ~(/\ Byte = FRAME_TAIL
             /\ Checksum(<<ExpectCmd, ExpectLen>> \o body) = recv)
  <2>1. stage' = Resync
      BY <1>5 DEF TailByte
  <2>2. Heads' /\ Contents'
      BY <1>2, <2>1 DEF Resync, Heads, Contents
  <2> QED
      BY <1>3, <2>2 DEF ScanInv
<1> QED
    BY <1>4, <1>5

\* One case per action.
LEMMA ScanStep == ScanInv /\ [ScanNext]_scan => ScanInv'
<1> SUFFICES ASSUME ScanInv, [ScanNext]_scan PROVE ScanInv'
    OBVIOUS
<1>1. CASE Deadline
    BY <1>1 DEF Deadline, ScanInv, ScanShape, Heads, Contents, Stages
<1>2. CASE NextCall
    BY <1>2, ScanStarts DEF NextCall
<1>3. CASE UNCHANGED scan
    BY <1>3 DEF scan, ScanInv, ScanShape, Heads, Contents, Collected, HeaderAt, BodyAt
<1> QED
    BY <1>1, <1>2, <1>3, ScanHeads, ScanLength, ScanPayload, ScanCrc, ScanTail
       DEF ScanNext

\* The checksum of a frame with payload p.
Check(p) == Checksum(<<ExpectCmd, ExpectLen>> \o p)
Hi(p) == Check(p) \div 256
Lo(p) == Check(p) % 256

\* A frame, byte by byte.
LEMMA FrameBytes ==
    ASSUME NEW p \in Seq(Octet), Len(p) = ExpectLen,
           Hi(p) \in Octet, Lo(p) \in Octet
    PROVE  /\ Frame(ExpectCmd, p) \in Seq(Octet)
           /\ Len(Frame(ExpectCmd, p)) = ExpectLen + 7
           /\ Frame(ExpectCmd, p)[1] = FRAME_HEAD
           /\ Frame(ExpectCmd, p)[2] = FRAME_HEAD
           /\ Frame(ExpectCmd, p)[3] = ExpectCmd
           /\ Frame(ExpectCmd, p)[4] = ExpectLen
           /\ \A i \in 1 .. ExpectLen : Frame(ExpectCmd, p)[i + 4] = p[i]
           /\ Frame(ExpectCmd, p)[ExpectLen + 5] = Hi(p)
           /\ Frame(ExpectCmd, p)[ExpectLen + 6] = Lo(p)
           /\ Frame(ExpectCmd, p)[ExpectLen + 7] = FRAME_TAIL
<1> DEFINE n == ExpectLen
           hi == Hi(p)
           lo == Lo(p)
           covered == <<ExpectCmd, n>> \o p
           front == <<FRAME_HEAD, FRAME_HEAD>> \o covered
           back == <<hi, lo, FRAME_TAIL>>
           whole == front \o back
<1>1. /\ n \in 1 .. 253 /\ ExpectCmd \in Octet /\ n \in Octet
      /\ FRAME_HEAD \in Octet /\ FRAME_TAIL \in Octet
    BY FrameAssumption DEF FrameAssumption, FRAME_HEAD, FRAME_TAIL, Octet
<1>2. hi \in Octet /\ lo \in Octet
    OBVIOUS
<1>3. whole = Frame(ExpectCmd, p)
    BY DEF Frame, Check, Hi, Lo
<1> HIDE DEF n, hi, lo
<1>4. /\ <<ExpectCmd, n>> \in Seq(Octet) /\ <<FRAME_HEAD, FRAME_HEAD>> \in Seq(Octet)
      /\ back \in Seq(Octet)
    BY <1>1, <1>2
<1>5. /\ covered \in Seq(Octet) /\ Len(covered) = n + 2
      /\ covered[1] = ExpectCmd /\ covered[2] = n
      /\ \A i \in 1 .. n : covered[i + 2] = p[i]
  <2>1. /\ covered \in Seq(Octet) /\ Len(covered) = 2 + n
        /\ \A i \in 1 .. 2 + n :
              covered[i] = IF i <= 2 THEN <<ExpectCmd, n>>[i] ELSE p[i - 2]
    <3>1. Len(<<ExpectCmd, n>>) = 2 /\ Len(p) = n
        BY DEF n
    <3> QED
        BY <1>4, <3>1, ConcatProperties
  <2> HIDE DEF covered
  <2>2. \A i \in 1 .. n : i + 2 \in 1 .. 2 + n /\ ~(i + 2 <= 2) /\ (i + 2) - 2 = i
      BY <1>1
  <2> QED
      BY <1>1, <2>1, <2>2
<1> HIDE DEF covered
<1>6. /\ front \in Seq(Octet) /\ Len(front) = n + 4
      /\ front[1] = FRAME_HEAD /\ front[2] = FRAME_HEAD
      /\ front[3] = ExpectCmd /\ front[4] = n
      /\ \A i \in 1 .. n : front[i + 4] = p[i]
  <2>1. /\ front \in Seq(Octet) /\ Len(front) = 2 + (n + 2)
        /\ \A i \in 1 .. 2 + (n + 2) :
              front[i] = IF i <= 2 THEN <<FRAME_HEAD, FRAME_HEAD>>[i]
                         ELSE covered[i - 2]
    <3>1. Len(<<FRAME_HEAD, FRAME_HEAD>>) = 2
        OBVIOUS
    <3> QED
        BY <1>4, <1>5, <3>1, ConcatProperties
  <2> HIDE DEF front
  <2>2. \A i \in 1 .. n : i + 4 \in 1 .. 2 + (n + 2) /\ ~(i + 4 <= 2)
                          /\ (i + 4) - 2 = i + 2
      BY <1>1
  <2>3. \A i \in 1 .. n : front[i + 4] = p[i]
      BY <1>5, <2>1, <2>2
  <2>4. front[1] = FRAME_HEAD /\ front[2] = FRAME_HEAD
      BY <1>1, <2>1
  <2>5. front[3] = ExpectCmd /\ front[4] = n
      BY <1>1, <1>5, <2>1
  <2> QED
      BY <1>1, <2>1, <2>3, <2>4, <2>5
<1> HIDE DEF front
<1>7. /\ whole \in Seq(Octet) /\ Len(whole) = n + 7
      /\ \A i \in 1 .. n + 7 :
            whole[i] = IF i <= n + 4 THEN front[i] ELSE back[i - (n + 4)]
  <2>1. Len(back) = 3 /\ (n + 4) + 3 = n + 7
      BY <1>1
  <2> HIDE DEF back
  <2>2. /\ whole \in Seq(Octet) /\ Len(whole) = Len(front) + Len(back)
        /\ \A i \in 1 .. Len(front) + Len(back) :
              whole[i] = IF i <= Len(front) THEN front[i]
                         ELSE back[i - Len(front)]
      BY <1>4, <1>6, ConcatProperties
  <2> QED
      BY <1>6, <2>1, <2>2
<1>8. back[1] = hi /\ back[2] = lo /\ back[3] = FRAME_TAIL
    OBVIOUS
<1> HIDE DEF whole, back
<1>9. /\ whole[1] = FRAME_HEAD /\ whole[2] = FRAME_HEAD
      /\ whole[3] = ExpectCmd /\ whole[4] = n
  <2>1. \A i \in 1 .. 4 : i \in 1 .. n + 7 /\ i <= n + 4
      BY <1>1
  <2> QED
      BY <1>6, <1>7, <2>1
<1>10. \A i \in 1 .. n : whole[i + 4] = p[i]
  <2>1. \A i \in 1 .. n : i + 4 \in 1 .. n + 7 /\ i + 4 <= n + 4
      BY <1>1
  <2> QED
      BY <1>6, <1>7, <2>1
<1>11. whole[n + 5] = hi /\ whole[n + 6] = lo /\ whole[n + 7] = FRAME_TAIL
  <2>1. ASSUME NEW j \in 1 .. 3, NEW i, i = n + 4 + j PROVE whole[i] = back[j]
    <3>1. i \in 1 .. n + 7 /\ ~(i <= n + 4) /\ i - (n + 4) = j
        BY <1>1, <2>1
    <3> QED
        BY <1>7, <3>1
  <2>2. n + 5 = n + 4 + 1 /\ n + 6 = n + 4 + 2 /\ n + 7 = n + 4 + 3
      BY <1>1
  <2> QED
      BY <1>8, <2>1, <2>2
<1> QED
    BY <1>3, <1>7, <1>9, <1>10, <1>11 DEF n, hi, lo

\* The payload of a frame that begins behind k - 1 bytes.
PayloadAt(k) == SubSeq(line, k + 4, k + 3 + ExpectLen)

\* A target on the line, byte by byte.
LEMMA TargetBytes ==
    ASSUME line \in Seq(Octet), NEW k \in Nat \ {0}, k + ExpectLen + 6 <= Len(line),
           Hi(PayloadAt(k)) \in Octet, Lo(PayloadAt(k)) \in Octet
    PROVE  /\ PayloadAt(k) \in Seq(Octet) /\ Len(PayloadAt(k)) = ExpectLen
           /\ \A i \in 1 .. ExpectLen : PayloadAt(k)[i] = line[k + 3 + i]
           /\ TargetAt(k) <=>
                 /\ line[k] = FRAME_HEAD /\ line[k + 1] = FRAME_HEAD
                 /\ line[k + 2] = ExpectCmd /\ line[k + 3] = ExpectLen
                 /\ line[k + ExpectLen + 4] = Hi(PayloadAt(k))
                 /\ line[k + ExpectLen + 5] = Lo(PayloadAt(k))
                 /\ line[k + ExpectLen + 6] = FRAME_TAIL
<1> DEFINE n == ExpectLen
           p == PayloadAt(k)
           seen == SubSeq(line, k, k + FrameLen - 1)
           whole == Frame(ExpectCmd, p)
<1>0. p = SubSeq(line, k + 4, k + 3 + ExpectLen)
    BY DEF PayloadAt
<1>1. n \in 1 .. 253 /\ Len(line) \in Nat /\ \A i \in 1 .. Len(line) : line[i] \in Octet
    BY FrameAssumption DEF FrameAssumption
<1>2. FrameLen = n + 7 /\ k + n + 6 <= Len(line) /\ k \in Nat /\ k >= 1
    BY DEF FrameLen
<1> HIDE DEF n, p
<1>3. /\ p \in Seq(Octet) /\ Len(p) = n
      /\ \A i \in 1 .. n : p[i] = line[k + 3 + i]
  <2> DEFINE a == k + 4
             b == k + 3 + n
  <2>1. /\ a \in Int /\ b \in Int /\ b - a + 1 = n /\ a <= b
        /\ \A i \in a .. b : i \in 1 .. Len(line)
      BY <1>1, <1>2
  <2>2. p = SubSeq(line, a, b)
      BY <1>0 DEF n
  <2>4. \A i \in 1 .. n : a + i - 1 = k + 3 + i
      BY <1>2
  <2> HIDE DEF a, b
  <2>3. /\ SubSeq(line, a, b) \in Seq(Octet) /\ Len(SubSeq(line, a, b)) = n
        /\ \A i \in 1 .. n : SubSeq(line, a, b)[i] = line[a + i - 1]
      BY <1>1, <2>1, SubSeqProperties
  <2> QED
      BY <2>2, <2>3, <2>4
<1>4. /\ seen \in Seq(Octet) /\ Len(seen) = n + 7
      /\ \A i \in 1 .. n + 7 : seen[i] = line[k - 1 + i]
  <2> DEFINE e == k + FrameLen - 1
  <2>1. /\ k \in Int /\ e \in Int /\ e - k + 1 = n + 7 /\ k <= e
        /\ \A i \in k .. e : i \in 1 .. Len(line)
      BY <1>1, <1>2
  <2> HIDE DEF e
  <2>2. /\ SubSeq(line, k, e) \in Seq(Octet) /\ Len(SubSeq(line, k, e)) = n + 7
        /\ \A i \in 1 .. n + 7 : SubSeq(line, k, e)[i] = line[k + i - 1]
      BY <1>1, <2>1, SubSeqProperties
  <2>4. seen = SubSeq(line, k, e)
      BY DEF e
  <2> HIDE DEF seen
  <2>3. \A i \in 1 .. n + 7 : k + i - 1 = k - 1 + i
      BY <1>2
  <2> QED
      BY <2>2, <2>3, <2>4
<1>5. /\ whole \in Seq(Octet) /\ Len(whole) = n + 7
      /\ whole[1] = FRAME_HEAD /\ whole[2] = FRAME_HEAD
      /\ whole[3] = ExpectCmd /\ whole[4] = n
      /\ \A i \in 1 .. n : whole[i + 4] = p[i]
      /\ whole[n + 5] = Hi(p) /\ whole[n + 6] = Lo(p) /\ whole[n + 7] = FRAME_TAIL
  <2>1. p \in Seq(Octet) /\ Len(p) = ExpectLen /\ Hi(p) \in Octet /\ Lo(p) \in Octet
      BY <1>3 DEF n, p
  <2> HIDE DEF whole
  <2>2. whole = Frame(ExpectCmd, p)
      BY DEF whole
  <2>3. /\ Frame(ExpectCmd, p) \in Seq(Octet)
        /\ Len(Frame(ExpectCmd, p)) = ExpectLen + 7
        /\ Frame(ExpectCmd, p)[1] = FRAME_HEAD
        /\ Frame(ExpectCmd, p)[2] = FRAME_HEAD
        /\ Frame(ExpectCmd, p)[3] = ExpectCmd
        /\ Frame(ExpectCmd, p)[4] = ExpectLen
        /\ \A i \in 1 .. ExpectLen : Frame(ExpectCmd, p)[i + 4] = p[i]
        /\ Frame(ExpectCmd, p)[ExpectLen + 5] = Hi(p)
        /\ Frame(ExpectCmd, p)[ExpectLen + 6] = Lo(p)
        /\ Frame(ExpectCmd, p)[ExpectLen + 7] = FRAME_TAIL
      BY <2>1, FrameBytes
  <2> QED
      BY <2>2, <2>3 DEF n
<1>6. TargetAt(k) <=>
          line[k + 2] = ExpectCmd /\ line[k + 3] = n /\ seen = whole
    BY <1>0 DEF TargetAt, n
<1> HIDE DEF seen, whole
<1>7. /\ k - 1 + 1 = k /\ k - 1 + 2 = k + 1 /\ k - 1 + 3 = k + 2 /\ k - 1 + 4 = k + 3
      /\ k - 1 + (n + 5) = k + n + 4 /\ k - 1 + (n + 6) = k + n + 5
      /\ k - 1 + (n + 7) = k + n + 6
      /\ \A i \in 1 .. n : k - 1 + (i + 4) = k + 3 + i
    BY <1>1, <1>2
<1>8. /\ 1 \in 1 .. n + 7 /\ 2 \in 1 .. n + 7 /\ 3 \in 1 .. n + 7 /\ 4 \in 1 .. n + 7
      /\ n + 5 \in 1 .. n + 7 /\ n + 6 \in 1 .. n + 7 /\ n + 7 \in 1 .. n + 7
      /\ \A i \in 1 .. n : i + 4 \in 1 .. n + 7
    BY <1>1
<1>9. /\ seen[1] = line[k] /\ seen[2] = line[k + 1] /\ seen[3] = line[k + 2]
      /\ seen[4] = line[k + 3] /\ seen[n + 5] = line[k + n + 4]
      /\ seen[n + 6] = line[k + n + 5] /\ seen[n + 7] = line[k + n + 6]
      /\ \A i \in 1 .. n : seen[i + 4] = p[i]
  <2>1. /\ seen[1] = line[k] /\ seen[2] = line[k + 1] /\ seen[3] = line[k + 2]
        /\ seen[4] = line[k + 3]
      BY <1>4, <1>7, <1>8
  <2>2. \A i \in {n + 5, n + 6, n + 7} : seen[i] = line[k - 1 + i]
      BY <1>4, <1>8
  <2>3. \A i \in 1 .. n : seen[i + 4] = line[k - 1 + (i + 4)]
      BY <1>4, <1>8
  <2>4. ASSUME NEW i \in 1 .. n PROVE seen[i + 4] = p[i]
    <3>1. k - 1 + (i + 4) = k + 3 + i
        BY <1>7
    <3>2. seen[i + 4] = line[k + 3 + i]
        BY <2>3, <3>1
    <3> QED
        BY <1>3, <3>2
  <2>5. /\ seen[n + 5] = line[k + n + 4] /\ seen[n + 6] = line[k + n + 5]
        /\ seen[n + 7] = line[k + n + 6]
      BY <1>7, <2>2
  <2> QED
      BY <2>1, <2>4, <2>5
<1> DEFINE Match == /\ line[k] = FRAME_HEAD /\ line[k + 1] = FRAME_HEAD
                    /\ line[k + 2] = ExpectCmd /\ line[k + 3] = n
                    /\ line[k + n + 4] = Hi(p) /\ line[k + n + 5] = Lo(p)
                    /\ line[k + n + 6] = FRAME_TAIL
<1>10. ASSUME Match PROVE seen = whole
  <2>1. ASSUME NEW i \in 1 .. n + 7 PROVE seen[i] = whole[i]
    <3>1. \/ i = 1 \/ i = 2 \/ i = 3 \/ i = 4
          \/ i = n + 5 \/ i = n + 6 \/ i = n + 7 \/ i \in 5 .. n + 4
        BY <1>1
    <3>2. CASE i = 1 \/ i = 2 \/ i = 3 \/ i = 4
        BY <1>5, <1>9, <1>10, <3>2
    <3>3. CASE i = n + 5 \/ i = n + 6 \/ i = n + 7
        BY <1>5, <1>9, <1>10, <3>3
    <3>4. CASE i \in 5 .. n + 4
      <4>1. i - 4 \in 1 .. n /\ i = (i - 4) + 4
          BY <1>1, <3>4
      <4>2. \A j \in 1 .. n : seen[j + 4] = whole[j + 4]
          BY <1>5, <1>9
      <4> QED
          BY <4>1, <4>2
    <3> QED
        BY <3>1, <3>2, <3>3, <3>4
  <2> QED
      BY <1>4, <1>5, <2>1, SeqEqual
<1>11. ASSUME seen = whole PROVE Match
    BY <1>5, <1>9, <1>11
<1>12. TargetAt(k) <=> Match
    BY <1>6, <1>10, <1>11
<1> QED
    BY <1>3, <1>12 DEF n, p

\* What stands on the line when a frame is accepted, as one sequence.
LEMMA AcceptedWhole == ScanInv => AcceptedIsAFrame
<1> SUFFICES ASSUME ScanInv, stage = "accepted"
             PROVE  /\ taken >= FrameLen
                    /\ TargetAt(taken - FrameLen + 1)
                    /\ data = SubSeq(line, taken - 2 - ExpectLen, taken - 3)
    BY DEF AcceptedIsAFrame
<1> DEFINE n == ExpectLen
           h == taken - 3 - 4 - n
<1>1. /\ n \in 1 .. 253 /\ ExpectCmd \in Octet /\ line \in Seq(Octet)
      /\ taken \in 0 .. Len(line) /\ Len(line) \in Nat /\ body \in Seq(Octet)
  <2>1. ExpectLen \in 1 .. 253 /\ ExpectCmd \in 0 .. 253
      BY FrameAssumption DEF FrameAssumption
  <2>2. line \in Seq(Octet) /\ taken \in 0 .. Len(line) /\ body \in Seq(Octet)
      BY DEF ScanInv, ScanShape
  <2>3. Len(line) \in Nat
      BY <2>2
  <2>4. ExpectCmd \in Octet
      BY <2>1 DEF Octet
  <2> QED
      BY <2>1, <2>2, <2>3, <2>4
<1>2. /\ Len(body) = n /\ HeaderAt(h) /\ BodyAt(h)
      /\ recv = line[taken - 2] * 256 + line[taken - 1]
      /\ line[taken] = FRAME_TAIL /\ data = body
      /\ Checksum(<<ExpectCmd, ExpectLen>> \o body) = recv
    BY DEF ScanInv, Contents, Collected
<1>3. /\ h \in Nat /\ taken = h + n + 7 /\ FrameLen = n + 7
      /\ taken - FrameLen + 1 = h + 1 /\ taken - 2 = h + n + 5
      /\ taken - 1 = h + n + 6 /\ taken - 2 - ExpectLen = h + 5
      /\ taken - 3 = h + 4 + n
    BY <1>1, <1>2 DEF HeaderAt, FrameLen
<1>4. /\ line[h + 1] = FRAME_HEAD /\ line[h + 2] = FRAME_HEAD
      /\ line[h + 3] = ExpectCmd /\ line[h + 4] = n
      /\ \A i \in 1 .. n : body[i] = line[h + 4 + i]
    BY <1>2 DEF HeaderAt, BodyAt
<1> HIDE DEF n, h
<1>5. \A i \in 1 .. Len(line) : line[i] \in Octet
    BY <1>1
<1> DEFINE hi == line[h + n + 5]
           lo == line[h + n + 6]
<1>6. hi \in Octet /\ lo \in Octet
  <2>1. h + n + 5 \in 1 .. Len(line) /\ h + n + 6 \in 1 .. Len(line)
      BY <1>1, <1>3
  <2> QED
      BY <1>5, <2>1
<1>7. recv = hi * 256 + lo
    BY <1>2, <1>3
<1>8. recv \div 256 = hi /\ recv % 256 = lo
  <2> HIDE DEF hi, lo
  <2> QED
      BY <1>6, <1>7 DEF Octet
<1> HIDE DEF hi, lo
\* the payload
<1> DEFINE k == h + 1
           p == SubSeq(line, k + 4, k + 3 + ExpectLen)
<1>9. /\ k \in Nat \ {0} /\ k + ExpectLen + 6 <= Len(line)
      /\ k + 1 = h + 2 /\ k + 2 = h + 3 /\ k + 3 = h + 4 /\ k + ExpectLen + 4 = h + n + 5
      /\ k + ExpectLen + 5 = h + n + 6 /\ k + ExpectLen + 6 = taken
      /\ k + 4 = taken - 2 - ExpectLen /\ k + 3 + ExpectLen = taken - 3
    BY <1>1, <1>3 DEF n
<1>10. body = p
  <2> HIDE DEF k
  <2>1. /\ p \in Seq(Octet) /\ Len(p) = n
        /\ \A i \in 1 .. n : p[i] = line[k + 4 + i - 1]
    <3>1. /\ k + 4 \in Int /\ k + 3 + ExpectLen \in Int
          /\ (k + 3 + ExpectLen) - (k + 4) + 1 = n /\ k + 4 <= k + 3 + ExpectLen
          /\ \A i \in k + 4 .. k + 3 + ExpectLen : i \in 1 .. Len(line)
        BY <1>1, <1>9 DEF n
    <3>2. p = SubSeq(line, k + 4, k + 3 + ExpectLen)
        BY DEF p
    <3> HIDE DEF p
    <3> QED
        BY <1>5, <3>1, <3>2, SubSeqProperties
  <2>2. \A i \in 1 .. n : body[i] = line[k + 4 + i - 1]
    <3>1. \A i \in 1 .. n : k + 4 + i - 1 = h + 4 + i
        BY <1>1, <1>3 DEF k
    <3> QED
        BY <1>4, <3>1
  <2> HIDE DEF p
  <2>3. \A i \in 1 .. n : body[i] = p[i]
      BY <2>1, <2>2
  <2>4. Len(body) = Len(p)
      BY <1>2, <2>1 DEF n
  <2> QED
      BY <1>1, <1>2, <2>1, <2>3, <2>4, SeqEqual DEF n
<1>11. TargetAt(k)
  <2>1. /\ line[k] = FRAME_HEAD /\ line[k + 1] = FRAME_HEAD
        /\ line[k + 2] = ExpectCmd /\ line[k + 3] = ExpectLen
        /\ line[k + ExpectLen + 4] = hi /\ line[k + ExpectLen + 5] = lo
        /\ line[k + ExpectLen + 6] = FRAME_TAIL
      BY <1>2, <1>4, <1>8, <1>9 DEF n, hi, lo
  <2> HIDE DEF k
  <2>2. recv = Check(p)
      BY <1>2, <1>10 DEF Check
  <2> HIDE DEF p
  <2>3. p = PayloadAt(k)
      BY DEF p, PayloadAt
  <2>4. Hi(p) = hi /\ Lo(p) = lo
      BY <1>8, <2>2 DEF Hi, Lo
  <2>5. Hi(p) \in Octet /\ Lo(p) \in Octet
      BY <1>6, <2>4
  <2> QED
      BY <1>1, <1>9, <2>1, <2>3, <2>4, <2>5, TargetBytes
<1>12. taken >= FrameLen /\ k = taken - FrameLen + 1
    BY <1>1, <1>3
<1>13. body = SubSeq(line, taken - 2 - ExpectLen, taken - 3)
  <2>1. k + 4 = taken - 2 - ExpectLen /\ k + 3 + ExpectLen = taken - 3
      BY <1>9
  <2> HIDE DEF k
  <2> QED
      BY <1>10, <2>1
<1> QED
  <2> HIDE DEF k
  <2> QED
      BY <1>2, <1>11, <1>12, <1>13

\* What read_frame() accepts stands on the line as one whole frame with its
\* checksum, and its payload is what the caller gets: for every line of bytes,
\* every command and length that is asked for, and whatever was dropped before.
THEOREM AcceptedIsWhole == ScanSpec => []AcceptedIsAFrame
<1>1. ScanInit => ScanInv
    BY ScanStarts
<1>2. ScanInv /\ [ScanNext]_scan => ScanInv'
    BY ScanStep
<1> QED
    BY <1>1, <1>2, AcceptedWhole, PTL DEF ScanSpec

-----------------------------------------------------------------------------
(* Nor is a frame lost, unless it begins inside what the scan takes for the *)
(* payload or the checksum of another one.  Wherever else it begins, the    *)
(* scan follows it byte by byte to its end.                                 *)

\* Of the target behind k - 1 bytes, n have been taken and nothing else.
Following(k, n) ==
    /\ taken = k - 1 + n
    /\ \/ n = 0 /\ stage \in {"kHead1", "kHead2", "kCmd", "kLen", "kTail"}
       \/ n = 1 /\ stage \in {"kHead2", "kCmd"}
       \/ n = 2 /\ stage = "kCmd"
       \/ n = 3 /\ stage = "kLen"
       \/ n \in 4 .. 3 + ExpectLen /\ stage = "kPayload" /\ Len(body) = n - 4
       \/ n = 4 + ExpectLen /\ stage = "kCrcHi"
       \/ n = 5 + ExpectLen /\ stage = "kCrcLo"
       \/ n = 6 + ExpectLen /\ stage = "kTail"

\* The frame behind k - 1 bytes is accepted, and its payload handed over.
Accepts(k) ==
    stage' = "accepted" /\ data' = SubSeq(line, k + 4, k + 3 + ExpectLen)

\* A target frame of which n bytes are taken, and what the next byte does.
FollowsOn(k, n) ==
    IF n = 6 + ExpectLen THEN Accepts(k) ELSE Following(k, n + 1)' /\ line' = line

\* A checksum is its two bytes.
LEMMA TwoBytes ==
    ASSUME NEW c \in Nat, c \div 256 < 256
    PROVE  /\ c \div 256 \in Octet /\ c % 256 \in Octet
           /\ c = (c \div 256) * 256 + (c % 256)
    BY DEF Octet

\* A target on one of the lines that may arrive, byte by byte.
LEMMA TargetOnLine ==
    ASSUME line \in Lines, NEW k \in 1 .. Len(line) - FrameLen + 1, TargetAt(k)
    PROVE  /\ PayloadAt(k) \in Seq(Octet) /\ Len(PayloadAt(k)) = ExpectLen
           /\ \A i \in 1 .. ExpectLen : PayloadAt(k)[i] = line[k + 3 + i]
           /\ line[k] = FRAME_HEAD /\ line[k + 1] = FRAME_HEAD
           /\ line[k + 2] = ExpectCmd /\ line[k + 3] = ExpectLen
           /\ Check(PayloadAt(k))
                 = line[k + ExpectLen + 4] * 256 + line[k + ExpectLen + 5]
           /\ line[k + ExpectLen + 6] = FRAME_TAIL
<1> DEFINE p == PayloadAt(k)
<1>1. ExpectLen \in 1 .. 253 /\ line \in Seq(Octet)
    BY FrameAssumption DEF FrameAssumption, Octet
<1>2. Len(line) \in Nat
    BY <1>1
<1>3. /\ k \in Nat \ {0} /\ k + ExpectLen + 6 <= Len(line)
      /\ k + 4 \in 1 .. Len(line) - ExpectLen + 1
      /\ (k + 4) - 1 + ExpectLen = k + 3 + ExpectLen
    BY <1>1, <1>2 DEF FrameLen
<1>4. Check(p) \in Nat /\ Check(p) \div 256 < 256
  <2> DEFINE j == k + 4
  <2>1. /\ j \in 1 .. Len(line) - ExpectLen + 1
        /\ p = SubSeq(line, j, j - 1 + ExpectLen)
      BY <1>3 DEF PayloadAt
  <2> HIDE DEF j, p
  <2> DEFINE sum == Checksum(<<ExpectCmd, ExpectLen>>
                             \o SubSeq(line, j, j - 1 + ExpectLen))
  <2>2. sum \in Nat /\ sum \div 256 < 256
      BY <2>1, ChecksumAssumption DEF ChecksumAssumption
  <2>3. Check(p) = sum
      BY <2>1 DEF Check
  <2> QED
      BY <2>2, <2>3
<1> HIDE DEF p
<1>5. /\ Hi(p) \in Octet /\ Lo(p) \in Octet
      /\ Check(p) = Hi(p) * 256 + Lo(p)
    BY <1>4, TwoBytes DEF Hi, Lo
<1>6. /\ p \in Seq(Octet) /\ Len(p) = ExpectLen
      /\ \A i \in 1 .. ExpectLen : p[i] = line[k + 3 + i]
      /\ line[k] = FRAME_HEAD /\ line[k + 1] = FRAME_HEAD
      /\ line[k + 2] = ExpectCmd /\ line[k + 3] = ExpectLen
      /\ line[k + ExpectLen + 4] = Hi(p) /\ line[k + ExpectLen + 5] = Lo(p)
      /\ line[k + ExpectLen + 6] = FRAME_TAIL
  <2>1. Hi(PayloadAt(k)) \in Octet /\ Lo(PayloadAt(k)) \in Octet
      BY <1>5 DEF p
  <2> QED
      BY <1>1, <1>3, <2>1, TargetBytes DEF p
<1> QED
    BY <1>5, <1>6 DEF p

\* The first three bytes: the heads, whatever the scan took for heads before
\* them, and the command.
LEMMA FollowHeads ==
    ASSUME ScanInv, line \in Lines, ScanNext,
           NEW k \in 1 .. Len(line) - FrameLen + 1, TargetAt(k),
           NEW n \in 0 .. 2, Following(k, n)
    PROVE  FollowsOn(k, n)
<1>1. /\ ExpectLen \in 1 .. 253 /\ ExpectCmd \in 0 .. 253 /\ FRAME_HEAD = 254
      /\ FRAME_TAIL # FRAME_HEAD
    BY FrameAssumption DEF FrameAssumption, FRAME_HEAD, FRAME_TAIL
<1>2. /\ line[k] = FRAME_HEAD /\ line[k + 1] = FRAME_HEAD /\ line[k + 2] = ExpectCmd
    BY TargetOnLine
<1>3. /\ taken = k - 1 + n /\ n \in Nat /\ k \in Nat /\ taken < Len(line)
      /\ Len(line) \in Nat
  <2>1. line \in Seq(Octet)
      BY DEF ScanInv, ScanShape
  <2>2. Len(line) \in Nat
      BY <2>1
  <2> QED
      BY <1>1, <2>2 DEF Following, FrameLen
<1>4. Byte = line[k + n]
  <2>1. taken + 1 = k + n
      BY <1>3
  <2> QED
      BY <2>1 DEF Byte
<1>5. \/ n = 0 /\ stage \in {"kHead1", "kHead2", "kCmd", "kLen", "kTail"}
      \/ n = 1 /\ stage \in {"kHead2", "kCmd"}
      \/ n = 2 /\ stage = "kCmd"
    BY <1>1 DEF Following
<1>6. \/ Head1 /\ stage = "kHead1"
      \/ Head2 /\ stage = "kHead2"
      \/ Cmd /\ stage = "kCmd"
      \/ LenByte /\ stage = "kLen"
      \/ TailByte /\ stage = "kTail"
    BY <1>3, <1>5 DEF ScanNext, LenByte, Payload, CrcHi, CrcLo, TailByte, Deadline,
                      NextCall, In, Head1, Head2, Cmd
<1>7. line' = line /\ taken' = k - 1 + (n + 1)
  <2>1. line' = line /\ taken' = taken + 1
      BY <1>6 DEF Head1, Head2, Cmd, LenByte, TailByte, In
  <2> QED
      BY <1>3, <2>1
<1>8. \/ n = 0 /\ stage' \in {"kHead2", "kCmd"}
      \/ n = 1 /\ stage' = "kCmd"
      \/ n = 2 /\ stage' = "kLen"
  <2>1. CASE n = 0 \/ n = 1
    <3>1. Byte = FRAME_HEAD
        BY <1>2, <1>3, <1>4, <2>1
    <3> QED
        BY <1>1, <1>5, <1>6, <2>1, <3>1 DEF Head1, Head2, Cmd, LenByte, TailByte, Resync
  <2>2. CASE n = 2
    <3>1. Byte = ExpectCmd
        BY <1>2, <1>4, <2>2
    <3> QED
        BY <1>5, <1>6, <2>2, <3>1 DEF Cmd
  <2> QED
      BY <2>1, <2>2
<1>9. Following(k, n + 1)'
    BY <1>3, <1>7, <1>8 DEF Following
<1> QED
    BY <1>1, <1>3, <1>7, <1>9 DEF FollowsOn

\* From the length byte to the checksum.
LEMMA FollowBody ==
    ASSUME ScanInv, line \in Lines, ScanNext,
           NEW k \in 1 .. Len(line) - FrameLen + 1, TargetAt(k),
           NEW n \in 3 .. 5 + ExpectLen, Following(k, n)
    PROVE  FollowsOn(k, n)
<1>1. ExpectLen \in 1 .. 253
    BY FrameAssumption DEF FrameAssumption
<1>2. line[k + 3] = ExpectLen
    BY TargetOnLine
<1>3. /\ taken = k - 1 + n /\ n \in Nat /\ k \in Nat /\ taken < Len(line)
      /\ Len(line) \in Nat /\ body \in Seq(Octet) /\ Len(body) \in Nat
  <2>1. line \in Seq(Octet) /\ body \in Seq(Octet)
      BY DEF ScanInv, ScanShape
  <2>2. Len(line) \in Nat /\ Len(body) \in Nat
      BY <2>1
  <2> QED
      BY <1>1, <2>1, <2>2 DEF Following, FrameLen
<1>4. Byte = line[k + n]
  <2>1. taken + 1 = k + n
      BY <1>3
  <2> QED
      BY <2>1 DEF Byte
<1>5. \/ n = 3 /\ stage = "kLen"
      \/ n \in 4 .. 3 + ExpectLen /\ stage = "kPayload" /\ Len(body) = n - 4
      \/ n = 4 + ExpectLen /\ stage = "kCrcHi"
      \/ n = 5 + ExpectLen /\ stage = "kCrcLo"
    BY <1>1, <1>3 DEF Following
<1>6. \/ LenByte /\ stage = "kLen"
      \/ Payload /\ stage = "kPayload"
      \/ CrcHi /\ stage = "kCrcHi"
      \/ CrcLo /\ stage = "kCrcLo"
  <2>1. stage \in {"kLen", "kPayload", "kCrcHi", "kCrcLo"}
      BY <1>5
  <2> QED
      BY <1>3, <2>1 DEF ScanNext, LenByte, Payload, CrcHi, CrcLo, TailByte, Deadline,
                        NextCall, In, Head1, Head2, Cmd
<1>7. line' = line /\ taken' = k - 1 + (n + 1)
  <2>1. line' = line /\ taken' = taken + 1
      BY <1>6 DEF LenByte, Payload, CrcHi, CrcLo, In
  <2> QED
      BY <1>3, <2>1
<1>8. CASE stage = "kLen"
  <2>1. n = 3 /\ LenByte /\ Byte = ExpectLen
      BY <1>2, <1>4, <1>5, <1>6, <1>8
  <2>2. stage' = "kPayload" /\ Len(body') = 0
      BY <2>1 DEF LenByte
  <2>3. n + 1 \in 4 .. 3 + ExpectLen /\ Len(body') = (n + 1) - 4
      BY <1>1, <2>1, <2>2
  <2> QED
      BY <1>1, <1>7, <2>1, <2>2, <2>3 DEF FollowsOn, Following
<1>9. CASE stage = "kPayload"
  <2>1. Payload /\ n \in 4 .. 3 + ExpectLen /\ Len(body) = n - 4
      BY <1>5, <1>6, <1>9
  <2>2. Byte \in Octet
      BY <2>1, ScanTakes DEF Payload
  <2>3. Len(body') = Len(body) + 1
      BY <1>3, <2>1, <2>2, AppendProperties DEF Payload
  <2>4. Len(body') = (n + 1) - 4
      BY <1>3, <2>1, <2>3
  <2>5. CASE n = 3 + ExpectLen
    <3>1. stage' = "kCrcHi" /\ n + 1 = 4 + ExpectLen
        BY <1>1, <2>1, <2>4, <2>5 DEF Payload
    <3> QED
        BY <1>1, <1>7, <2>5, <3>1 DEF FollowsOn, Following
  <2>6. CASE n # 3 + ExpectLen
    <3>1. stage' = "kPayload" /\ n + 1 \in 4 .. 3 + ExpectLen
        BY <1>1, <2>1, <2>4, <2>6 DEF Payload
    <3> QED
        BY <1>1, <1>3, <1>7, <2>1, <2>4, <3>1 DEF FollowsOn, Following
  <2> QED
      BY <2>5, <2>6
<1>10. CASE stage = "kCrcHi"
  <2>1. n = 4 + ExpectLen /\ stage' = "kCrcLo"
      BY <1>5, <1>6, <1>10 DEF CrcHi
  <2>2. n + 1 = 5 + ExpectLen /\ n # 6 + ExpectLen
      BY <1>1, <2>1
  <2> QED
      BY <1>7, <2>1, <2>2 DEF FollowsOn, Following
<1>11. CASE stage = "kCrcLo"
  <2>1. n = 5 + ExpectLen /\ stage' = "kTail"
      BY <1>5, <1>6, <1>11 DEF CrcLo
  <2>2. n + 1 = 6 + ExpectLen /\ n # 6 + ExpectLen
      BY <1>1, <2>1
  <2> QED
      BY <1>7, <2>1, <2>2 DEF FollowsOn, Following
<1> QED
    BY <1>5, <1>8, <1>9, <1>10, <1>11

\* The last byte: the checksum fits, and the frame is accepted.
LEMMA FollowTail ==
    ASSUME ScanInv, line \in Lines, ScanNext,
           NEW k \in 1 .. Len(line) - FrameLen + 1, TargetAt(k),
           Following(k, 6 + ExpectLen)
    PROVE  FollowsOn(k, 6 + ExpectLen)
<1> DEFINE p == PayloadAt(k)
<1>1. /\ ExpectLen \in 1 .. 253 /\ body \in Seq(Octet)
      /\ k \in Nat /\ taken = k + 5 + ExpectLen /\ Len(line) \in Nat
      /\ taken < Len(line)
  <2>1. ExpectLen \in 1 .. 253 /\ body \in Seq(Octet) /\ line \in Seq(Octet)
      BY FrameAssumption DEF FrameAssumption, ScanInv, ScanShape
  <2>2. Len(line) \in Nat
      BY <2>1
  <2> QED
      BY <2>1, <2>2 DEF Following, FrameLen
<1>2. stage = "kTail"
    BY <1>1 DEF Following
<1>3. /\ p \in Seq(Octet) /\ Len(p) = ExpectLen
      /\ \A i \in 1 .. ExpectLen : p[i] = line[k + 3 + i]
      /\ Check(p) = line[k + ExpectLen + 4] * 256 + line[k + ExpectLen + 5]
      /\ line[k + ExpectLen + 6] = FRAME_TAIL
    BY TargetOnLine
<1> HIDE DEF p
<1>4. /\ Len(body) = ExpectLen /\ BodyAt(taken - 2 - 4 - ExpectLen)
      /\ recv = line[taken - 1] * 256 + line[taken]
    BY <1>2 DEF ScanInv, Contents, Collected
<1>5. /\ taken - 2 - 4 - ExpectLen = k - 1 /\ taken - 1 = k + ExpectLen + 4
      /\ taken = k + ExpectLen + 5 /\ taken + 1 = k + ExpectLen + 6
      /\ \A i \in 1 .. ExpectLen : (k - 1) + 4 + i = k + 3 + i
    BY <1>1
<1>6. body = p
  <2>1. BodyAt(k - 1)
      BY <1>4, <1>5
  <2>2. \A i \in 1 .. ExpectLen : body[i] = line[(k - 1) + 4 + i]
      BY <1>4, <2>1 DEF BodyAt
  <2>3. ASSUME NEW i \in 1 .. ExpectLen PROVE body[i] = p[i]
    <3>1. (k - 1) + 4 + i = k + 3 + i
        BY <1>5
    <3>2. body[i] = line[k + 3 + i]
        BY <2>2, <3>1
    <3> QED
        BY <1>3, <3>2
  <2> QED
      BY <1>1, <1>3, <1>4, <2>3, SeqEqual
<1>7. recv = Check(p) /\ Byte = FRAME_TAIL
    BY <1>3, <1>4, <1>5 DEF Byte
<1>8. TailByte
    BY <1>1, <1>2 DEF ScanNext, LenByte, Payload, CrcHi, CrcLo, TailByte, Deadline,
                      NextCall, In, Head1, Head2, Cmd
<1>9. stage' = "accepted" /\ data' = body
  <2>1. Checksum(<<ExpectCmd, ExpectLen>> \o body) = recv
      BY <1>6, <1>7 DEF Check
  <2> QED
      BY <1>7, <1>8, <2>1 DEF TailByte
<1> QED
    BY <1>6, <1>9 DEF FollowsOn, Accepts, p, PayloadAt

\* The byte in front of a target: the scan is behind a header that covers it, or
\* looks at its first byte.
LEMMA FollowStart ==
    ASSUME ScanInv, NEW k \in 1 .. Len(line) - FrameLen + 1, taken = k - 1,
           stage \notin {"accepted", "timeout"}
    PROVE  Following(k, 0) \/ \E j \in 1 .. k - 4 : Covers(j, k)
<1>1. /\ ExpectLen \in 1 .. 253 /\ k \in Nat /\ k >= 1 /\ stage \in Stages
      /\ body \in Seq(Octet) /\ Len(body) \in Nat
  <2>1. line \in Seq(Octet) /\ body \in Seq(Octet) /\ stage \in Stages
      BY DEF ScanInv, ScanShape
  <2>2. Len(line) \in Nat /\ Len(body) \in Nat
      BY <2>1
  <2> QED
      BY <2>1, <2>2, FrameAssumption DEF FrameAssumption
<1>2. ASSUME NEW h, HeaderAt(h), NEW c \in 0 .. ExpectLen + 1, taken = h + 4 + c
      PROVE  \E j \in 1 .. k - 4 : Covers(j, k)
  <2> DEFINE i == h + 1
  <2>1. /\ i \in 1 .. k - 4 /\ k \in i + 4 .. i + ExpectLen + 5
        /\ i + 1 = h + 2 /\ i + 2 = h + 3 /\ i + 3 = h + 4
      BY <1>1, <1>2 DEF HeaderAt
  <2>2. /\ line[h + 1] = FRAME_HEAD /\ line[h + 2] = FRAME_HEAD
        /\ line[h + 3] = ExpectCmd /\ line[h + 4] = ExpectLen
      BY <1>2 DEF HeaderAt
  <2>3. line[i] = FRAME_HEAD
      BY <2>2
  <2> HIDE DEF i
  <2> QED
      BY <2>1, <2>2, <2>3 DEF Covers
<1>3. CASE stage = "kPayload"
  <2> DEFINE m == Len(body)
             h == taken - 4 - m
  <2>1. m < ExpectLen /\ HeaderAt(h)
      BY <1>3 DEF ScanInv, Contents
  <2>2. m \in 0 .. ExpectLen + 1 /\ taken = h + 4 + m
      BY <1>1, <2>1
  <2> HIDE DEF m, h
  <2> QED
      BY <1>2, <2>1, <2>2
<1>4. CASE stage = "kCrcHi"
  <2> DEFINE h == taken - 0 - 4 - ExpectLen
  <2>1. HeaderAt(h)
      BY <1>4 DEF ScanInv, Contents, Collected
  <2>2. ExpectLen \in 0 .. ExpectLen + 1 /\ taken = h + 4 + ExpectLen
      BY <1>1
  <2> HIDE DEF h
  <2> QED
      BY <1>2, <2>1, <2>2
<1>5. CASE stage = "kCrcLo"
  <2> DEFINE h == taken - 1 - 4 - ExpectLen
  <2>1. HeaderAt(h)
      BY <1>5 DEF ScanInv, Contents, Collected
  <2>2. ExpectLen + 1 \in 0 .. ExpectLen + 1 /\ taken = h + 4 + (ExpectLen + 1)
      BY <1>1
  <2> HIDE DEF h
  <2> QED
      BY <1>2, <2>1, <2>2
<1>6. CASE stage \in {"kHead1", "kHead2", "kCmd", "kLen", "kTail"}
    BY <1>1, <1>6 DEF Following
<1> QED
    BY <1>1, <1>3, <1>4, <1>5, <1>6 DEF Stages

\* Every target that has begun is covered, followed, or just accepted.
FollowInv ==
    \A k \in 1 .. Len(line) - FrameLen + 1 :
        k <= taken /\ TargetAt(k) =>
            \/ stage = "accepted" /\ k = taken - FrameLen + 1
            \/ stage \notin {"accepted", "timeout"} /\ Following(k, taken - k + 1)
            \/ \E j \in 1 .. k - 4 : Covers(j, k)

\* One byte of a target leads on to the next.
LEMMA FollowStep ==
    ASSUME ScanInv, line \in Lines, ScanNext,
           NEW k \in 1 .. Len(line) - FrameLen + 1,
           NEW n \in 0 .. 6 + ExpectLen, Following(k, n), TargetAt(k)
    PROVE  FollowsOn(k, n)
<1>1. n \in 0 .. 2 \/ n \in 3 .. 5 + ExpectLen \/ n = 6 + ExpectLen
    BY FrameAssumption DEF FrameAssumption
<1> QED
    BY <1>1, FollowHeads, FollowBody, FollowTail

\* Where the targets and the headers stand depends on the line alone.
LEMMA SameLine ==
    ASSUME line' = line
    PROVE  /\ \A k : TargetAt(k)' <=> TargetAt(k)
           /\ \A j, k : Covers(j, k)' <=> Covers(j, k)
           /\ (Len(line) - FrameLen + 1)' = Len(line) - FrameLen + 1
    BY DEF TargetAt, Covers, Frame, FrameLen

\* A byte is taken: every target goes on being followed, or is accepted.
LEMMA FollowTakes ==
    ASSUME ScanInv, line \in Lines, FollowInv, ScanNext,
           stage \notin {"accepted", "timeout"}, line' = line, taken' = taken + 1
    PROVE  FollowInv'
<1>1. /\ ExpectLen \in 1 .. 253 /\ Len(line) \in Nat /\ taken \in Nat
  <2>1. line \in Seq(Octet) /\ taken \in Nat
      BY DEF ScanInv, ScanShape
  <2> QED
      BY <2>1, FrameAssumption DEF FrameAssumption
<1> SUFFICES ASSUME NEW k \in 1 .. Len(line) - FrameLen + 1,
                    k <= taken + 1, TargetAt(k)
             PROVE  \/ stage' = "accepted" /\ k = taken' - FrameLen + 1
                    \/ /\ stage' \notin {"accepted", "timeout"}
                       /\ Following(k, taken - k + 1)'
                    \/ \E j \in 1 .. k - 4 : Covers(j, k)
    BY SameLine DEF FollowInv
<1> PICK n \in Int : n = taken - k + 1
    BY <1>1 DEF FrameLen
<1>2. k \in Nat /\ n \in Int /\ taken = k - 1 + n
    BY <1>1 DEF FrameLen
<1>3. Following(k, n) \/ \E j \in 1 .. k - 4 : Covers(j, k)
  <2>1. CASE k <= taken
      BY <2>1 DEF FollowInv
  <2>2. CASE k = taken + 1
    <3>1. taken = k - 1 /\ n = 0
        BY <1>1, <1>2, <2>2
    <3> QED
        BY <3>1, FollowStart
  <2> QED
      BY <1>1, <1>2, <2>1, <2>2
<1>4. taken' = k - 1 + (n + 1) /\ (taken - k + 1)' = n + 1
    BY <1>1, <1>2
<1>5. ASSUME Following(k, n)
      PROVE  \/ stage' = "accepted" /\ k = taken' - FrameLen + 1
             \/ /\ stage' \notin {"accepted", "timeout"}
                /\ Following(k, n + 1)'
  <2>1. n \in 0 .. 6 + ExpectLen
      BY <1>1, <1>2, <1>5 DEF Following
  <2>2. FollowsOn(k, n)
      BY <1>5, <2>1, FollowStep
  <2>3. CASE n = 6 + ExpectLen
    <3>1. k = taken' - FrameLen + 1
        BY <1>1, <1>2, <1>4, <2>3 DEF FrameLen
    <3> QED
        BY <2>2, <2>3, <3>1 DEF FollowsOn, Accepts
  <2>4. CASE n # 6 + ExpectLen
    <3>1. Following(k, n + 1)'
        BY <2>2, <2>4 DEF FollowsOn
    <3>2. stage' \notin {"accepted", "timeout"}
        BY <3>1 DEF Following
    <3> QED
        BY <3>1, <3>2
  <2> QED
      BY <2>3, <2>4
<1> QED
    BY <1>3, <1>4, <1>5

\* A target that has come by whole is behind the scan.
LEMMA FollowEnds ==
    ASSUME ScanInv, FollowInv, NEW k \in 1 .. Len(line) - FrameLen + 1,
           k <= taken - FrameLen + 1, TargetAt(k)
    PROVE  \/ stage = "accepted" /\ k = taken - FrameLen + 1
           \/ \E j \in 1 .. k - 4 : Covers(j, k)
<1> DEFINE n == taken - k + 1
<1>1. ExpectLen \in 1 .. 253 /\ k \in Nat /\ taken \in Nat /\ Len(line) \in Nat
  <2>1. line \in Seq(Octet) /\ taken \in Nat
      BY DEF ScanInv, ScanShape
  <2>2. Len(line) \in Nat
      BY <2>1
  <2> QED
      BY <2>1, <2>2, FrameAssumption DEF FrameAssumption
<1>2. k <= taken /\ n \in Nat /\ n >= ExpectLen + 7
    BY <1>1 DEF FrameLen
<1> HIDE DEF n
<1>3. ~ Following(k, n)
    BY <1>1, <1>2 DEF Following
<1> QED
    BY <1>2, <1>3 DEF FollowInv, n

\* Every step keeps every target that has begun in view.
LEMMA FollowKeeps ==
    ASSUME ScanInv, line \in Lines, FollowInv, [ScanNext]_scan
    PROVE  FollowInv'
<1>1. ExpectLen \in 1 .. 253 /\ Len(line) \in Nat /\ taken \in Nat
  <2>1. line \in Seq(Octet) /\ taken \in Nat
      BY DEF ScanInv, ScanShape
  <2> QED
      BY <2>1, FrameAssumption DEF FrameAssumption
<1>2. CASE UNCHANGED scan
    BY <1>2, SameLine DEF scan, FollowInv, Following, FrameLen
<1>3. CASE \/ Head1 \/ Head2 \/ Cmd \/ LenByte \/ Payload \/ CrcHi \/ CrcLo
           \/ TailByte
  <2>1. /\ stage \notin {"accepted", "timeout"} /\ line' = line
        /\ taken' = taken + 1
      BY <1>3 DEF Head1, Head2, Cmd, LenByte, Payload, CrcHi, CrcLo, TailByte, In
  <2>2. ScanNext
      BY <1>3 DEF ScanNext
  <2> QED
      BY <2>1, <2>2, FollowTakes
<1>4. CASE Deadline
  <2>1. /\ stage \notin {"accepted", "timeout"} /\ line' = line
        /\ taken' = taken /\ taken = Len(line)
      BY <1>4 DEF Deadline
  <2> SUFFICES ASSUME NEW k \in 1 .. Len(line) - FrameLen + 1, TargetAt(k)
               PROVE  \E j \in 1 .. k - 4 : Covers(j, k)
      BY <2>1, SameLine DEF FollowInv
  <2>2. k <= taken - FrameLen + 1
      BY <1>1, <2>1 DEF FrameLen
  <2> QED
      BY <2>1, <2>2, FollowEnds
<1>5. CASE NextCall
  <2>1. taken' = 0
      BY <1>5 DEF NextCall, Start
  <2> QED
      BY <2>1 DEF FollowInv
<1> QED
    BY <1>2, <1>3, <1>4, <1>5 DEF ScanNext

\* For every line of bytes, command, length and checksum, a target frame that
\* has come by is accepted, unless it begins inside what an earlier header of
\* the same command and length takes for its payload and checksum: noise, echo
\* and damaged frames of any other kind cost read_frame() nothing.
THEOREM MissedIsCovered == ScanSpec => []OnlyCoveredIsMissed
<1> DEFINE OnLine == ScanInv /\ line \in Lines /\ FollowInv
<1>1. ScanInit => OnLine
  <2> SUFFICES ASSUME ScanInit PROVE FollowInv
      BY ScanStarts DEF ScanInit
  <2>1. taken = 0
      BY DEF ScanInit
  <2> QED
      BY <2>1 DEF FollowInv
<1>2. OnLine /\ [ScanNext]_scan => OnLine'
  <2> SUFFICES ASSUME OnLine, [ScanNext]_scan PROVE line' \in Lines
      BY ScanStep, FollowKeeps
  <2> QED
      BY DEF ScanNext, scan, Head1, Head2, Cmd, LenByte, Payload, CrcHi, CrcLo,
             TailByte, In, Deadline, NextCall, Start
<1>3. OnLine => OnlyCoveredIsMissed
  <2> SUFFICES ASSUME OnLine, NEW k \in 1 .. taken - FrameLen + 1, TargetAt(k)
               PROVE  \/ stage = "accepted" /\ k = taken - FrameLen + 1
                      \/ \E j \in 1 .. k - 4 : Covers(j, k)
      BY DEF OnlyCoveredIsMissed
  <2>1. taken \in Nat /\ taken <= Len(line) /\ Len(line) \in Nat
    <3>1. line \in Seq(Octet) /\ taken \in 0 .. Len(line)
        BY DEF ScanInv, ScanShape
    <3>2. Len(line) \in Nat
        BY <3>1
    <3> QED
        BY <3>1, <3>2
  <2>2. ExpectLen \in 1 .. 253
      BY FrameAssumption DEF FrameAssumption
  <2>3. k \in 1 .. Len(line) - FrameLen + 1 /\ k <= taken - FrameLen + 1
      BY <2>1, <2>2 DEF FrameLen
  <2> QED
      BY <2>3, FollowEnds
<1> QED
    BY <1>1, <1>2, <1>3, PTL DEF ScanSpec

-----------------------------------------------------------------------------
(* The checksums, bit by bit: one turn of either loop is eight steps of the *)
(* division it stands for, so that they agree for messages of any length.   *)

\* The bits of an exclusive or and of a shift.
LEMMA XorBits ==
    ASSUME NEW v, NEW w
    PROVE  /\ v \in Uint16 /\ w \in Uint16 => Xor(v, w) \in Uint16
           /\ \A i : i \in Xor(v, w) <=> ~(i \in v <=> i \in w)
    BY DEF Xor, Uint16

LEMMA ShiftBits ==
    ASSUME NEW w, NEW n \in Nat
    PROVE  /\ ShiftLeft(w, n) \in Uint16 /\ ShiftRight(w, n) \in Uint16
           /\ \A i \in 0 .. 15 : /\ i \in ShiftLeft(w, n) <=> i - n \in w
                                 /\ i \in ShiftRight(w, n) <=> i + n \in w
    BY DEF ShiftLeft, ShiftRight, Uint16

\* Words with the same bits are equal.
LEMMA SameBits ==
    ASSUME NEW v \in Uint16, NEW w \in Uint16,
           \A i \in 0 .. 15 : i \in v <=> i \in w
    PROVE  v = w
    BY DEF Uint16

\* The bits of v are those of w after one step of the division, and of the
\* reflected one.
Shifted(w, v) ==
    \A i \in 0 .. 15 :
        i \in v <=> ~((i > 0 /\ i - 1 \in w) <=> (i \in {0, 5, 12} /\ 15 \in w))

ShiftedBack(w, v) ==
    \A i \in 0 .. 15 :
        i \in v <=> ~((i < 15 /\ i + 1 \in w) <=> (i \in {0, 13, 15} /\ 0 \in w))

LEMMA DivideBits ==
    ASSUME NEW w \in Uint16
    PROVE  Divide(w) \in Uint16 /\ Shifted(w, Divide(w))
<1>1. \A i \in 0 .. 15 : i - 1 \in w => i > 0
    BY DEF Uint16
<1>2. \A i \in 0 .. 15 : i \in ShiftLeft(w, 1) <=> (i > 0 /\ i - 1 \in w)
    BY <1>1, ShiftBits
<1>3. ShiftLeft(w, 1) \in Uint16 /\ {0, 5, 12} \in Uint16
    BY ShiftBits DEF Uint16
<1>4. CASE 15 \in w
  <2>1. Divide(w) = Xor(ShiftLeft(w, 1), {0, 5, 12})
      BY <1>4 DEF Divide
  <2> QED
      BY <1>2, <1>3, <1>4, <2>1, XorBits DEF Shifted
<1>5. CASE 15 \notin w
  <2>1. Divide(w) = ShiftLeft(w, 1)
      BY <1>5 DEF Divide
  <2> QED
      BY <1>2, <1>3, <1>5, <2>1 DEF Shifted
<1> QED
    BY <1>4, <1>5

LEMMA ReflectedBits ==
    ASSUME NEW w \in Uint16
    PROVE  Reflected(w) \in Uint16 /\ ShiftedBack(w, Reflected(w))
<1>1. \A i \in 0 .. 15 : i + 1 \in w => i < 15
    BY DEF Uint16
<1>2. \A i \in 0 .. 15 : i \in ShiftRight(w, 1) <=> (i < 15 /\ i + 1 \in w)
    BY <1>1, ShiftBits
<1>3. ShiftRight(w, 1) \in Uint16 /\ {0, 13, 15} \in Uint16
    BY ShiftBits DEF Uint16
<1>4. CASE 0 \in w
  <2>1. Reflected(w) = Xor(ShiftRight(w, 1), {0, 13, 15})
      BY <1>4 DEF Reflected
  <2> QED
      BY <1>2, <1>3, <1>4, <2>1, XorBits DEF ShiftedBack
<1>5. CASE 0 \notin w
  <2>1. Reflected(w) = ShiftRight(w, 1)
      BY <1>5 DEF Reflected
  <2> QED
      BY <1>2, <1>3, <1>5, <2>1 DEF ShiftedBack
<1> QED
    BY <1>4, <1>5

\* One turn of the loop of crc16_ccitt() divides by one byte.
LEMMA XmodemStep ==
    ASSUME NEW w \in Uint16, NEW byte \in Uint8
    PROVE  Crc16Step(w, byte) \in Uint16 /\ Crc16Step(w, byte) = Remainder(w, byte)
<1> DEFINE w1 == ShiftRight(w, 8) \cup ShiftLeft(w, 8)
           w2 == Xor(w1, byte)
           w3 == Xor(w2, ShiftRight(LowByte(w2), 4))
           w4 == Xor(w3, ShiftLeft(w3, 12))
           w5 == Xor(w4, ShiftLeft(LowByte(w4), 5))
           x0 == Xor(w, ShiftLeft(byte, 8))
           x1 == Divide(x0)
           x2 == Divide(x1)
           x3 == Divide(x2)
           x4 == Divide(x3)
           x5 == Divide(x4)
           x6 == Divide(x5)
           x7 == Divide(x6)
           x8 == Divide(x7)
<1>1. Crc16Step(w, byte) = w5 /\ Remainder(w, byte) = x8
    BY DEF Crc16Step, Remainder, DivideByte
<1>2. /\ x0 \in Uint16
      /\ \A i \in 0 .. 15 : i \in x0 <=> ~(i \in w <=> (i >= 8 /\ i - 8 \in byte))
  <2>1. \A i \in 0 .. 15 : i - 8 \in byte => i >= 8
      BY DEF Uint8
  <2> QED
      BY <2>1, XorBits, ShiftBits
<1>3. /\ w2 \in Uint16
      /\ \A i \in 0 .. 15 : i \in w2 <=>
            IF i < 8 THEN ~(i + 8 \in w <=> i \in byte) ELSE i - 8 \in w
  <2>1. /\ w1 \in Uint16
        /\ \A i \in 0 .. 15 : i \in w1 <=> IF i < 8 THEN i + 8 \in w ELSE i - 8 \in w
    <3>1. \A i \in 0 .. 15 : (i + 8 \in w => i < 8) /\ (i - 8 \in w => i >= 8)
        BY DEF Uint16
    <3>2. w1 \in Uint16
        BY ShiftBits DEF Uint16
    <3> QED
        BY <3>1, <3>2, ShiftBits
  <2>2. byte \in Uint16 /\ \A i \in 0 .. 15 : i \in byte => i < 8
      BY DEF Uint8, Uint16
  <2> HIDE DEF w1
  <2> QED
      BY <2>1, <2>2, XorBits
<1> HIDE DEF w2, x0
<1>4. /\ w3 \in Uint16
      /\ \A i \in 0 .. 15 : i \in w3 <=> ~(i \in w2 <=> (i < 4 /\ i + 4 \in w2))
  <2>1. \A i \in 0 .. 15 :
            i \in ShiftRight(LowByte(w2), 4) <=> (i < 4 /\ i + 4 \in w2)
      BY ShiftBits DEF LowByte
  <2> QED
      BY <1>3, <2>1, XorBits, ShiftBits
<1> HIDE DEF w3
<1>5. /\ w4 \in Uint16
      /\ \A i \in 0 .. 15 : i \in w4 <=> ~(i \in w3 <=> (i >= 12 /\ i - 12 \in w3))
  <2>1. \A i \in 0 .. 15 : i \in ShiftLeft(w3, 12) <=> (i >= 12 /\ i - 12 \in w3)
    <3>1. \A i \in 0 .. 15 : i - 12 \in w3 => i >= 12
        BY <1>4 DEF Uint16
    <3> QED
        BY <3>1, ShiftBits
  <2> QED
      BY <1>4, <2>1, XorBits, ShiftBits
<1> HIDE DEF w4
<1>6. /\ w5 \in Uint16
      /\ \A i \in 0 .. 15 : i \in w5 <=>
            ~(i \in w4 <=> (i \in 5 .. 12 /\ i - 5 \in w4))
  <2>1. \A i \in 0 .. 15 :
            i \in ShiftLeft(LowByte(w4), 5) <=> (i \in 5 .. 12 /\ i - 5 \in w4)
      BY ShiftBits DEF LowByte
  <2> QED
      BY <1>5, <2>1, XorBits, ShiftBits
<1> HIDE DEF w5, x1, x2, x3, x4, x5, x6, x7, x8
<1>7. /\ x1 \in Uint16 /\ x2 \in Uint16 /\ x3 \in Uint16 /\ x4 \in Uint16
      /\ x5 \in Uint16 /\ x6 \in Uint16 /\ x7 \in Uint16 /\ x8 \in Uint16
    BY <1>2, DivideBits DEF x1, x2, x3, x4, x5, x6, x7, x8
<1>8. /\ Shifted(x0, x1) /\ Shifted(x1, x2) /\ Shifted(x2, x3) /\ Shifted(x3, x4)
      /\ Shifted(x4, x5) /\ Shifted(x5, x6) /\ Shifted(x6, x7) /\ Shifted(x7, x8)
    BY <1>2, <1>7, DivideBits DEF x1, x2, x3, x4, x5, x6, x7, x8
<1>9. \A i \in 0 .. 15 : i \in w5 <=> i \in x8
  <2>1. 0 \in w5 <=> 0 \in x8
      BY <1>2, <1>3, <1>4, <1>5, <1>6, <1>8 DEF Shifted
  <2>2. 1 \in w5 <=> 1 \in x8
      BY <1>2, <1>3, <1>4, <1>5, <1>6, <1>8 DEF Shifted
  <2>3. 2 \in w5 <=> 2 \in x8
      BY <1>2, <1>3, <1>4, <1>5, <1>6, <1>8 DEF Shifted
  <2>4. 3 \in w5 <=> 3 \in x8
      BY <1>2, <1>3, <1>4, <1>5, <1>6, <1>8 DEF Shifted
  <2>5. 4 \in w5 <=> 4 \in x8
      BY <1>2, <1>3, <1>4, <1>5, <1>6, <1>8 DEF Shifted
  <2>6. 5 \in w5 <=> 5 \in x8
      BY <1>2, <1>3, <1>4, <1>5, <1>6, <1>8 DEF Shifted
  <2>7. 6 \in w5 <=> 6 \in x8
      BY <1>2, <1>3, <1>4, <1>5, <1>6, <1>8 DEF Shifted
  <2>8. 7 \in w5 <=> 7 \in x8
      BY <1>2, <1>3, <1>4, <1>5, <1>6, <1>8 DEF Shifted
  <2>9. 8 \in w5 <=> 8 \in x8
      BY <1>2, <1>3, <1>4, <1>5, <1>6, <1>8 DEF Shifted
  <2>10. 9 \in w5 <=> 9 \in x8
      BY <1>2, <1>3, <1>4, <1>5, <1>6, <1>8 DEF Shifted
  <2>11. 10 \in w5 <=> 10 \in x8
      BY <1>2, <1>3, <1>4, <1>5, <1>6, <1>8 DEF Shifted
  <2>12. 11 \in w5 <=> 11 \in x8
      BY <1>2, <1>3, <1>4, <1>5, <1>6, <1>8 DEF Shifted
  <2>13. 12 \in w5 <=> 12 \in x8
      BY <1>2, <1>3, <1>4, <1>5, <1>6, <1>8 DEF Shifted
  <2>14. 13 \in w5 <=> 13 \in x8
      BY <1>2, <1>3, <1>4, <1>5, <1>6, <1>8 DEF Shifted
  <2>15. 14 \in w5 <=> 14 \in x8
      BY <1>2, <1>3, <1>4, <1>5, <1>6, <1>8 DEF Shifted
  <2>16. 15 \in w5 <=> 15 \in x8
      BY <1>2, <1>3, <1>4, <1>5, <1>6, <1>8 DEF Shifted
  <2> QED
      BY <2>1, <2>2, <2>3, <2>4, <2>5, <2>6, <2>7, <2>8, <2>9,
         <2>10, <2>11, <2>12, <2>13, <2>14, <2>15, <2>16
<1>10. w5 = x8
    BY <1>6, <1>7, <1>9, SameBits
<1> QED
    BY <1>1, <1>6, <1>10

\* Of a word the reflected division moves the upper byte down, and adds what it
\* leaves of the lower one.
LEMMA UpperByteMoves ==
    ASSUME NEW w \in Uint16
    PROVE  /\ ReflectedByte(w) \in Uint16
           /\ ReflectedByte(w) = Xor(ShiftRight(w, 8), ReflectedByte(LowByte(w)))
<1> DEFINE x0 == w
           x1 == Reflected(x0)
           x2 == Reflected(x1)
           x3 == Reflected(x2)
           x4 == Reflected(x3)
           x5 == Reflected(x4)
           x6 == Reflected(x5)
           x7 == Reflected(x6)
           x8 == Reflected(x7)
           z0 == LowByte(w)
           z1 == Reflected(z0)
           z2 == Reflected(z1)
           z3 == Reflected(z2)
           z4 == Reflected(z3)
           z5 == Reflected(z4)
           z6 == Reflected(z5)
           z7 == Reflected(z6)
           z8 == Reflected(z7)
<1>1. x0 \in Uint16
    OBVIOUS
<1>2. z0 \in Uint16 /\ \A i \in 0 .. 15 : i \in z0 <=> (i < 8 /\ i \in x0)
    BY DEF LowByte, Uint16
<1>3. ReflectedByte(w) = x8 /\ ReflectedByte(LowByte(w)) = z8
    BY DEF ReflectedByte
<1> HIDE DEF x0, x1, x2, x3, x4, x5, x6, x7, x8, z0, z1, z2, z3, z4, z5, z6, z7, z8
<1>4. /\ x1 \in Uint16 /\ x2 \in Uint16 /\ x3 \in Uint16 /\ x4 \in Uint16
      /\ x5 \in Uint16 /\ x6 \in Uint16 /\ x7 \in Uint16 /\ x8 \in Uint16
      /\ z1 \in Uint16 /\ z2 \in Uint16 /\ z3 \in Uint16 /\ z4 \in Uint16
      /\ z5 \in Uint16 /\ z6 \in Uint16 /\ z7 \in Uint16 /\ z8 \in Uint16
    BY <1>1, <1>2, ReflectedBits
       DEF x1, x2, x3, x4, x5, x6, x7, x8, z1, z2, z3, z4, z5, z6, z7, z8
<1>5. /\ ShiftedBack(x0, x1) /\ ShiftedBack(x1, x2) /\ ShiftedBack(x2, x3)
      /\ ShiftedBack(x3, x4) /\ ShiftedBack(x4, x5) /\ ShiftedBack(x5, x6)
      /\ ShiftedBack(x6, x7) /\ ShiftedBack(x7, x8)
    BY <1>1, <1>4, ReflectedBits DEF x1, x2, x3, x4, x5, x6, x7, x8
<1>6. /\ ShiftedBack(z0, z1) /\ ShiftedBack(z1, z2) /\ ShiftedBack(z2, z3)
      /\ ShiftedBack(z3, z4) /\ ShiftedBack(z4, z5) /\ ShiftedBack(z5, z6)
      /\ ShiftedBack(z6, z7) /\ ShiftedBack(z7, z8)
    BY <1>2, <1>4, ReflectedBits DEF z1, z2, z3, z4, z5, z6, z7, z8
<1>7. \A i \in 0 .. 15 : i \in x8 <=> ~((i < 8 /\ i + 8 \in x0) <=> i \in z8)
  <2>1. 0 \in x8 <=> ~(8 \in x0 <=> 0 \in z8)
      BY <1>1, <1>2, <1>5, <1>6 DEF ShiftedBack
  <2>2. 1 \in x8 <=> ~(9 \in x0 <=> 1 \in z8)
      BY <1>1, <1>2, <1>5, <1>6 DEF ShiftedBack
  <2>3. 2 \in x8 <=> ~(10 \in x0 <=> 2 \in z8)
      BY <1>1, <1>2, <1>5, <1>6 DEF ShiftedBack
  <2>4. 3 \in x8 <=> ~(11 \in x0 <=> 3 \in z8)
      BY <1>1, <1>2, <1>5, <1>6 DEF ShiftedBack
  <2>5. 4 \in x8 <=> ~(12 \in x0 <=> 4 \in z8)
      BY <1>1, <1>2, <1>5, <1>6 DEF ShiftedBack
  <2>6. 5 \in x8 <=> ~(13 \in x0 <=> 5 \in z8)
      BY <1>1, <1>2, <1>5, <1>6 DEF ShiftedBack
  <2>7. 6 \in x8 <=> ~(14 \in x0 <=> 6 \in z8)
      BY <1>1, <1>2, <1>5, <1>6 DEF ShiftedBack
  <2>8. 7 \in x8 <=> ~(15 \in x0 <=> 7 \in z8)
      BY <1>1, <1>2, <1>5, <1>6 DEF ShiftedBack
  <2>9. 8 \in x8 <=> 8 \in z8
      BY <1>1, <1>2, <1>5, <1>6 DEF ShiftedBack
  <2>10. 9 \in x8 <=> 9 \in z8
      BY <1>1, <1>2, <1>5, <1>6 DEF ShiftedBack
  <2>11. 10 \in x8 <=> 10 \in z8
      BY <1>1, <1>2, <1>5, <1>6 DEF ShiftedBack
  <2>12. 11 \in x8 <=> 11 \in z8
      BY <1>1, <1>2, <1>5, <1>6 DEF ShiftedBack
  <2>13. 12 \in x8 <=> 12 \in z8
      BY <1>1, <1>2, <1>5, <1>6 DEF ShiftedBack
  <2>14. 13 \in x8 <=> 13 \in z8
      BY <1>1, <1>2, <1>5, <1>6 DEF ShiftedBack
  <2>15. 14 \in x8 <=> 14 \in z8
      BY <1>1, <1>2, <1>5, <1>6 DEF ShiftedBack
  <2>16. 15 \in x8 <=> 15 \in z8
      BY <1>1, <1>2, <1>5, <1>6 DEF ShiftedBack
  <2> QED
      BY <2>1, <2>2, <2>3, <2>4, <2>5, <2>6, <2>7, <2>8, <2>9,
         <2>10, <2>11, <2>12, <2>13, <2>14, <2>15, <2>16
<1>8. x8 = Xor(ShiftRight(w, 8), z8)
  <2>1. \A i \in 0 .. 15 : i + 8 \in w => i < 8
      BY DEF Uint16
  <2>2. \A i \in 0 .. 15 : i \in x8 <=> i \in Xor(ShiftRight(w, 8), z8)
      BY <1>7, <2>1, XorBits, ShiftBits DEF x0
  <2>3. Xor(ShiftRight(w, 8), z8) \in Uint16
      BY <1>4, XorBits, ShiftBits
  <2> QED
      BY <1>4, <2>2, <2>3, SameBits
<1> QED
    BY <1>3, <1>4, <1>8

\* One turn of the loop of calculate_crc() divides by one byte, if the tables hold
\* what is left of each.
LEMMA ModbusTurn ==
    ASSUME NEW m \in [hi : Uint8, lo : Uint8], NEW byte \in Uint8
    PROVE  /\ ModbusStep(m, byte) \in [hi : Uint8, lo : Uint8]
           /\ ModbusCrc(ModbusStep(m, byte)) = ReflectedRemainder(ModbusCrc(m), byte)
<1> DEFINE index == Xor(m.lo, byte)
           hi == Bits(aucCRCHi[Number(index)])
           lo == Bits(aucCRCLo[Number(index)])
           w == Xor(ModbusCrc(m), byte)
<1>1. /\ m.lo \in Uint8 /\ m.hi \in Uint8 /\ index \in Uint8
      /\ hi \in Uint8 /\ lo \in Uint8
    BY DEF Xor, Uint8, Bits
<1>2. ModbusStep(m, byte) = [lo |-> Xor(m.hi, hi), hi |-> lo]
    BY DEF ModbusStep
<1>3. ReflectedByte(index) = ShiftLeft(lo, 8) \cup hi
    BY <1>1, TablesAssumption DEF TablesAssumption, ModbusCrc
<1> HIDE DEF hi, lo
<1>4. /\ w \in Uint16 /\ LowByte(w) = index /\ ShiftRight(w, 8) = m.hi
  <2>1. \A i \in 0 .. 15 : i - 8 \in m.hi <=> (i >= 8 /\ i - 8 \in m.hi)
      BY <1>1 DEF Uint8
  <2>2. /\ ModbusCrc(m) \in Uint16
        /\ \A i \in 0 .. 15 : i \in ModbusCrc(m) <=>
              (i >= 8 /\ i - 8 \in m.hi) \/ i \in m.lo
      BY <1>1, <2>1, ShiftBits DEF ModbusCrc, Uint8, Uint16
  <2>3. byte \in Uint16
      BY DEF Uint8, Uint16
  <2>4. /\ w \in Uint16
        /\ \A i \in 0 .. 15 : i \in w <=>
              ~(((i >= 8 /\ i - 8 \in m.hi) \/ i \in m.lo) <=> i \in byte)
      BY <2>2, <2>3, XorBits
  <2> HIDE DEF w
  <2>5. LowByte(w) = index
      BY <1>1, <2>4, XorBits DEF LowByte, Uint8, Uint16
  <2>6. \A i \in 0 .. 15 : i \in ShiftRight(w, 8) <=> i \in m.hi
    <3>1. \A i \in 0 .. 15 : i + 8 \in w => i < 8
        BY <2>4 DEF Uint16
    <3>2. \A i \in 0 .. 7 : i + 8 \in w <=> i \in m.hi
        BY <1>1, <2>4 DEF Uint8
    <3> QED
        BY <1>1, <3>1, <3>2, ShiftBits DEF Uint8
  <2>7. m.hi \in Uint16
      BY <1>1 DEF Uint8, Uint16
  <2> QED
      BY <2>4, <2>5, <2>6, <2>7, ShiftBits, SameBits
<1>5. ReflectedRemainder(ModbusCrc(m), byte) = Xor(m.hi, ShiftLeft(lo, 8) \cup hi)
  <2> HIDE DEF w, index
  <2>1. ReflectedByte(w) = Xor(m.hi, ShiftLeft(lo, 8) \cup hi)
      BY <1>3, <1>4, UpperByteMoves
  <2> QED
      BY <2>1 DEF ReflectedRemainder, w
<1>6. Xor(m.hi, ShiftLeft(lo, 8) \cup hi) = ShiftLeft(lo, 8) \cup Xor(m.hi, hi)
  <2>1. \A i \in ShiftLeft(lo, 8) : i >= 8 /\ i \notin m.hi /\ i \notin hi
      BY <1>1 DEF ShiftLeft, Uint8
  <2> QED
      BY <2>1 DEF Xor
<1>7. Xor(m.hi, hi) \in Uint8
    BY <1>1 DEF Xor, Uint8
<1> QED
    BY <1>1, <1>2, <1>5, <1>6, <1>7 DEF ModbusCrc

\* However long the message, crc16_ccitt() computes CRC-16/XMODEM.
THEOREM SumIsXmodem == SumSpec => []IsXmodem
<1> DEFINE Divided == crc \in Uint16 /\ IsXmodem
<1>1. SumInit => Divided
    BY DEF SumInit, IsXmodem, Uint16
<1>2. Divided /\ [SumNext]_sums => Divided'
  <2> SUFFICES ASSUME Divided, [SumNext]_sums PROVE Divided'
      OBVIOUS
  <2>1. CASE UNCHANGED sums
      BY <2>1 DEF sums, IsXmodem
  <2>2. ASSUME NEW byte \in Uint8, Extend(byte) PROVE Divided'
      BY <2>2, XmodemStep DEF Extend, IsXmodem
  <2> QED
      BY <2>1, <2>2, CrcAssumption DEF SumNext, CrcAssumption
<1> QED
    BY <1>1, <1>2, PTL DEF SumSpec

\* However long the message, calculate_crc() computes the Modbus checksum.
THEOREM SumIsModbus == SumSpec => []IsModbus
<1> DEFINE Divided == modbus \in [hi : Uint8, lo : Uint8] /\ IsModbus
<1>1. SumInit => Divided
  <2> SUFFICES ASSUME SumInit PROVE Divided
      OBVIOUS
  <2>1. modbus = [hi |-> 0 .. 7, lo |-> 0 .. 7] /\ reflected = 0 .. 15
      BY DEF SumInit, ModbusStart
  <2>2. \A i \in 0 .. 15 : i \in ShiftLeft(0 .. 7, 8) <=> i >= 8
      BY ShiftBits
  <2>3. ShiftLeft(0 .. 7, 8) \cup 0 .. 7 = 0 .. 15
      BY <2>2 DEF ShiftLeft
  <2> QED
      BY <2>1, <2>3 DEF IsModbus, ModbusCrc, Uint8
<1>2. Divided /\ [SumNext]_sums => Divided'
  <2> SUFFICES ASSUME Divided, [SumNext]_sums PROVE Divided'
      OBVIOUS
  <2>1. CASE UNCHANGED sums
      BY <2>1 DEF sums, IsModbus
  <2>2. ASSUME NEW byte \in Uint8, Extend(byte) PROVE Divided'
      BY <2>2, ModbusTurn DEF Extend, IsModbus
  <2> QED
      BY <2>1, <2>2, CrcAssumption DEF SumNext, CrcAssumption
<1> QED
    BY <1>1, <1>2, PTL DEF SumSpec
=============================================================================

-------------------------- MODULE ScudClientProofs --------------------------
(***************************************************************************)
(* Safety of the SCUD485 client driver for every number of callers, every  *)
(* lag, staleness limit and buffer size: the cache is never torn, a        *)
(* session's freshness is its own, and the driver implements Freshness.    *)
(***************************************************************************)
EXTENDS ScudClient, SequenceTheorems, TLAPS

\* The second fragment of the record whose first fragment is f.
Rest(f) == Part(f.at, f.power, 2)

-----------------------------------------------------------------------------
(* The inductive invariant, part by part.                                  *)

\* The reader's socket, connected_ and the reader's position agree, and a
\* reader without a socket knows nothing, except halfway through disconnect().
SessionInv ==
    /\ connected <=> conn # "none"
    /\ conn = "open" => daemon # "down"
    /\ reader \in {"poll", "read", "store", "stamp", "drop"} => conn # "none"
    /\ reader \in {"connect", "forget", "sleep", "joined"} => conn = "none"
    /\ conn = "none" => stream = <<>> /\ wire = <<>>
    /\ conn = "none" /\ reader # "forget" => lastRx = -1 /\ ~earned
    /\ reader \in {"stamp", "drop", "forget", "sleep", "joined"} => wire = <<>>
    /\ reader = "store" <=> Len(wire) = 2

\* What is in the reader's hands starts at a record boundary.
WireInv ==
    /\ Len(wire) <= 2
    /\ Len(wire) > 0 => wire[1].part = 1
    /\ Len(wire) = 2 => wire[2] = Rest(wire[1])

\* The socket continues what is in the reader's hands, fragment by fragment.
StreamInv ==
    reader # "drop" =>
        /\ Len(stream) > 0 /\ Len(wire) = 1 => stream[1] = Rest(wire[1])
        /\ Len(stream) > 0 /\ Len(wire) # 1 => stream[1].part = 1
        /\ \A i \in 1 .. Len(stream) - 1 :
              /\ stream[i].part = 1 => stream[i + 1] = Rest(stream[i])
              /\ stream[i].part = 2 => stream[i + 1].part = 1

\* A daemon that can still write has only written whole records.
WholeInv ==
    reader # "drop" /\ conn = "open" /\ daemon \in {"up", "stuck"} =>
        /\ Len(stream) > 0 => stream[Len(stream)].part = 2
        /\ Len(stream) = 0 => Len(wire) # 1

\* Fragments are stamped in time: this is what Tick waits for.
LagInv ==
    /\ \A i \in 1 .. Len(stream) :
          stream[i].at <= now /\ now <= stream[i].at + MaxLag
    /\ \A i \in 1 .. Len(wire) :
          wire[i].at <= now /\ now <= wire[i].at + MaxLag
    /\ reader = "stamp" => now <= cached[1].at + MaxLag

\* The cache holds a whole record or the initial zeros.
CacheInv ==
    /\ cached # <<>> =>
          /\ Len(cached) = 2
          /\ cached[1].part = 1 /\ cached[1].at <= now
          /\ cached[2] = Rest(cached[1])
    /\ earned => cached # <<>>
    /\ reader = "stamp" => earned

IInv == /\ TypeOK /\ SessionInv /\ WireInv /\ StreamInv /\ WholeInv
        /\ LagInv /\ CacheInv /\ FreshnessEarned
        /\ lastRx <= now
-----------------------------------------------------------------------------
(* Sequences of fragments.                                                 *)

\* What the proofs below need of a sequence of fragments.
LEMMA FragmentSeq ==
  ASSUME NEW s \in Seq(Fragment)
  PROVE  /\ Len(s) \in Nat
         /\ s = <<>> <=> Len(s) = 0
         /\ \A i \in 1 .. Len(s) : s[i].at \in Nat /\ s[i].part \in {1, 2}
<1>1. \A i \in 1 .. Len(s) : s[i] \in Fragment
  OBVIOUS
<1>2. \A f \in Fragment : f.at \in Nat /\ f.part \in {1, 2}
  BY DEF Fragment
<1>3. Len(s) \in Nat /\ (s = <<>> <=> Len(s) = 0)
  OBVIOUS
<1> QED
  BY <1>1, <1>2, <1>3

-----------------------------------------------------------------------------
(* Type correctness.                                                       *)

\* Every step of the driver, the daemon and the callers keeps the types.
LEMMA TypeNext == TypeOK /\ [Next]_vars => TypeOK'
<1> SUFFICES ASSUME TypeOK, [Next]_vars PROVE TypeOK'
  OBVIOUS
<1> USE ClientAssumption DEF TypeOK, daemonVars, readerVars
<1>1. CASE UNCHANGED vars
  BY <1>1 DEF vars, history
<1>2. Witness => justified' \in [Callers -> BOOLEAN]
  BY DEF Witness
<1>3. ASSUME Tick, Witness PROVE TypeOK'
  BY <1>3, <1>2 DEF Tick, Fragment, Part
<1>4. ASSUME DaemonUp, Witness PROVE TypeOK'
  BY <1>4, <1>2 DEF DaemonUp, Fragment, Part
<1>5. ASSUME DaemonWrite, Witness PROVE TypeOK'
  BY <1>5, <1>2 DEF DaemonWrite, Fragment, Part
<1>6. ASSUME ShortWrite, Witness PROVE TypeOK'
  BY <1>6, <1>2 DEF ShortWrite, Fragment, Part
<1>7. ASSUME DaemonExit, Witness PROVE TypeOK'
  BY <1>7, <1>2 DEF DaemonExit, Fragment, Part
<1>8. ASSUME SocketHeld, Witness PROVE TypeOK'
  BY <1>8, <1>2 DEF SocketHeld, Fragment, Part
<1>9. ASSUME TryConnect, Witness PROVE TypeOK'
  BY <1>9, <1>2 DEF TryConnect, Fragment, Part
<1>10. ASSUME ConnectFails, Witness PROVE TypeOK'
  BY <1>10, <1>2 DEF ConnectFails, Fragment, Part
<1>11. ASSUME Wake, Witness PROVE TypeOK'
  BY <1>11, <1>2 DEF Wake, Fragment, Part
<1>12. ASSUME PollTimeout, Witness PROVE TypeOK'
  <2>1. wire' = wire \/ wire' = <<>>
    BY <1>12 DEF PollTimeout
  <2>2. wire' \in Seq(Fragment) /\ Len(wire') <= 2
    <3>1. CASE wire' = wire
      BY <3>1
    <3>2. CASE wire' = <<>>
      BY <3>2
    <3> QED
      BY <2>1, <3>1, <3>2
  <2>3. reader' \in {"drop", "top"}
    BY <1>12 DEF PollTimeout
  <2> QED
    BY <1>12, <1>2, <2>2, <2>3 DEF PollTimeout
<1>13. ASSUME PollGone, Witness PROVE TypeOK'
  BY <1>13, <1>2 DEF PollGone, Fragment, Part
<1>14. ASSUME PollReady, Witness PROVE TypeOK'
  BY <1>14, <1>2 DEF PollReady, Fragment, Part
<1>15. ASSUME Read, Witness PROVE TypeOK'
  <2>1. PICK n \in 1 .. 2 - Len(wire) :
           /\ n <= Len(stream)
           /\ wire' = wire \o SubSeq(stream, 1, n)
           /\ stream' = SubSeq(stream, n + 1, Len(stream))
    BY <1>15 DEF Read
  <2>2. SubSeq(stream, 1, n) \in Seq(Fragment)
    BY <2>1, SubSeqProperties
  <2>3. stream' \in Seq(Fragment)
    BY <2>1, SubSeqProperties
  <2>4. wire' \in Seq(Fragment)
    BY <2>1, <2>2, ConcatProperties
  <2> QED
    BY <1>15, <1>2, <2>3, <2>4 DEF Read
<1>16. ASSUME IoFails, Witness PROVE TypeOK'
  BY <1>16, <1>2 DEF IoFails, Fragment, Part
<1>17. ASSUME Store, Witness PROVE TypeOK'
  BY <1>17, <1>2 DEF Store, Fragment, Part
<1>18. ASSUME Stamp, Witness PROVE TypeOK'
  BY <1>18, <1>2 DEF Stamp, Fragment, Part
<1>19. ASSUME Drop, Witness PROVE TypeOK'
  BY <1>19, <1>2, <<>> \in Seq(Fragment) DEF Drop
<1>20. ASSUME Forget, Witness PROVE TypeOK'
  BY <1>20, <1>2 DEF Forget, Fragment, Part
<1>21. ASSUME Destroy, Witness PROVE TypeOK'
  BY <1>21, <1>2 DEF Destroy, Fragment, Part
<1>22. ASSUME Join, Witness PROVE TypeOK'
  BY <1>22, <1>2 DEF Join, Fragment, Part
<1>23. ASSUME Stall \/ Resume, Witness PROVE TypeOK'
  BY <1>23, <1>2 DEF Stall, Resume, Fragment, Part
<1>24. ASSUME Connected, Witness PROVE TypeOK'
  BY <1>24, <1>2, <<>> \in Seq(Fragment) DEF Connected
<1>40. ASSUME NEW c \in Callers, CallerStep(c), Witness PROVE TypeOK'
  <2> USE DEF Goto, Frame, Idle, Call
  <2>1. CASE CallConnected(c)
    BY <1>2, <1>40, <2>1 DEF CallConnected
  <2>2. CASE CallPower(c)
    BY <1>2, <1>40, <2>2 DEF CallPower
  <2>3. CASE LoadRx(c)
    BY <1>2, <1>40, <2>3 DEF LoadRx
  <2>4. CASE ReadClock(c)
    BY <1>2, <1>40, <2>4 DEF ReadClock
  <2>5. CASE ReadPower(c)
    BY <1>2, <1>40, <2>5 DEF ReadPower
  <2>6. CASE Return(c)
    BY <1>2, <1>40, <2>6 DEF Return
  <2> QED
    BY <1>40, <2>1, <2>2, <2>3, <2>4, <2>5, <2>6 DEF CallerStep
<1> QED
  BY <1>1, <1>3, <1>4, <1>5, <1>6, <1>7, <1>8, <1>9, <1>10, <1>11, <1>12,
     <1>13, <1>14, <1>15, <1>16, <1>17, <1>18, <1>19, <1>20, <1>21, <1>22,
     <1>23, <1>24, <1>40
  DEF Next, DaemonStep, ReaderStep

-----------------------------------------------------------------------------
(* The invariant is inductive.                                             *)

\* The constructor's state satisfies the invariant.
LEMMA InitIInv == Init => IInv
<1> SUFFICES ASSUME Init PROVE IInv
  OBVIOUS
<1> USE DEF Init
<1>1. call \in [Callers -> Call] /\ justified \in [Callers -> BOOLEAN]
  BY DEF Call, Idle, Frame
<1>2. <<>> \in Seq(Fragment) /\ Len(<<>>) = 0
  OBVIOUS
<1>3. TypeOK
  <2>1. call \in [Callers -> Call]
    BY <1>1
  <2>2. justified \in [Callers -> BOOLEAN]
    BY <1>1
  <2>3. wire \in Seq(Fragment) /\ Len(wire) <= 2
    BY <1>2
  <2>4. stream \in Seq(Fragment) /\ cached \in Seq(Fragment)
    BY <1>2
  <2> HIDE DEF Init
  <2>5. /\ now \in Nat /\ daemon \in {"down", "up", "stuck", "dying"}
        /\ conn \in {"none", "open", "hup"}
        /\ reader \in {"top", "connect", "sleep", "poll", "read", "store",
                       "stamp", "drop", "forget", "joined"}
        /\ running \in BOOLEAN /\ connected \in BOOLEAN
        /\ lastRx \in Nat \cup {-1} /\ earned \in BOOLEAN
    BY DEF Init
  <2> QED
    BY <2>1, <2>2, <2>3, <2>4, <2>5 DEF TypeOK
<1>4. SessionInv /\ WireInv /\ StreamInv /\ WholeInv
  BY <1>2 DEF SessionInv, WireInv, StreamInv, WholeInv
<1>5. LagInv /\ CacheInv /\ FreshnessEarned /\ lastRx <= now
  BY <1>2 DEF LagInv, CacheInv, FreshnessEarned
<1> QED
  BY <1>3, <1>4, <1>5 DEF IInv

\* One read() keeps the record boundary, however it is cut.
LEMMA ReadInv ==
  ASSUME IInv, Read, TypeOK'
  PROVE  SessionInv' /\ WireInv' /\ StreamInv' /\ WholeInv' /\ LagInv'
<1>1. /\ stream \in Seq(Fragment) /\ wire \in Seq(Fragment)
      /\ stream' \in Seq(Fragment) /\ wire' \in Seq(Fragment)
      /\ Len(wire) \in {0, 1} /\ reader = "read"
  <2>1. TypeOK
    BY DEF IInv
  <2>2. Len(wire) \in Nat
    BY <2>1, FragmentSeq DEF TypeOK
  <2>3. Len(wire) <= 2 /\ Len(wire) # 2 /\ reader = "read"
    BY DEF IInv, WireInv, SessionInv, Read
  <2>4. /\ stream \in Seq(Fragment) /\ wire \in Seq(Fragment)
        /\ stream' \in Seq(Fragment) /\ wire' \in Seq(Fragment)
    BY <2>1 DEF TypeOK
  <2>5. \A k \in Nat : k <= 2 /\ k # 2 => k \in {0, 1}
    OBVIOUS
  <2>6. Len(wire) \in {0, 1}
    BY <2>2, <2>3, <2>5
  <2> QED
    BY <2>3, <2>4, <2>6
<1>2. PICK n \in 1 .. 2 - Len(wire) :
         /\ n <= Len(stream)
         /\ wire' = wire \o SubSeq(stream, 1, n)
         /\ stream' = SubSeq(stream, n + 1, Len(stream))
  BY DEF Read
<1>3. /\ Len(wire') = Len(wire) + n
      /\ \A i \in 1 .. Len(wire) : wire'[i] = wire[i]
      /\ \A i \in 1 .. n : wire'[Len(wire) + i] = stream[i]
  BY <1>1, <1>2
<1>4. /\ Len(stream') = Len(stream) - n
      /\ \A i \in 1 .. Len(stream') : stream'[i] = stream[i + n]
  <2>1. /\ Len(stream) \in Nat /\ n \in Int /\ n + 1 \in Int /\ n >= 1
        /\ \A i \in n + 1 .. Len(stream) : i \in 1 .. Len(stream)
    BY <1>1, <1>2
  <2>2. \A i \in n + 1 .. Len(stream) : stream[i] \in Fragment
    BY <1>1, <2>1
  <2>3. /\ Len(stream') = IF n + 1 <= Len(stream) THEN Len(stream) - (n + 1) + 1
                                                 ELSE 0
        /\ \A i \in 1 .. Len(stream) - (n + 1) + 1 :
              stream'[i] = stream[(n + 1) + i - 1]
    BY <1>2, <2>1, <2>2, SubSeqProperties
  <2>4. Len(stream') = Len(stream) - n
    BY <1>2, <2>1, <2>3
  <2>5. \A i \in 1 .. Len(stream') :
           /\ i \in 1 .. Len(stream) - (n + 1) + 1
           /\ (n + 1) + i - 1 = i + n
    BY <2>1, <2>4
  <2> QED
    BY <2>3, <2>4, <2>5
<1>5. Len(stream) \in Nat /\ Len(stream) >= n /\ n \in {1, 2}
  BY <1>1, <1>2, FragmentSeq
<1>6. \A i \in 1 .. Len(stream) : stream[i].part \in {1, 2}
  BY <1>1, FragmentSeq
<1>7. /\ Len(wire) = 1 => stream[1] = Rest(wire[1]) /\ wire[1].part = 1
      /\ Len(wire) = 0 => stream[1].part = 1
      /\ \A i \in 1 .. Len(stream) - 1 :
            /\ stream[i].part = 1 => stream[i + 1] = Rest(stream[i])
            /\ stream[i].part = 2 => stream[i + 1].part = 1
  BY <1>1, <1>5 DEF IInv, StreamInv, WireInv
<1>8. \A f : Rest(f).part = 2
  BY DEF Rest, Part
<1>9. \/ Len(wire) = 1 /\ n = 1
      \/ Len(wire) = 0 /\ n = 1
      \/ Len(wire) = 0 /\ n = 2
  BY <1>1, <1>2
<1>10. WireInv'
  BY <1>3, <1>5, <1>7, <1>9 DEF WireInv
<1>11. /\ Len(stream') > 0 =>
             /\ stream'[1] = stream[n + 1]
             /\ stream'[Len(stream')] = stream[Len(stream)]
       /\ \A i \in 1 .. Len(stream') - 1 :
             /\ i + n \in 1 .. Len(stream) - 1
             /\ stream'[i] = stream[i + n]
             /\ stream'[i + 1] = stream[(i + n) + 1]
  BY <1>4, <1>5
\* What follows the fragment read last.
<1>12. Len(stream') > 0 =>
          /\ stream[n].part = 1 => stream'[1] = Rest(stream[n])
          /\ stream[n].part = 2 => stream'[1].part = 1
  BY <1>4, <1>5, <1>7, <1>11
\* That fragment ends a record exactly if the record is now complete.
<1>13. /\ Len(wire') \in {1, 2}
       /\ Len(wire') = 2 => stream[n].part = 2
       /\ Len(wire') = 1 => stream[n].part = 1 /\ wire'[1] = stream[n]
  BY <1>3, <1>5, <1>7, <1>8, <1>9
<1>14. StreamInv'
  <2>1. /\ Len(stream') > 0 /\ Len(wire') = 1 => stream'[1] = Rest(wire'[1])
        /\ Len(stream') > 0 /\ Len(wire') # 1 => stream'[1].part = 1
    BY <1>12, <1>13
  <2>2. \A i \in 1 .. Len(stream') - 1 :
           /\ stream'[i].part = 1 => stream'[i + 1] = Rest(stream'[i])
           /\ stream'[i].part = 2 => stream'[i + 1].part = 1
    BY <1>7, <1>11
  <2> QED
    BY <2>1, <2>2 DEF StreamInv
<1>15. WholeInv'
  <2>1. SUFFICES ASSUME conn = "open", daemon \in {"up", "stuck"}
                 PROVE  /\ Len(stream') > 0 => stream'[Len(stream')].part = 2
                        /\ Len(stream') = 0 => Len(wire') # 1
    BY DEF WholeInv, Read
  <2>2. stream[Len(stream)].part = 2
    BY <1>1, <1>5, <2>1 DEF IInv, WholeInv
  <2>3. Len(stream') = 0 => n = Len(stream)
    BY <1>4, <1>5
  <2> QED
    BY <1>11, <1>13, <2>2, <2>3
<1>16. LagInv'
  <2>1. \A i \in 1 .. Len(stream') :
           stream'[i].at <= now /\ now <= stream'[i].at + MaxLag
    BY <1>4, <1>5 DEF IInv, LagInv
  <2>2. \A i \in 1 .. Len(wire') :
           wire'[i].at <= now /\ now <= wire'[i].at + MaxLag
    BY <1>3, <1>5, <1>9 DEF IInv, LagInv
  <2> QED
    BY <2>1, <2>2 DEF LagInv, Read
<1>17. SessionInv'
  BY <1>1, <1>13 DEF IInv, SessionInv, Read
<1> QED
  BY <1>10, <1>14, <1>15, <1>16, <1>17

\* One write() of a whole record keeps the record boundary: it continues a
\* stream that ends with a whole record, and it is not older than now.
LEMMA WriteInv ==
  ASSUME IInv, DaemonWrite
  PROVE  StreamInv' /\ WholeInv' /\ LagInv'
<1>1. TypeOK
  BY DEF IInv
<1>2. /\ stream \in Seq(Fragment) /\ now \in Nat /\ MaxLag \in Nat
      /\ Len(stream) \in Nat
  BY <1>1, FragmentSeq, ClientAssumption DEF TypeOK
<1>3. PICK power \in BOOLEAN :
         stream' = stream \o <<Part(now, power, 1), Part(now, power, 2)>>
  BY DEF DaemonWrite
<1> DEFINE n == Len(stream)
<1>4. /\ Len(stream') = n + 2
      /\ \A i \in 1 .. n : stream'[i] = stream[i]
      /\ stream'[n + 1] = Part(now, power, 1)
      /\ stream'[n + 2] = Part(now, power, 2)
  BY <1>2, <1>3
<1>5. UNCHANGED <<now, daemon, conn, wire, reader, cached>>
  BY DEF DaemonWrite, readerVars
<1>6. /\ \A i \in 1 .. n + 2 : i \in 1 .. n \/ i = n + 1 \/ i = n + 2
      /\ \A i \in 1 .. n + 1 : i \in 1 .. n - 1 \/ (i = n /\ n > 0) \/ i = n + 1
      /\ \A i \in 1 .. n - 1 : i \in 1 .. n /\ i + 1 \in 1 .. n
      /\ n > 0 => n \in 1 .. n /\ 1 \in 1 .. n
  BY <1>2
<1>7. conn = "open" /\ daemon = "up"
  BY DEF DaemonWrite
<1> HIDE DEF n
<1>8. LagInv'
  <2>1. \A i \in 1 .. n : stream[i].at <= now /\ now <= stream[i].at + MaxLag
    BY DEF IInv, LagInv, n
  <2>2. now <= now + MaxLag
    BY <1>2
  <2>3. \A i \in 1 .. n + 2 :
           stream'[i].at <= now /\ now <= stream'[i].at + MaxLag
    BY <1>2, <1>4, <1>6, <2>1, <2>2 DEF Part
  <2>4. /\ \A i \in 1 .. Len(wire) :
              wire[i].at <= now /\ now <= wire[i].at + MaxLag
        /\ reader = "stamp" => now <= cached[1].at + MaxLag
    BY DEF IInv, LagInv
  <2> QED
    BY <1>4, <1>5, <2>3, <2>4 DEF LagInv
<1>9. StreamInv' /\ WholeInv'
  <2>1. SUFFICES ASSUME reader # "drop"
                 PROVE  StreamInv' /\ WholeInv'
    BY <1>5 DEF StreamInv, WholeInv
  <2>2. /\ n > 0 => stream[n].part = 2
        /\ n = 0 => Len(wire) # 1
    BY <1>7, <2>1 DEF IInv, WholeInv, n
  <2>3. /\ n > 0 /\ Len(wire) = 1 => stream[1] = Rest(wire[1])
        /\ n > 0 /\ Len(wire) # 1 => stream[1].part = 1
        /\ \A i \in 1 .. n - 1 :
              /\ stream[i].part = 1 => stream[i + 1] = Rest(stream[i])
              /\ stream[i].part = 2 => stream[i + 1].part = 1
    BY <2>1 DEF IInv, StreamInv, n
  <2>4. /\ Part(now, power, 1).part = 1 /\ Part(now, power, 2).part = 2
        /\ Rest(Part(now, power, 1)) = Part(now, power, 2)
    BY DEF Part, Rest
  <2>5. /\ Len(wire) = 1 => stream'[1] = Rest(wire[1])
        /\ Len(wire) # 1 => stream'[1].part = 1
    <3>1. CASE n = 0
      BY <3>1, <1>4, <2>2, <2>4
    <3>2. CASE n > 0
      BY <3>2, <1>4, <1>6, <2>3
    <3> QED
      BY <1>2, <3>1, <3>2 DEF n
  <2>6. ASSUME NEW i \in 1 .. n + 1
        PROVE  /\ stream'[i].part = 1 => stream'[i + 1] = Rest(stream'[i])
               /\ stream'[i].part = 2 => stream'[i + 1].part = 1
    <3>1. CASE i \in 1 .. n - 1
      BY <3>1, <1>4, <1>6, <2>3
    <3>2. CASE i = n /\ n > 0
      BY <3>2, <1>4, <1>6, <2>2, <2>4
    <3>3. CASE i = n + 1
      <4>1. /\ stream'[i] = Part(now, power, 1)
            /\ stream'[i + 1] = Part(now, power, 2)
        BY <3>3, <1>2, <1>4 DEF n
      <4> QED
        BY <4>1, <2>4
    <3> QED
      BY <1>6, <3>1, <3>2, <3>3
  <2>7. Len(stream') = n + 2 /\ n \in Nat
    BY <1>2, <1>4 DEF n
  <2>8. \A i \in 1 .. Len(stream') - 1 : i \in 1 .. n + 1
    BY <2>7
  <2>9. StreamInv'
    BY <1>5, <2>5, <2>6, <2>7, <2>8 DEF StreamInv
  <2>10. Len(stream') > 0 /\ stream'[Len(stream')].part = 2
    BY <1>4, <2>4, <2>7
  <2>11. WholeInv'
    BY <2>7, <2>10 DEF WholeInv
  <2> QED
    BY <2>9, <2>11
<1> QED
  BY <1>8, <1>9

\* A short write leaves half a record, behind whole ones.
LEMMA ShortWriteInv ==
  ASSUME IInv, ShortWrite
  PROVE  StreamInv' /\ LagInv'
<1>1. TypeOK
  BY DEF IInv
<1>2. /\ stream \in Seq(Fragment) /\ now \in Nat /\ MaxLag \in Nat
      /\ Len(stream) \in Nat
  BY <1>1, FragmentSeq, ClientAssumption DEF TypeOK
<1>3. PICK power \in BOOLEAN : stream' = Append(stream, Part(now, power, 1))
  BY DEF ShortWrite
<1> DEFINE n == Len(stream)
<1>4. /\ Len(stream') = n + 1
      /\ \A i \in 1 .. n : stream'[i] = stream[i]
      /\ stream'[n + 1] = Part(now, power, 1)
  BY <1>2, <1>3
<1>5. UNCHANGED <<now, wire, reader, cached>> /\ conn = "open" /\ daemon = "up"
  BY DEF ShortWrite, readerVars
<1>6. /\ \A i \in 1 .. n + 1 : i \in 1 .. n \/ i = n + 1
      /\ \A i \in 1 .. n : i \in 1 .. n - 1 \/ (i = n /\ n > 0)
      /\ \A i \in 1 .. n - 1 : i \in 1 .. n /\ i + 1 \in 1 .. n
      /\ n > 0 => n \in 1 .. n /\ 1 \in 1 .. n
      /\ (n + 1) - 1 = n /\ n \in Nat
  BY <1>2
<1> HIDE DEF n
<1>7. LagInv'
  <2>1. \A i \in 1 .. n : stream[i].at <= now /\ now <= stream[i].at + MaxLag
    BY DEF IInv, LagInv, n
  <2>2. now <= now /\ now <= now + MaxLag
    BY <1>2
  <2>3. \A i \in 1 .. n + 1 :
           stream'[i].at <= now /\ now <= stream'[i].at + MaxLag
    BY <1>4, <1>6, <2>1, <2>2 DEF Part
  <2>4. /\ \A i \in 1 .. Len(wire) :
              wire[i].at <= now /\ now <= wire[i].at + MaxLag
        /\ reader = "stamp" => now <= cached[1].at + MaxLag
    BY DEF IInv, LagInv
  <2> QED
    BY <1>4, <1>5, <2>3, <2>4 DEF LagInv
<1>8. StreamInv'
  <2>1. SUFFICES ASSUME reader # "drop"
                 PROVE  StreamInv'
    BY <1>5 DEF StreamInv
  <2>2. /\ n > 0 => stream[n].part = 2
        /\ n = 0 => Len(wire) # 1
    BY <1>5, <2>1 DEF IInv, WholeInv, n
  <2>3. /\ n > 0 /\ Len(wire) = 1 => stream[1] = Rest(wire[1])
        /\ n > 0 /\ Len(wire) # 1 => stream[1].part = 1
        /\ \A i \in 1 .. n - 1 :
              /\ stream[i].part = 1 => stream[i + 1] = Rest(stream[i])
              /\ stream[i].part = 2 => stream[i + 1].part = 1
    BY <2>1 DEF IInv, StreamInv, n
  <2>4. Part(now, power, 1).part = 1
    BY DEF Part
  <2>5. /\ Len(wire) = 1 => stream'[1] = Rest(wire[1])
        /\ Len(wire) # 1 => stream'[1].part = 1
    <3>1. CASE n = 0
      BY <3>1, <1>4, <2>2, <2>4
    <3>2. CASE n > 0
      BY <3>2, <1>4, <1>6, <2>3
    <3> QED
      BY <1>6, <3>1, <3>2
  <2>6. ASSUME NEW i \in 1 .. n
        PROVE  /\ stream'[i].part = 1 => stream'[i + 1] = Rest(stream'[i])
               /\ stream'[i].part = 2 => stream'[i + 1].part = 1
    <3>1. CASE i \in 1 .. n - 1
      BY <3>1, <1>4, <1>6, <2>3
    <3>2. CASE i = n /\ n > 0
      BY <3>2, <1>4, <1>6, <2>2, <2>4
    <3> QED
      BY <1>6, <3>1, <3>2
  <2> QED
    BY <1>4, <1>5, <1>6, <2>5, <2>6 DEF StreamInv
<1> QED
  BY <1>7, <1>8

\* Every step keeps the invariant: one step of the proof per action.
LEMMA NextIInv == IInv /\ [Next]_vars => IInv'
<1> SUFFICES ASSUME IInv, [Next]_vars PROVE IInv'
  OBVIOUS
<1>a. TypeOK /\ TypeOK'
  BY TypeNext DEF IInv
<1>b. /\ stream \in Seq(Fragment) /\ wire \in Seq(Fragment)
      /\ cached \in Seq(Fragment)
      /\ now \in Nat /\ MaxLag \in Nat
  BY <1>a, ClientAssumption DEF TypeOK
<1>c. /\ \A i \in 1 .. Len(stream) : stream[i].at \in Nat
      /\ \A i \in 1 .. Len(wire) : wire[i].at \in Nat
      /\ \A i \in 1 .. Len(cached) : cached[i].at \in Nat
      /\ Len(stream) \in Nat /\ Len(wire) \in Nat /\ Len(cached) \in Nat
      /\ (stream = <<>>) = (Len(stream) = 0)
      /\ (wire = <<>>) = (Len(wire) = 0)
      /\ (cached = <<>>) = (Len(cached) = 0)
  BY <1>b, FragmentSeq
<1> USE ClientAssumption DEF IInv, SessionInv, WireInv, StreamInv, WholeInv,
        LagInv, CacheInv, FreshnessEarned, Rest, Part, Prompt,
        daemonVars, readerVars
<1> USE <1>a DEF TypeOK
<1>1. CASE UNCHANGED vars
  BY <1>1 DEF vars, history
<1>2. CASE Tick
  <2> USE <1>2 DEF Tick
  <2>1. LagInv'
    <3>1. \A i \in 1 .. Len(stream) : /\ stream[i].at <= now + 1
                                     /\ now + 1 <= stream[i].at + MaxLag
      BY <1>c
    <3>2. \A i \in 1 .. Len(wire) : /\ wire[i].at <= now + 1
                                   /\ now + 1 <= wire[i].at + MaxLag
      BY <1>c
    <3>3. reader = "stamp" => now + 1 <= cached[1].at + MaxLag
      BY <1>c
    <3> HIDE <1>2
    <3> QED
      BY <1>2, <3>1, <3>2, <3>3
  <2>2. CacheInv' /\ FreshnessEarned' /\ (lastRx <= now)'
    BY <1>c
  <2>3. SessionInv' /\ WireInv' /\ StreamInv' /\ WholeInv'
    OBVIOUS
  <2> QED
    BY <2>1, <2>2, <2>3
<1>3. CASE DaemonUp
  BY <1>3 DEF DaemonUp
<1>4. CASE DaemonWrite
  <2>1. StreamInv' /\ WholeInv' /\ LagInv'
    BY <1>4, WriteInv
  <2>2. UNCHANGED <<now, daemon, conn, readerVars, earned>> /\ conn = "open"
    BY <1>4 DEF DaemonWrite
  <2>3. SessionInv' /\ WireInv'
    BY <2>2
  <2>4. CacheInv' /\ FreshnessEarned' /\ (lastRx <= now)'
    BY <2>2
  <2> HIDE DEF TypeOK, StreamInv, WholeInv, LagInv, SessionInv, WireInv,
           CacheInv, FreshnessEarned
  <2> QED
    BY <1>a, <2>1, <2>3, <2>4
<1>5. CASE ShortWrite
  <2>1. StreamInv' /\ LagInv'
    BY <1>5, ShortWriteInv
  <2>2. /\ UNCHANGED <<now, conn, readerVars, earned>>
        /\ daemon' = "dying" /\ conn = "open"
    BY <1>5 DEF ShortWrite
  <2>3. SessionInv' /\ WireInv' /\ WholeInv'
    BY <2>2
  <2>4. CacheInv' /\ FreshnessEarned' /\ (lastRx <= now)'
    BY <2>2
  <2> HIDE DEF TypeOK, StreamInv, WholeInv, LagInv, SessionInv, WireInv,
           CacheInv, FreshnessEarned
  <2> QED
    BY <1>a, <2>1, <2>3, <2>4
<1>6. CASE DaemonExit
  BY <1>6 DEF DaemonExit
<1>7. CASE SocketHeld
  BY <1>7 DEF SocketHeld
<1>8. CASE TryConnect
  BY <1>8 DEF TryConnect
<1>9. CASE ConnectFails
  BY <1>9 DEF ConnectFails
<1>10. CASE Wake
  BY <1>10 DEF Wake
<1>11. CASE PollTimeout
  BY <1>11 DEF PollTimeout
<1>12. CASE PollGone
  BY <1>12 DEF PollGone
<1>13. CASE PollReady
  BY <1>13 DEF PollReady
<1>14. CASE Read
  <2>1. SessionInv' /\ WireInv' /\ StreamInv' /\ WholeInv' /\ LagInv'
    BY <1>14, <1>a, ReadInv DEF IInv
  <2>2. CacheInv' /\ FreshnessEarned' /\ (lastRx <= now)'
    BY <1>14 DEF Read
  <2> QED
    BY <1>a, <2>1, <2>2 DEF IInv
<1>15. CASE IoFails
  BY <1>15 DEF IoFails
<1>16. CASE Store
  <2>1. Len(wire) = 2 /\ wire # <<>> /\ wire[1].at \in Nat
    BY <1>16, <1>c DEF Store
  <2>2. SessionInv' /\ WireInv' /\ StreamInv' /\ WholeInv'
    BY <1>16, <2>1 DEF Store
  <2>3. LagInv' /\ CacheInv' /\ FreshnessEarned' /\ (lastRx <= now)'
    BY <1>16, <2>1 DEF Store
  <2> QED
    BY <2>2, <2>3
<1>17. CASE Stamp
  BY <1>17 DEF Stamp
<1>18. CASE Drop
  BY <1>18 DEF Drop
<1>19. CASE Forget
  BY <1>19 DEF Forget
<1>20. CASE Destroy
  BY <1>20 DEF Destroy
<1>21. CASE Join
  BY <1>21 DEF Join
<1>22. CASE Stall \/ Resume
  BY <1>22 DEF Stall, Resume
<1>23. CASE Connected
  BY <1>23 DEF Connected
<1>30. ASSUME NEW c \in Callers, CallerStep(c) PROVE IInv'
  <2>1. UNCHANGED <<now, daemonVars, readerVars, earned>>
    BY <1>30 DEF CallerStep, CallConnected, CallPower, LoadRx, ReadClock,
       ReadPower, Return, Goto
  <2>2. SessionInv' /\ WireInv'
    BY <2>1
  <2>3. StreamInv' /\ WholeInv'
    BY <2>1
  <2>4. LagInv' /\ CacheInv'
    BY <2>1
  <2>5. FreshnessEarned' /\ (lastRx <= now)'
    BY <2>1
  <2> HIDE DEF TypeOK
  <2> QED
    BY <1>a, <2>2, <2>3, <2>4, <2>5
<1> HIDE ClientAssumption, <1>a
<1> HIDE DEF IInv, SessionInv, WireInv, StreamInv, WholeInv, LagInv,
        CacheInv, FreshnessEarned, Rest, Part, Prompt, daemonVars,
        readerVars, TypeOK
<1> QED
  BY <1>1, <1>2, <1>3, <1>4, <1>5, <1>6, <1>7, <1>8, <1>9, <1>10, <1>11,
     <1>12, <1>13, <1>14, <1>15, <1>16, <1>17, <1>18, <1>19, <1>20, <1>21,
     <1>22, <1>23, <1>30
  DEF Next, DaemonStep, ReaderStep

-----------------------------------------------------------------------------
(* The results.                                                            *)

\* The inductive invariant holds in every state of the driver.
THEOREM Invariance == Spec => []IInv
  BY InitIInv, NextIInv, PTL DEF Spec

\* Every variable keeps its type: in particular no call reads a field of a
\* record that is not there.
THEOREM TypeCorrect == Spec => []TypeOK
<1>1. IInv => TypeOK
  BY DEF IInv
<1> QED
  BY <1>1, Invariance, PTL

\* For every buffer size, lag and interleaving of reader, daemon and callers
\* the cached record was published in one piece.
THEOREM CacheIsNeverTorn == Spec => []CacheNeverTorn
<1>1. IInv => CacheNeverTorn
  <2> SUFFICES ASSUME IInv, cached # <<>>
               PROVE  \E at \in 0 .. now, power \in BOOLEAN :
                         cached = <<Part(at, power, 1), Part(at, power, 2)>>
    BY DEF CacheNeverTorn
  <2>1. /\ cached \in Seq(Fragment) /\ now \in Nat
        /\ Len(cached) = 2 /\ cached[1].part = 1 /\ cached[1].at <= now
        /\ cached[2] = Rest(cached[1])
    BY DEF IInv, TypeOK, CacheInv
  <2>2. cached[1] \in Fragment
    BY <2>1
  <2>3. cached[1] = Part(cached[1].at, cached[1].power, 1)
    BY <2>1, <2>2 DEF Fragment, Part
  <2>4. cached = <<cached[1], cached[2]>>
    BY <2>1
  <2>5. cached[1].at \in 0 .. now /\ cached[1].power \in BOOLEAN
    BY <2>1, <2>2 DEF Fragment
  <2> QED
    BY <2>1, <2>3, <2>4, <2>5 DEF Rest
<1> QED
  BY <1>1, Invariance, PTL

\* No session ever inherits the age of an earlier one, and no age claims a
\* record younger than MaxLag more than it is.
THEOREM FreshnessIsEarned == Spec => []FreshnessEarned
<1>1. IInv => FreshnessEarned
  BY DEF IInv
<1> QED
  BY <1>1, Invariance, PTL

-----------------------------------------------------------------------------
(* The driver implements Freshness, for every number of callers, lag,      *)
(* staleness limit and buffer size: a TRUE of is_connected() or            *)
(* is_power_on() was right at some instant of the call, whatever the       *)
(* reader thread did between the loads the answer is made of.  First, what *)
(* the answers rest on beyond the integrity of the cache.                  *)

\* Records reach the cache in the order they were published: what is stored is
\* not newer than what is in the reader's hands, nor that than the socket's.
OrderInv ==
    /\ \A i \in 1 .. Len(stream) : \A j \in i .. Len(stream) :
          stream[i].at <= stream[j].at
    /\ \A i \in 1 .. Len(wire) : \A j \in 1 .. Len(stream) :
          wire[i].at <= stream[j].at
    /\ earned => /\ \A i \in 1 .. Len(wire) : cached[1].at <= wire[i].at
                 /\ \A i \in 1 .. Len(stream) : cached[1].at <= stream[i].at

\* Data received at rx has expired, for good.
Stale(rx) == now - rx > StaleAfter

\* The part of a call that is still ahead follows from its question.
FrameInv(c) ==
    /\ Pending(c) => call[c].op \in {"connected", "power"}
    /\ call[c].pc = "readPower" => call[c].op = "power"

\* justified[c] is what the call has witnessed, this state included.
WitnessInv(c) ==
    /\ justified[c] => Pending(c)
    /\ Pending(c) /\ Fresh!Holds(call[c].op) => justified[c]

\* is_connected() has seen connected_ set, and its receive time is that of a
\* session that was up then: between the halves of disconnect() the time
\* outlives the socket.
ConnectedInv(c) ==
    call[c].op = "connected" =>
        /\ call[c].pc = "loadRx" /\ ~connected /\ lastRx # -1 =>
              justified[c] \/ Stale(lastRx)
        /\ call[c].pc = "readClock" /\ call[c].rx # -1 =>
              justified[c] \/ Stale(call[c].rx)

\* is_power_on() holds the lock, so that the record it will read is the one it
\* loaded the receive time of, or an age that is too old for any.
PowerInv(c) ==
    call[c].op = "power" /\ Power(cached) =>
        /\ call[c].pc = "readClock" /\ call[c].rx # -1 =>
              justified[c] \/ Stale(call[c].rx)
        /\ call[c].pc = "readPower" => justified[c]

CallInv(c) ==
    /\ FrameInv(c) /\ WitnessInv(c) /\ ConnectedInv(c) /\ PowerInv(c)

AInv == /\ IInv /\ OrderInv
        /\ \A c \in Callers : CallInv(c)

\* The witnesses of Freshness, in the driver's own terms.
Current == earned /\ now - cached[1].at <= StaleAfter + MaxLag
Right(op) == \/ op = "connected" /\ connected /\ Current
             \/ op = "power" /\ Current /\ Power(cached)

-----------------------------------------------------------------------------
(* Reading the invariant.                                                  *)

\* A cache that has been stored in this session holds typed fragments.
LEMMA CachedFields ==
  ASSUME TypeOK, CacheInv, earned
  PROVE  /\ cached # <<>> /\ Len(cached) = 2
         /\ cached[1] \in Fragment /\ cached[2] \in Fragment
         /\ cached[1].at \in Nat /\ cached[1].at <= now
         /\ cached[2].power \in BOOLEAN
<1>1. cached \in Seq(Fragment) /\ Len(cached) = 2 /\ cached # <<>>
  BY DEF TypeOK, CacheInv
<1>2. cached[1] \in Fragment /\ cached[2] \in Fragment
  <2>1. 1 \in 1 .. Len(cached) /\ 2 \in 1 .. Len(cached)
    BY <1>1
  <2> QED
    BY <1>1, <2>1, ElementOfSeq
<1> QED
  BY <1>1, <1>2 DEF Fragment, CacheInv

\* Freshness asks of a state what Right says of it.
LEMMA HoldsIsRight ==
  ASSUME TypeOK, CacheInv, NEW op
  PROVE  Fresh!Holds(op) <=> Right(op)
<1>1. CASE earned
  <2>1. /\ cached # <<>> /\ cached[1].at \in Nat /\ cached[2].power \in BOOLEAN
    BY <1>1, CachedFields
  <2>2. Seen = [at |-> cached[1].at, power |-> cached[2].power]
    BY <1>1 DEF Seen
  <2>3. Seen # Fresh!NoRecord /\ Seen.at = cached[1].at
    BY <2>1, <2>2 DEF Fresh!NoRecord
  <2>4. Seen.power = cached[2].power
    BY <2>2
  <2> QED
    BY <1>1, <2>1, <2>3, <2>4 DEF Fresh!Holds, Fresh!Current, Right, Current,
       Power
<1>2. CASE ~earned
  BY <1>2 DEF Fresh!Holds, Fresh!Current, Fresh!NoRecord, Right, Current, Seen
<1> QED
  BY <1>1, <1>2

\* The receive time vouches for the record's age, for as long as it has not
\* expired itself.
LEMMA AgeVouches ==
  ASSUME IInv, lastRx # -1, ~Stale(lastRx)
  PROVE  Current
<1>1. earned /\ lastRx <= cached[1].at + MaxLag
  BY DEF IInv, FreshnessEarned
<1>2. cached[1].at \in Nat
  BY <1>1, CachedFields DEF IInv
<1>3. now \in Nat /\ lastRx \in Int
  BY DEF IInv, TypeOK
<1> QED
  BY <1>1, <1>2, <1>3, ClientAssumption DEF Stale, Current

\* The same of the state a step leads to.
LEMMA HoldsIsRightNext ==
  ASSUME TypeOK', CacheInv', NEW op
  PROVE  Fresh!Holds(op)' <=> Right(op)'
<1>1. CASE earned'
  <2>1. /\ cached' \in Seq(Fragment) /\ Len(cached') = 2 /\ cached' # <<>>
        /\ cached'[1] \in Fragment /\ cached'[2] \in Fragment
    <3>1. cached' \in Seq(Fragment) /\ Len(cached') = 2 /\ cached' # <<>>
      BY <1>1 DEF TypeOK, CacheInv
    <3> QED
      BY <3>1
  <2>2. cached'[1].at \in Nat /\ cached'[2].power \in BOOLEAN
    BY <2>1 DEF Fragment
  <2>3. Seen' = [at |-> cached'[1].at, power |-> cached'[2].power]
    BY <1>1 DEF Seen
  <2>4. Seen' # Fresh!NoRecord /\ Seen'.at = cached'[1].at
    BY <2>2, <2>3 DEF Fresh!NoRecord
  <2>5. Seen'.power = cached'[2].power
    BY <2>3
  <2> QED
    BY <1>1, <2>1, <2>2, <2>4, <2>5 DEF Fresh!Holds, Fresh!Current,
       Fresh!NoRecord, Right, Current, Power
<1>2. CASE ~earned'
  BY <1>2 DEF Fresh!Holds, Fresh!Current, Fresh!NoRecord, Right, Current, Seen
<1> QED
  BY <1>1, <1>2

\* What a step does to the witness of a call.
LEMMA WitnessMeans ==
  ASSUME TypeOK', CacheInv', Witness, NEW c \in Callers
  PROVE  justified'[c] <=> Pending(c)' /\ (justified[c] \/ Right(call[c].op)')
<1>1. Fresh!Holds(call[c].op)' <=> Right(call[c].op)'
  BY HoldsIsRightNext
<1>2. justified'[c] = (/\ Pending(c)'
                       /\ justified[c] \/ Fresh!Holds(call[c].op)')
  BY DEF Witness
<1> QED
  BY <1>1, <1>2

-----------------------------------------------------------------------------
(* Records stay in order.                                                  *)

\* One read() takes the oldest fragments.
LEMMA ReadKeepsOrder ==
  ASSUME IInv, OrderInv, Read
  PROVE  OrderInv'
<1>1. /\ stream \in Seq(Fragment) /\ wire \in Seq(Fragment)
      /\ Len(wire) \in {0, 1} /\ Len(stream) \in Nat
      /\ UNCHANGED <<earned, cached>>
  <2>1. stream \in Seq(Fragment) /\ wire \in Seq(Fragment)
    BY DEF IInv, TypeOK
  <2>2. Len(wire) \in Nat /\ Len(stream) \in Nat
    BY <2>1
  <2>3. Len(wire) <= 2 /\ Len(wire) # 2
    BY DEF IInv, WireInv, SessionInv, Read
  <2>4. \A k \in Nat : k <= 2 /\ k # 2 => k \in {0, 1}
    OBVIOUS
  <2>5. Len(wire) \in {0, 1}
    BY <2>2, <2>3, <2>4
  <2>6. UNCHANGED <<earned, cached>>
    BY DEF Read
  <2> QED
    BY <2>1, <2>2, <2>5, <2>6
<1>2. PICK n \in 1 .. 2 - Len(wire) :
         /\ n <= Len(stream)
         /\ wire' = wire \o SubSeq(stream, 1, n)
         /\ stream' = SubSeq(stream, n + 1, Len(stream))
  BY DEF Read
<1>3. /\ Len(wire') = Len(wire) + n
      /\ \A i \in 1 .. Len(wire) : wire'[i] = wire[i]
      /\ \A i \in 1 .. n : wire'[Len(wire) + i] = stream[i]
  BY <1>1, <1>2
<1>4. /\ Len(stream') = Len(stream) - n
      /\ \A i \in 1 .. Len(stream') : stream'[i] = stream[i + n]
  <2>1. /\ n \in Int /\ n + 1 \in Int /\ n >= 1
        /\ \A i \in n + 1 .. Len(stream) : i \in 1 .. Len(stream)
    BY <1>1, <1>2
  <2>2. \A i \in n + 1 .. Len(stream) : stream[i] \in Fragment
    BY <1>1, <2>1
  <2>3. /\ Len(stream') = IF n + 1 <= Len(stream) THEN Len(stream) - (n + 1) + 1
                                                 ELSE 0
        /\ \A i \in 1 .. Len(stream) - (n + 1) + 1 :
              stream'[i] = stream[(n + 1) + i - 1]
    BY <1>2, <2>1, <2>2, SubSeqProperties
  <2>4. Len(stream') = Len(stream) - n
    BY <1>1, <1>2, <2>1, <2>3
  <2>5. \A i \in 1 .. Len(stream') :
           /\ i \in 1 .. Len(stream) - (n + 1) + 1
           /\ (n + 1) + i - 1 = i + n
    BY <1>1, <2>1, <2>4
  <2> QED
    BY <2>3, <2>4, <2>5
<1>5. /\ n \in {1, 2} /\ Len(stream) >= n
      /\ \A i \in 1 .. Len(stream') : /\ i + n \in 1 .. Len(stream)
                                      /\ stream'[i] = stream[i + n]
      /\ \A i \in 1 .. Len(wire') :
            \/ i \in 1 .. Len(wire) /\ wire'[i] = wire[i]
            \/ \E k \in 1 .. n : wire'[i] = stream[k]
  <2>1. /\ n \in {1, 2} /\ Len(stream) >= n
        /\ \A i \in 1 .. Len(stream') : i + n \in 1 .. Len(stream)
    BY <1>1, <1>2, <1>4
  <2>2. ASSUME NEW i \in 1 .. Len(wire'), i \notin 1 .. Len(wire)
        PROVE  \E k \in 1 .. n : wire'[i] = stream[k]
    <3>1. i - Len(wire) \in 1 .. n /\ Len(wire) + (i - Len(wire)) = i
      BY <1>1, <1>2, <1>3, <2>2
    <3> QED
      BY <1>3, <3>1
  <2> QED
    BY <1>3, <1>4, <2>1, <2>2
<1>6. /\ \A i \in 1 .. n : i \in 1 .. Len(stream)
      /\ \A i \in 1 .. n : \A j \in 1 .. Len(stream') :
            stream[i].at <= stream'[j].at
  <2>1. \A i \in 1 .. n : i \in 1 .. Len(stream)
    BY <1>1, <1>5
  <2>2. \A i \in 1 .. n : \A j \in 1 .. Len(stream') :
           j + n \in i .. Len(stream)
    BY <1>1, <1>2, <1>5
  <2> QED
    BY <1>5, <2>1, <2>2 DEF OrderInv
<1>7. \A i \in 1 .. Len(stream') : \A j \in i .. Len(stream') :
         stream'[i].at <= stream'[j].at
  <2>1. \A i \in 1 .. Len(stream') : \A j \in i .. Len(stream') :
           /\ j \in 1 .. Len(stream') /\ i + n \in 1 .. Len(stream)
           /\ j + n \in i + n .. Len(stream)
    BY <1>1, <1>2, <1>4
  <2> QED
    BY <1>5, <2>1 DEF OrderInv
<1>8. \A i \in 1 .. Len(wire') : \A j \in 1 .. Len(stream') :
         wire'[i].at <= stream'[j].at
  BY <1>5, <1>6 DEF OrderInv
<1>9. earned' => /\ \A i \in 1 .. Len(wire') : cached'[1].at <= wire'[i].at
                 /\ \A i \in 1 .. Len(stream') : cached'[1].at <= stream'[i].at
  BY <1>1, <1>5, <1>6 DEF OrderInv
<1> QED
  BY <1>7, <1>8, <1>9 DEF OrderInv

\* What the daemon writes is the newest.
LEMMA WriteKeepsOrder ==
  ASSUME IInv, OrderInv, NEW m \in 1 .. 2,
         Len(stream') = Len(stream) + m,
         \A i \in 1 .. Len(stream) : stream'[i] = stream[i],
         \A i \in Len(stream) + 1 .. Len(stream) + m : stream'[i].at = now,
         UNCHANGED <<wire, earned, cached>>
  PROVE  OrderInv'
<1>1. /\ stream \in Seq(Fragment) /\ wire \in Seq(Fragment)
      /\ Len(stream) \in Nat /\ now \in Nat
  BY DEF IInv, TypeOK
<1>2. /\ \A i \in 1 .. Len(stream) : stream[i].at <= now
      /\ \A i \in 1 .. Len(wire) : wire[i].at <= now
      /\ earned => cached[1].at <= now
  BY CachedFields DEF IInv, LagInv
<1>3. \A j \in 1 .. Len(stream') :
         \/ j \in 1 .. Len(stream) /\ stream'[j] = stream[j]
         \/ j \in Len(stream) + 1 .. Len(stream) + m /\ stream'[j].at = now
  BY <1>1
<1>4. ASSUME NEW i \in 1 .. Len(stream'), NEW j \in i .. Len(stream')
      PROVE  stream'[i].at <= stream'[j].at
  <2>1. j \in 1 .. Len(stream')
    BY <1>1
  <2>2. CASE j \in 1 .. Len(stream)
    <3>1. i \in 1 .. Len(stream) /\ j \in i .. Len(stream)
      BY <1>1, <2>2
    <3> QED
      BY <3>1, <2>2 DEF OrderInv
  <2>3. CASE j \in Len(stream) + 1 .. Len(stream) + m
    <3>1. now <= now
      BY <1>1
    <3> QED
      BY <2>3, <1>2, <1>3, <3>1
  <2> QED
    BY <1>3, <2>1, <2>2, <2>3
<1>5. \A i \in 1 .. Len(wire) : \A j \in 1 .. Len(stream') :
         wire[i].at <= stream'[j].at
  BY <1>2, <1>3 DEF OrderInv
<1>6. earned => \A j \in 1 .. Len(stream') : cached[1].at <= stream'[j].at
  BY <1>2, <1>3 DEF OrderInv
<1> QED
  BY <1>4, <1>5, <1>6 DEF OrderInv

\* Every step keeps the order.
LEMMA OrderNext ==
  ASSUME IInv, OrderInv, [Next]_vars
  PROVE  OrderInv'
<1>a. /\ stream \in Seq(Fragment) /\ wire \in Seq(Fragment)
      /\ cached \in Seq(Fragment) /\ Len(stream) \in Nat /\ Len(wire) \in Nat
  BY DEF IInv, TypeOK
<1>c. Len(<<>>) = 0 /\ 1 .. 0 = {}
  OBVIOUS
<1>1. CASE UNCHANGED <<stream, wire, earned, cached>>
  BY <1>1 DEF OrderInv
<1>2. CASE DaemonWrite
  <2>1. PICK power \in BOOLEAN :
           stream' = stream \o <<Part(now, power, 1), Part(now, power, 2)>>
    BY <1>2 DEF DaemonWrite
  <2>2. /\ Len(stream') = Len(stream) + 2
        /\ \A i \in 1 .. Len(stream) : stream'[i] = stream[i]
        /\ stream'[Len(stream) + 1] = Part(now, power, 1)
        /\ stream'[Len(stream) + 2] = Part(now, power, 2)
    BY <1>a, <2>1
  <2>3. \A i \in Len(stream) + 1 .. Len(stream) + 2 : stream'[i].at = now
    <3>1. \A i \in Len(stream) + 1 .. Len(stream) + 2 :
             i = Len(stream) + 1 \/ i = Len(stream) + 2
      BY <1>a
    <3> QED
      BY <3>1, <2>2 DEF Part
  <2>4. UNCHANGED <<wire, earned, cached>> /\ 2 \in 1 .. 2
    BY <1>2 DEF DaemonWrite, readerVars
  <2> QED
    BY <2>2, <2>3, <2>4, WriteKeepsOrder
<1>3. CASE ShortWrite
  <2>1. PICK power \in BOOLEAN : stream' = Append(stream, Part(now, power, 1))
    BY <1>3 DEF ShortWrite
  <2>2. /\ Len(stream') = Len(stream) + 1
        /\ \A i \in 1 .. Len(stream) : stream'[i] = stream[i]
        /\ stream'[Len(stream) + 1] = Part(now, power, 1)
    BY <1>a, <2>1
  <2>3. \A i \in Len(stream) + 1 .. Len(stream) + 1 : stream'[i].at = now
    <3>1. \A i \in Len(stream) + 1 .. Len(stream) + 1 : i = Len(stream) + 1
      BY <1>a
    <3> QED
      BY <3>1, <2>2 DEF Part
  <2>4. UNCHANGED <<wire, earned, cached>> /\ 1 \in 1 .. 2
    BY <1>3 DEF ShortWrite, readerVars
  <2> QED
    BY <2>2, <2>3, <2>4, WriteKeepsOrder
<1>4. CASE Read
  BY <1>4, ReadKeepsOrder
<1>5. CASE wire' = <<>> /\ UNCHANGED <<stream, earned, cached>>
  BY <1>5, <1>c DEF OrderInv
<1>6. CASE stream' = <<>> /\ UNCHANGED <<wire, earned, cached>>
  BY <1>6, <1>c DEF OrderInv
<1>7. CASE ~earned' /\ UNCHANGED <<stream, wire>>
  BY <1>7 DEF OrderInv
<1>8. CASE Store
  <2>1. Len(wire) = 2 /\ 1 \in 1 .. Len(wire)
    BY <1>8 DEF IInv, SessionInv, Store
  <2>2. /\ cached' = wire /\ wire' = <<>> /\ stream' = stream
    BY <1>8 DEF Store, daemonVars
  <2> QED
    BY <2>1, <2>2, <1>c DEF OrderInv
<1> QED
  <2> USE DEF daemonVars, readerVars
  <2>1. CASE UNCHANGED vars
    BY <2>1, <1>1 DEF vars, history
  <2>2. CASE DaemonStep
    BY <2>2, <1>1, <1>2, <1>3 DEF DaemonStep, DaemonUp, Stall, Resume, DaemonExit
  <2>3. CASE Tick \/ Destroy
    BY <2>3, <1>1 DEF Tick, Destroy
  <2>4. CASE SocketHeld \/ TryConnect \/ ConnectFails \/ Wake \/ PollReady \/ Stamp
    BY <2>4, <1>1 DEF SocketHeld, TryConnect, ConnectFails, Wake, PollReady, Stamp
  <2>5. CASE PollTimeout
    BY <2>5, <1>1, <1>5 DEF PollTimeout
  <2>6. CASE PollGone \/ IoFails \/ Join
    BY <2>6, <1>5 DEF PollGone, IoFails, Join
  <2>7. CASE Connected \/ Drop
    BY <2>7, <1>6 DEF Connected, Drop
  <2>8. CASE Forget
    BY <2>8, <1>7 DEF Forget
  <2>9. ASSUME NEW c \in Callers, CallerStep(c)
        PROVE  OrderInv'
    BY <2>9, <1>1 DEF CallerStep, CallConnected, CallPower, LoadRx, ReadClock,
       ReadPower, Return, Goto
  <2> QED
    BY <2>1, <2>2, <2>3, <2>4, <2>5, <2>6, <2>7, <2>8, <2>9, <1>4, <1>8
    DEF Next, ReaderStep

-----------------------------------------------------------------------------
(* What a call has witnessed.                                              *)

\* What has expired stays expired.
LEMMA StillStale ==
  ASSUME NEW t \in Nat, NEW u \in Nat, NEW rx \in Nat, t <= u,
         t - rx > StaleAfter
  PROVE  u - rx > StaleAfter
BY ClientAssumption

\* A call the step does not touch keeps what it has witnessed, if the step
\* leaves the cache and the session alone as far as the call depends on them.
LEMMA WaitingCall ==
  ASSUME IInv, TypeOK', CacheInv', Witness, NEW c \in Callers, CallInv(c),
         call'[c] = call[c], now <= now',
         \/ connected'
         \/ lastRx' = -1
         \/ lastRx' = lastRx,
         \/ cached' = cached
         \/ ~HoldsShared(c)
  PROVE  CallInv(c)'
<1>1. /\ Pending(c)' = Pending(c)
      /\ TypeOK
      /\ justified[c] \in BOOLEAN /\ Pending(c) \in BOOLEAN
      /\ lastRx \in Nat \cup {-1} /\ call[c] \in Call
      /\ now \in Nat /\ now' \in Nat
  BY DEF Pending, IInv, TypeOK
<1>2. justified'[c] <=> Pending(c)' /\ (justified[c] \/ Right(call[c].op)')
  BY WitnessMeans
<1>3. FrameInv(c)'
  BY <1>1 DEF CallInv, FrameInv
<1>4. WitnessInv(c)'
  <2>1. Fresh!Holds(call[c].op)' <=> Right(call[c].op)'
    BY HoldsIsRightNext
  <2> QED
    BY <1>2, <2>1 DEF WitnessInv
<1>5. Pending(c) /\ justified[c] => justified'[c]
  BY <1>1, <1>2
<1>6. ConnectedInv(c)'
  <2> SUFFICES ASSUME call[c].op = "connected"
               PROVE  /\ call[c].pc = "loadRx" /\ ~connected' /\ lastRx' # -1 =>
                            justified'[c] \/ Stale(lastRx)'
                      /\ call[c].pc = "readClock" /\ call[c].rx # -1 =>
                            justified'[c] \/ Stale(call[c].rx)'
    BY DEF ConnectedInv
  <2>1. ASSUME call[c].pc = "readClock", call[c].rx # -1
        PROVE  justified'[c] \/ Stale(call[c].rx)'
    <3>1. call[c].rx \in Nat /\ Pending(c)
      BY <1>1, <2>1 DEF Call, Pending
    <3>2. justified[c] \/ Stale(call[c].rx)
      BY <2>1 DEF CallInv, ConnectedInv
    <3>3. Stale(call[c].rx) => now' - call[c].rx > StaleAfter
      BY <1>1, <3>1, ClientAssumption DEF Stale
    <3> QED
      BY <1>5, <3>1, <3>2, <3>3 DEF Stale
  <2>2. ASSUME call[c].pc = "loadRx", ~connected', lastRx' # -1
        PROVE  justified'[c] \/ Stale(lastRx)'
    <3>1. lastRx' = lastRx /\ lastRx \in Nat /\ Pending(c)
      BY <1>1, <2>2 DEF Pending
    <3>2. justified[c] \/ Stale(lastRx)
      <4>1. CASE connected
        <5>1. ~Stale(lastRx) => Right("connected")
          BY <3>1, <4>1, AgeVouches DEF Right
        <5>2. Fresh!Holds("connected") <=> Right("connected")
          BY HoldsIsRight DEF IInv
        <5> QED
          BY <3>1, <5>1, <5>2 DEF CallInv, WitnessInv
      <4>2. CASE ~connected
        BY <2>2, <3>1, <4>2 DEF CallInv, ConnectedInv
      <4> QED
        BY <4>1, <4>2
    <3>3. Stale(lastRx) => now' - lastRx > StaleAfter
      <4>1. /\ lastRx \in Nat /\ now \in Nat /\ now' \in Nat
            /\ StaleAfter \in Nat /\ now <= now'
        BY <1>1, <3>1, ClientAssumption
      <4> QED
        BY <4>1, StillStale DEF Stale
    <3> QED
      BY <1>5, <3>1, <3>2, <3>3 DEF Stale
  <2> QED
    BY <2>1, <2>2
<1>7. PowerInv(c)'
  <2> SUFFICES ASSUME call[c].op = "power", Power(cached'),
                      call[c].pc \in {"readClock", "readPower"}
               PROVE  /\ call[c].pc = "readClock" /\ call[c].rx # -1 =>
                            justified'[c] \/ Stale(call[c].rx)'
                      /\ call[c].pc = "readPower" => justified'[c]
    BY DEF PowerInv, Power
  <2>1. Power(cached) /\ Pending(c)
    BY DEF HoldsShared, Pending
  <2>2. call[c].pc = "readPower" => justified'[c]
    BY <1>5, <2>1 DEF CallInv, PowerInv
  <2>3. ASSUME call[c].pc = "readClock", call[c].rx # -1
        PROVE  justified'[c] \/ Stale(call[c].rx)'
    <3>1. call[c].rx \in Nat
      BY <1>1, <2>3 DEF Call
    <3>2. justified[c] \/ Stale(call[c].rx)
      BY <2>1, <2>3 DEF CallInv, PowerInv
    <3>3. Stale(call[c].rx) => now' - call[c].rx > StaleAfter
      BY <1>1, <3>1, ClientAssumption DEF Stale
    <3> QED
      BY <1>5, <2>1, <3>2, <3>3 DEF Stale
  <2> QED
    BY <2>2, <2>3
<1> QED
  BY <1>3, <1>4, <1>6, <1>7 DEF CallInv

\* A step of the call itself: it has witnessed what its next step needs.
LEMMA MovingCall ==
  ASSUME IInv, TypeOK', CacheInv', Witness, NEW c \in Callers, CallInv(c),
         CallerStep(c)
  PROVE  CallInv(c)'
<1>1. /\ TypeOK /\ CacheInv
      /\ call[c] \in Call /\ lastRx \in Nat \cup {-1}
      /\ call \in [Callers -> Call]
  BY DEF IInv, TypeOK
<1>2. justified'[c] <=> Pending(c)' /\ (justified[c] \/ Right(call[c].op)')
  BY WitnessMeans
<1>3. /\ Fresh!Holds(call[c].op)' <=> Right(call[c].op)'
      /\ Fresh!Holds(call[c].op) <=> Right(call[c].op)
  BY <1>1, HoldsIsRight, HoldsIsRightNext
<1>4. WitnessInv(c)'
  BY <1>2, <1>3 DEF WitnessInv
<1>5. UNCHANGED <<now, connected, lastRx, cached, earned>>
  BY DEF CallerStep, CallConnected, CallPower, LoadRx, ReadClock, ReadPower,
     Return, Goto, readerVars
<1>6. Pending(c) /\ Right(call[c].op) => justified[c]
  BY <1>3 DEF CallInv, WitnessInv
<1>7. SUFFICES FrameInv(c)' /\ ConnectedInv(c)' /\ PowerInv(c)'
  BY <1>4 DEF CallInv
<1>8. CASE CallConnected(c)
  <2>1. call'[c] = Frame("connected", IF connected THEN "loadRx" ELSE "no", -1)
    BY <1>1, <1>8 DEF CallConnected, Goto
  <2> QED
    BY <2>1, <1>5 DEF Frame, FrameInv, ConnectedInv, PowerInv, Pending
<1>9. CASE CallPower(c)
  <2>1. call'[c] = Frame("power", "loadRx", -1)
    BY <1>1, <1>9 DEF CallPower, Goto
  <2> QED
    BY <2>1 DEF Frame, FrameInv, ConnectedInv, PowerInv, Pending
<1>10. CASE LoadRx(c)
  <2>1. /\ call'[c] = Frame(call[c].op, "readClock", lastRx)
        /\ call[c].pc = "loadRx" /\ Pending(c) /\ Pending(c)'
    BY <1>1, <1>10 DEF LoadRx, Goto, Frame, Pending
  <2>2. call'[c].op = call[c].op /\ call'[c].pc = "readClock"
        /\ call'[c].rx = lastRx
    BY <2>1 DEF Frame
  <2>3. Stale(lastRx)' <=> Stale(lastRx)
    BY <1>5 DEF Stale
  <2>4. FrameInv(c)'
    BY <2>1, <2>2 DEF CallInv, FrameInv
  <2>5. justified[c] => justified'[c]
    BY <1>2, <2>1
  <2>6. ASSUME lastRx # -1, ~Stale(lastRx) PROVE Current
    BY <2>6, AgeVouches
  <2>7. ASSUME call[c].op = "connected", lastRx # -1, ~Stale(lastRx)
        PROVE  justified'[c]
    <3>1. CASE connected
      BY <3>1, <1>6, <2>1, <2>5, <2>6, <2>7 DEF Right
    <3>2. CASE ~connected
      BY <3>2, <2>1, <2>5, <2>7 DEF CallInv, ConnectedInv
    <3> QED
      BY <3>1, <3>2
  <2>8. ASSUME call[c].op = "power", Power(cached), lastRx # -1, ~Stale(lastRx)
        PROVE  justified'[c]
    BY <1>6, <2>1, <2>5, <2>6, <2>8 DEF Right
  <2>9. ConnectedInv(c)'
    BY <2>2, <2>3, <2>7, <1>5 DEF ConnectedInv, Stale
  <2>10. PowerInv(c)'
    BY <2>2, <2>3, <2>8, <1>5 DEF PowerInv, Power, Stale
  <2> QED
    BY <2>4, <2>9, <2>10
<1>11. CASE ReadClock(c)
  <2> DEFINE next == IF ~DataCurrent(call[c].rx) THEN "no"
                     ELSE IF call[c].op = "power" THEN "readPower" ELSE "yes"
  <2>1. /\ call'[c] = Frame(call[c].op, next, call[c].rx)
        /\ call[c].pc = "readClock" /\ Pending(c)
    BY <1>1, <1>11 DEF ReadClock, Goto, Pending
  <2>2. call'[c].op = call[c].op /\ call'[c].pc = next
    BY <2>1 DEF Frame
  <2>3. CASE next # "readPower"
    BY <2>2, <2>3 DEF FrameInv, ConnectedInv, PowerInv, Pending
  <2>4. CASE next = "readPower"
    <3>1. /\ call[c].op = "power" /\ call[c].rx # -1
          /\ now - call[c].rx <= StaleAfter
      BY <2>4 DEF DataCurrent
    <3>2. ~Stale(call[c].rx)
      <4>1. call[c].rx \in Nat /\ now \in Nat /\ StaleAfter \in Nat
        BY <1>1, <3>1, ClientAssumption DEF Call, TypeOK
      <4> QED
        BY <3>1, <4>1 DEF Stale
    <3>3. Power(cached) => justified[c]
      BY <2>1, <3>1, <3>2 DEF CallInv, PowerInv
    <3>4. Pending(c)'
      BY <2>2, <2>4 DEF Pending
    <3>5. Power(cached) => justified'[c]
      BY <1>2, <3>3, <3>4
    <3> QED
      BY <2>2, <2>4, <3>1, <3>5, <1>5 DEF FrameInv, ConnectedInv, PowerInv,
         Power
  <2> QED
    BY <2>3, <2>4
<1>12. CASE ReadPower(c)
  <2>1. call'[c] = Frame("power", IF Power(cached) THEN "yes" ELSE "no", -1)
    BY <1>1, <1>12 DEF ReadPower, Goto
  <2> QED
    BY <2>1 DEF Frame, FrameInv, ConnectedInv, PowerInv, Pending
<1>13. CASE Return(c)
  <2>1. call'[c] = Idle
    BY <1>1, <1>13 DEF Return, Goto
  <2> QED
    BY <2>1 DEF Idle, Frame, FrameInv, ConnectedInv, PowerInv, Pending
<1> QED
  BY <1>8, <1>9, <1>10, <1>11, <1>12, <1>13 DEF CallerStep

-----------------------------------------------------------------------------
(* The invariant of the refinement is inductive.                           *)

\* The constructor's state.
LEMMA InitAInv == Init => AInv
<1> SUFFICES ASSUME Init PROVE AInv
  OBVIOUS
<1>1. IInv
  BY InitIInv
<1>2. Len(<<>>) = 0 /\ 1 .. 0 = {}
  OBVIOUS
<1>3. OrderInv
  BY <1>2 DEF Init, OrderInv
<1>4. ASSUME NEW c \in Callers PROVE CallInv(c)
  <2>1. call[c] = Idle /\ ~justified[c]
    BY DEF Init
  <2> QED
    BY <2>1 DEF Idle, Frame, CallInv, FrameInv, WitnessInv, ConnectedInv,
       PowerInv, Pending
<1> QED
  BY <1>1, <1>3, <1>4 DEF AInv

\* Every step keeps what the calls have witnessed.
LEMMA CallsNext ==
  ASSUME AInv, IInv', Next, NEW c \in Callers
  PROVE  CallInv(c)'
<1>1. /\ IInv /\ TypeOK' /\ CacheInv' /\ Witness /\ CallInv(c)
      /\ now \in Nat /\ call \in [Callers -> Call]
  BY DEF AInv, IInv, Next, TypeOK
<1>2. now <= now
  BY <1>1
<1>3. CASE call'[c] = call[c] /\ now <= now' /\ cached' = cached
           /\ (connected' \/ lastRx' = -1 \/ lastRx' = lastRx)
  BY <1>1, <1>3, WaitingCall
<1>4. CASE CallerStep(c)
  BY <1>1, <1>4, MovingCall
<1>5. ASSUME NEW d \in Callers, d # c, CallerStep(d)
      PROVE  CallInv(c)'
  <2>1. call'[c] = call[c] /\ UNCHANGED <<now, readerVars>>
    BY <1>1, <1>5 DEF CallerStep, CallConnected, CallPower, LoadRx, ReadClock,
       ReadPower, Return, Goto
  <2> QED
    BY <1>2, <1>3, <2>1 DEF readerVars
<1>6. CASE Tick
  BY <1>1, <1>3, <1>6 DEF Tick, readerVars
<1>7. CASE DaemonStep \/ Destroy
  BY <1>2, <1>3, <1>7 DEF DaemonStep, DaemonUp, DaemonWrite, ShortWrite,
     Stall, Resume, DaemonExit, Destroy, readerVars
<1>8. CASE SocketHeld \/ TryConnect \/ Connected \/ ConnectFails \/ Wake
  BY <1>2, <1>3, <1>8 DEF SocketHeld, TryConnect, Connected, ConnectFails, Wake
<1>9. CASE PollTimeout \/ PollGone \/ PollReady \/ Read \/ IoFails
  BY <1>2, <1>3, <1>9 DEF PollTimeout, PollGone, PollReady, Read, IoFails
<1>10. CASE Store
  <2>1. /\ call'[c] = call[c] /\ now' = now /\ lastRx' = lastRx
        /\ ~HoldsShared(c)
    BY <1>10 DEF Store
  <2> QED
    BY <1>1, <1>2, <2>1, WaitingCall
<1>11. CASE Stamp
  <2>1. connected' = TRUE
    BY <1>1, <1>11 DEF Stamp, IInv, SessionInv, TypeOK
  <2> QED
    BY <1>2, <1>3, <1>11, <2>1 DEF Stamp
<1>12. CASE Drop \/ Forget \/ Join
  BY <1>2, <1>3, <1>12 DEF Drop, Forget, Join
<1> QED
  BY <1>4, <1>5, <1>6, <1>7, <1>8, <1>9, <1>10, <1>11, <1>12
  DEF Next, ReaderStep

\* Every step keeps the invariant of the refinement.
LEMMA NextAInv == AInv /\ [Next]_vars => AInv'
<1> SUFFICES ASSUME AInv, [Next]_vars PROVE AInv'
  OBVIOUS
<1>1. IInv'
  BY NextIInv DEF AInv
<1>2. OrderInv'
  BY OrderNext DEF AInv
<1>3. ASSUME NEW c \in Callers PROVE CallInv(c)'
  <2>1. CASE Next
    BY <1>1, <2>1, CallsNext
  <2>2. CASE UNCHANGED vars
    BY <2>2 DEF AInv, CallInv, FrameInv, WitnessInv, ConnectedInv, PowerInv,
       Pending, Stale, Power, Fresh!Holds, Fresh!Current, Fresh!NoRecord,
       Seen, vars, readerVars, history
  <2> QED
    BY <2>1, <2>2
<1> QED
  BY <1>1, <1>2, <1>3 DEF AInv

-----------------------------------------------------------------------------
(* Every step maps to a step of Freshness or to a stutter.                 *)

\* A call asks in Freshness exactly while it is pending here.
LEMMA AsksWhilePending ==
  ASSUME NEW c \in Callers, call[c] \in Call, FrameInv(c)
  PROVE  /\ Query(c) \in Fresh!Questions <=> Pending(c)
         /\ Pending(c) => Query(c) = call[c].op
         /\ Query(c) = "none" <=> call[c].pc = "idle"
<1>1. call[c].pc \in {"idle", "loadRx", "readClock", "readPower", "yes", "no"}
  BY DEF Call
<1> QED
  BY <1>1 DEF FrameInv, Query, Pending, Fresh!Questions

\* The driver's witnesses are those of Freshness.
LEMMA WitnessMaps ==
  ASSUME AInv', Witness
  PROVE  Fresh!Witness
<1>1. ASSUME NEW c \in Callers
      PROVE  (/\ Pending(c)'
              /\ justified[c] \/ Fresh!Holds(call[c].op)')
           = (/\ Query(c)' \in Fresh!Questions
              /\ justified[c] \/ Fresh!Holds(Query(c))')
  <2>1. call'[c] \in Call /\ FrameInv(c)'
    BY DEF AInv, IInv, TypeOK, CallInv
  <2>2. /\ Query(c)' \in Fresh!Questions <=> Pending(c)'
        /\ Pending(c)' => Query(c)' = call'[c].op
    <3>1. call'[c].pc \in {"idle", "loadRx", "readClock", "readPower",
                           "yes", "no"}
      BY <2>1 DEF Call
    <3> QED
      BY <2>1, <3>1 DEF FrameInv, Query, Pending, Fresh!Questions
  <2>3. Pending(c)' =>
           (Fresh!Holds(call[c].op)' <=> Fresh!Holds(Query(c))')
    BY <2>2 DEF Fresh!Holds
  <2> QED
    BY <2>2, <2>3
<1>2. \A c \in Callers : [d \in Callers |-> Query(d)]'[c] = Query(c)'
  OBVIOUS
<1>3. justified' = [c \in Callers |->
                      /\ Pending(c)'
                      /\ justified[c] \/ Fresh!Holds(call[c].op)']
  BY DEF Witness
<1>4. justified' = [c \in Callers |->
                      /\ Query(c)' \in Fresh!Questions
                      /\ justified[c] \/ Fresh!Holds(Query(c))']
  BY <1>1, <1>3
<1> QED
  BY <1>2, <1>4 DEF Fresh!Witness, Fresh!Holds

\* A step that Freshness does not see is a stutter: what the calls have
\* witnessed is up to date already.
LEMMA Unseen ==
  ASSUME AInv, AInv', Witness, UNCHANGED <<now, connected, earned, cached>>,
         \A c \in Callers : Query(c)' = Query(c)
  PROVE  UNCHANGED Fresh!vars
<1>1. Seen' = Seen
  BY DEF Seen
<1>2. ASSUME NEW c \in Callers PROVE justified'[c] = justified[c]
  <2>1. /\ call[c] \in Call /\ FrameInv(c) /\ WitnessInv(c)
        /\ justified[c] \in BOOLEAN
    BY DEF AInv, IInv, TypeOK, CallInv
  <2>2. call'[c] \in Call /\ FrameInv(c)' /\ justified'[c] \in BOOLEAN
    BY DEF AInv, IInv, TypeOK, CallInv
  <2>3. Query(c) \in Fresh!Questions <=> Pending(c)
    BY <2>1, AsksWhilePending
  <2>4. Pending(c) => Query(c) = call[c].op
    BY <2>1, AsksWhilePending
  <2>5. call'[c].pc \in {"idle", "loadRx", "readClock", "readPower",
                         "yes", "no"}
    BY <2>2 DEF Call
  <2>6. Query(c)' \in Fresh!Questions <=> Pending(c)'
    BY <2>2, <2>5 DEF FrameInv, Query, Pending, Fresh!Questions
  <2>7. Pending(c)' => Query(c)' = call'[c].op
    BY DEF Query, Pending
  <2>8. Pending(c)' <=> Pending(c)
    BY <2>3, <2>6
  <2>9. Pending(c) => call'[c].op = call[c].op
    BY <2>4, <2>7, <2>8
  <2>10. Pending(c) => (Fresh!Holds(call[c].op)' <=> Fresh!Holds(call[c].op))
    BY <2>9, <1>1 DEF Fresh!Holds, Fresh!Current, Fresh!NoRecord
  <2>11. justified'[c] = (/\ Pending(c)'
                          /\ justified[c] \/ Fresh!Holds(call[c].op)')
    BY DEF Witness
  <2>12. CASE Pending(c)
    <3>1. Fresh!Holds(call[c].op) => justified[c]
      BY <2>1, <2>12 DEF WitnessInv
    <3>2. justified'[c] <=> justified[c]
      BY <2>8, <2>10, <2>11, <2>12, <3>1
    <3> QED
      BY <2>1, <2>2, <3>2
  <2>13. CASE ~Pending(c)
    <3>1. justified'[c] = FALSE
      BY <2>8, <2>11, <2>13
    <3>2. justified[c] = FALSE
      BY <2>1, <2>13 DEF WitnessInv
    <3> QED
      BY <3>1, <3>2
  <2> QED
    BY <2>12, <2>13
<1>3. justified' = justified
  BY <1>2 DEF AInv, IInv, TypeOK
<1>4. [c \in Callers |-> Query(c)]' = [c \in Callers |-> Query(c)]
  OBVIOUS
<1> QED
  BY <1>1, <1>3, <1>4 DEF Fresh!vars

\* A stored record is delivered: it is not older than the one before.
LEMMA StoreDelivers ==
  ASSUME AInv, AInv', Store, Witness
  PROVE  Fresh!Deliver
<1>1. /\ wire \in Seq(Fragment) /\ Len(wire) = 2 /\ connected
      /\ cached' = wire /\ earned' = TRUE /\ now' = now
      /\ connected' = connected /\ call' = call
  BY DEF AInv, IInv, TypeOK, SessionInv, Store
<1>2. wire[1] \in Fragment /\ wire[2] \in Fragment
  BY <1>1
<1>3. /\ wire[1].at \in Nat /\ wire[2].power \in BOOLEAN /\ wire[1].at <= now
  BY <1>1, <1>2 DEF Fragment, AInv, IInv, LagInv
<1>4. Seen' = [at |-> wire[1].at, power |-> wire[2].power]
  BY <1>1 DEF Seen
<1>5. Seen' \in Fresh!Record /\ Seen'.at = wire[1].at
  BY <1>3, <1>4 DEF Fresh!Record
<1>6. Seen.at <= wire[1].at
  <2>1. CASE earned
    <3>1. Seen.at = cached[1].at
      BY <2>1 DEF Seen
    <3>2. cached[1].at <= wire[1].at
      BY <1>1, <2>1 DEF AInv, OrderInv
    <3> QED
      BY <3>1, <3>2
  <2>2. CASE ~earned
    <3>1. Seen.at = -1
      BY <2>2 DEF Seen
    <3> QED
      BY <1>3, <3>1
  <2> QED
    BY <2>1, <2>2
<1>7. [c \in Callers |-> Query(c)]' = [c \in Callers |-> Query(c)]
  BY <1>1 DEF Query, Pending
<1>8. Fresh!Witness
  BY WitnessMaps
<1> QED
  BY <1>1, <1>3, <1>5, <1>6, <1>7, <1>8 DEF Fresh!Deliver

\* A caller's step asks, answers, refuses or returns, or is not seen; it
\* answers TRUE only with a witness.
LEMMA CallerMaps ==
  ASSUME AInv, AInv', Witness, NEW c \in Callers, CallerStep(c)
  PROVE  Fresh!Next \/ UNCHANGED Fresh!vars
<1> DEFINE query == [d \in Callers |-> Query(d)]
<1>1. /\ call \in [Callers -> Call] /\ call[c] \in Call /\ CallInv(c)
  BY DEF AInv, IInv, TypeOK
<1>2. /\ UNCHANGED <<now, connected, earned, cached, lastRx>>
      /\ \A d \in Callers : d # c => call'[d] = call[d]
  BY <1>1 DEF CallerStep, CallConnected, CallPower, LoadRx, ReadClock,
     ReadPower, Return, Goto, readerVars
<1>3. Seen' = Seen /\ Fresh!Witness
  BY <1>2, WitnessMaps DEF Seen
<1>4. \A d \in Callers : d # c => Query(d)' = Query(d)
  BY <1>2 DEF Query, Pending
<1>5. query' = [query EXCEPT ![c] = Query(c)']
  BY <1>4
<1>6. query[c] = Query(c)
  OBVIOUS
<1>7. Query(c)' = Query(c) => UNCHANGED Fresh!vars
  BY <1>2, <1>4, Unseen
<1>8. ASSUME Query(c) = "none", NEW q \in Fresh!Questions, Query(c)' = q
      PROVE  Fresh!Next
  <2>1. Fresh!Ask(c, q)
    BY <1>2, <1>3, <1>5, <1>6, <1>8 DEF Fresh!Ask
  <2> QED
    BY <1>8, <2>1 DEF Fresh!Next
<1>9. ASSUME Query(c) = "none", Query(c)' = "no"
      PROVE  Fresh!Next
  <2>1. Fresh!Refuse(c)
    BY <1>2, <1>3, <1>5, <1>6, <1>9 DEF Fresh!Refuse
  <2> QED
    BY <2>1 DEF Fresh!Next
<1>10. ASSUME Pending(c), NEW a \in Fresh!Answers, Query(c)' = a,
              a = "yes" => justified[c]
       PROVE  Fresh!Next
  <2>1. Query(c) \in Fresh!Questions
    BY <1>1, <1>10, AsksWhilePending DEF CallInv
  <2>2. Fresh!Answer(c, a)
    BY <1>2, <1>3, <1>5, <1>6, <1>10, <2>1 DEF Fresh!Answer
  <2> QED
    BY <1>10, <2>2 DEF Fresh!Next
<1>11. ASSUME Query(c) \in Fresh!Answers, Query(c)' = "none"
       PROVE  Fresh!Next
  <2>1. Fresh!Return(c)
    BY <1>2, <1>3, <1>5, <1>6, <1>11 DEF Fresh!Return
  <2> QED
    BY <2>1 DEF Fresh!Next
<1> HIDE DEF query
<1>12. CASE CallConnected(c)
  <2>1. call'[c] = Frame("connected", IF connected THEN "loadRx" ELSE "no", -1)
    BY <1>1, <1>12 DEF CallConnected, Goto
  <2>2. Query(c) = "none"
    BY <1>12 DEF CallConnected, Query, Pending
  <2>3. CASE connected
    <3>1. Query(c)' = "connected"
      BY <2>1, <2>3 DEF Frame, Query, Pending
    <3>2. "connected" \in Fresh!Questions
      BY DEF Fresh!Questions
    <3> QED
      BY <1>8, <2>2, <3>1, <3>2
  <2>4. CASE ~connected
    <3>1. Query(c)' = "no"
      BY <2>1, <2>4 DEF Frame, Query, Pending
    <3> QED
      BY <1>9, <2>2, <3>1
  <2> QED
    BY <2>3, <2>4
<1>13. CASE CallPower(c)
  <2>1. call'[c] = Frame("power", "loadRx", -1)
    BY <1>1, <1>13 DEF CallPower, Goto
  <2>2. Query(c) = "none"
    BY <1>13 DEF CallPower, Query, Pending
  <2>3. Query(c)' = "power"
    BY <2>1 DEF Frame, Query, Pending
  <2>4. "power" \in Fresh!Questions
    BY DEF Fresh!Questions
  <2> QED
    BY <1>8, <2>2, <2>3, <2>4
<1>14. CASE LoadRx(c)
  <2>1. /\ call'[c] = Frame(call[c].op, "readClock", lastRx)
        /\ call[c].pc = "loadRx"
    BY <1>1, <1>14 DEF LoadRx, Goto
  <2>2. Query(c)' = Query(c)
    BY <2>1 DEF Frame, Query, Pending
  <2> QED
    BY <1>7, <2>2
<1>15. CASE ReadClock(c)
  <2>1. /\ call'[c] = Frame(call[c].op,
                 IF ~DataCurrent(call[c].rx) THEN "no"
                 ELSE IF call[c].op = "power" THEN "readPower" ELSE "yes",
                 call[c].rx)
        /\ call[c].pc = "readClock" /\ Pending(c)
    BY <1>1, <1>15 DEF ReadClock, Goto, Pending
  <2>2. CASE ~DataCurrent(call[c].rx)
    <3>1. Query(c)' = "no"
      BY <2>1, <2>2 DEF Frame, Query, Pending
    <3>2. "no" \in Fresh!Answers
      BY DEF Fresh!Answers
    <3> QED
      BY <1>10, <2>1, <3>1, <3>2
  <2>3. CASE DataCurrent(call[c].rx) /\ call[c].op = "power"
    <3>1. Query(c)' = Query(c)
      BY <2>1, <2>3 DEF Frame, Query, Pending
    <3> QED
      BY <1>7, <3>1
  <2>4. CASE DataCurrent(call[c].rx) /\ call[c].op # "power"
    <3>1. Query(c)' = "yes"
      BY <2>1, <2>4 DEF Frame, Query, Pending
    <3>2. "yes" \in Fresh!Answers
      BY DEF Fresh!Answers
    <3>3. call[c].op = "connected"
      BY <1>1, <2>1, <2>4 DEF CallInv, FrameInv
    <3>4. call[c].rx # -1 /\ now - call[c].rx <= StaleAfter
      BY <2>4 DEF DataCurrent
    <3>5. ~Stale(call[c].rx)
      <4>1. call[c].rx \in Nat /\ now \in Nat /\ StaleAfter \in Nat
        BY <1>1, <3>4, ClientAssumption DEF Call, AInv, IInv, TypeOK
      <4> QED
        BY <3>4, <4>1 DEF Stale
    <3>6. justified[c]
      BY <1>1, <2>1, <3>3, <3>4, <3>5 DEF CallInv, ConnectedInv
    <3> QED
      BY <1>10, <2>1, <3>1, <3>2, <3>6
  <2> QED
    BY <2>2, <2>3, <2>4
<1>16. CASE ReadPower(c)
  <2>1. /\ call'[c] = Frame("power", IF Power(cached) THEN "yes" ELSE "no", -1)
        /\ call[c].pc = "readPower" /\ Pending(c)
    BY <1>1, <1>16 DEF ReadPower, Goto, Pending
  <2>2. "yes" \in Fresh!Answers /\ "no" \in Fresh!Answers
    BY DEF Fresh!Answers
  <2>3. CASE Power(cached)
    <3>1. Query(c)' = "yes"
      BY <2>1, <2>3 DEF Frame, Query, Pending
    <3>2. justified[c]
      BY <1>1, <2>1, <2>3 DEF CallInv, FrameInv, PowerInv
    <3> QED
      BY <1>10, <2>1, <2>2, <3>1, <3>2
  <2>4. CASE ~Power(cached)
    <3>1. Query(c)' = "no"
      BY <2>1, <2>4 DEF Frame, Query, Pending
    <3> QED
      BY <1>10, <2>1, <2>2, <3>1
  <2> QED
    BY <2>3, <2>4
<1>17. CASE Return(c)
  <2>1. call'[c] = Idle /\ call[c].pc \in {"yes", "no"}
    BY <1>1, <1>17 DEF Return, Goto
  <2>2. Query(c) \in Fresh!Answers /\ Query(c)' = "none"
    BY <2>1 DEF Idle, Frame, Query, Pending, Fresh!Answers
  <2> QED
    BY <1>11, <2>2
<1> QED
  BY <1>12, <1>13, <1>14, <1>15, <1>16, <1>17 DEF CallerStep

\* The driver starts where Freshness starts.
LEMMA InitMaps == Init => Fresh!Init
<1> SUFFICES ASSUME Init PROVE Fresh!Init
  OBVIOUS
<1>1. Seen = Fresh!NoRecord
  BY DEF Init, Seen, Fresh!NoRecord
<1>2. [c \in Callers |-> Query(c)] = [c \in Callers |-> "none"]
  BY DEF Init, Idle, Frame, Query, Pending
<1> QED
  BY <1>1, <1>2 DEF Init, Fresh!Init

\* Every step of the driver is one of Freshness, or is not seen there.
LEMMA StepMaps ==
  AInv /\ AInv' /\ [Next]_vars => Fresh!Next \/ UNCHANGED Fresh!vars
<1> SUFFICES ASSUME AInv, AInv', [Next]_vars
             PROVE  Fresh!Next \/ UNCHANGED Fresh!vars
  OBVIOUS
<1>1. CASE UNCHANGED vars
  <2>1. /\ UNCHANGED <<now, connected, justified>> /\ Seen' = Seen
        /\ [c \in Callers |-> Query(c)]' = [c \in Callers |-> Query(c)]
    BY <1>1 DEF vars, history, readerVars, Seen, Query, Pending
  <2> QED
    BY <2>1 DEF Fresh!vars
<1>2. CASE Next
  <2>1. Witness /\ Fresh!Witness
    BY <1>2, WitnessMaps DEF Next
  <2>2. ASSUME call' = call
        PROVE  /\ [c \in Callers |-> Query(c)]' = [c \in Callers |-> Query(c)]
               /\ \A c \in Callers : Query(c)' = Query(c)
    BY <2>2 DEF Query, Pending
  <2>3. ASSUME UNCHANGED <<now, connected, earned, cached, call>>
        PROVE  UNCHANGED Fresh!vars
    BY <2>1, <2>2, <2>3, Unseen
  <2>4. CASE Tick
    <3>1. /\ now' = now + 1 /\ call' = call
          /\ UNCHANGED <<connected, earned, cached>>
      BY <2>4 DEF Tick, readerVars
    <3>2. Fresh!Tick
      BY <2>1, <2>2, <3>1 DEF Fresh!Tick, Seen
    <3> QED
      BY <3>2 DEF Fresh!Next
  <2>5. CASE DaemonStep \/ Destroy
    BY <2>3, <2>5 DEF DaemonStep, DaemonUp, DaemonWrite, ShortWrite,
       Stall, Resume, DaemonExit, Destroy, readerVars
  <2>6. CASE SocketHeld \/ TryConnect \/ ConnectFails \/ Wake \/ PollReady \/ Read
    BY <2>3, <2>6 DEF SocketHeld, TryConnect, ConnectFails, Wake, PollReady, Read
  <2>7. CASE PollTimeout \/ PollGone \/ IoFails \/ Stamp \/ Join
    BY <2>3, <2>7 DEF PollTimeout, PollGone, IoFails, Stamp, Join
  <2>8. CASE Connected
    <3>1. /\ ~connected /\ ~earned /\ connected' = TRUE /\ call' = call
          /\ UNCHANGED <<now, earned, cached>>
      BY <2>8 DEF Connected, AInv, IInv, SessionInv
    <3>2. Seen = Fresh!NoRecord /\ Seen' = Seen
      BY <3>1 DEF Seen, Fresh!NoRecord
    <3>3. Fresh!Link
      BY <2>1, <2>2, <3>1, <3>2 DEF Fresh!Link
    <3> QED
      BY <3>3 DEF Fresh!Next
  <2>9. CASE Store
    <3>1. Fresh!Deliver
      BY <2>1, <2>9, StoreDelivers
    <3> QED
      BY <3>1 DEF Fresh!Next
  <2>10. CASE Drop
    <3>1. connected' = FALSE /\ call' = call /\ UNCHANGED <<now, earned, cached>>
      BY <2>10 DEF Drop
    <3>2. Fresh!Unlink
      BY <2>1, <2>2, <3>1 DEF Fresh!Unlink, Seen
    <3> QED
      BY <3>2 DEF Fresh!Next
  <2>11. CASE Forget
    <3>1. /\ ~connected /\ ~earned' /\ call' = call
          /\ UNCHANGED <<now, connected>>
      BY <2>11 DEF Forget, AInv, IInv, SessionInv
    <3>2. Seen' = Fresh!NoRecord
      BY <3>1 DEF Seen, Fresh!NoRecord
    <3>3. Fresh!Forget
      BY <2>1, <2>2, <3>1, <3>2 DEF Fresh!Forget
    <3> QED
      BY <3>3 DEF Fresh!Next
  <2>12. ASSUME NEW c \in Callers, CallerStep(c)
         PROVE  Fresh!Next \/ UNCHANGED Fresh!vars
    BY <2>1, <2>12, CallerMaps
  <2> QED
    BY <1>2, <2>4, <2>5, <2>6, <2>7, <2>8, <2>9, <2>10, <2>11, <2>12
    DEF Next, ReaderStep
<1> QED
  BY <1>1, <1>2

-----------------------------------------------------------------------------
(* The result.                                                             *)

\* What the answers rest on holds in every state of the driver.
THEOREM WitnessedAlways == Spec => []AInv
  BY InitAInv, NextAInv, PTL DEF Spec

\* The driver implements Freshness: every answer TRUE of is_connected() and
\* is_power_on() was right at some instant of the call, across stores,
\* reconnections and both halves of disconnect(); a session starts without
\* data, and within it records only get newer.
THEOREM AnswersAreEarned == Spec => AnswersEarned
<1>1. Init => Fresh!Init
  BY InitMaps
<1>2. AInv /\ AInv' /\ [Next]_vars => [Fresh!Next]_(Fresh!vars)
  BY StepMaps
<1> QED
  BY <1>1, <1>2, WitnessedAlways, PTL DEF Spec, AnswersEarned, Fresh!Spec
=============================================================================

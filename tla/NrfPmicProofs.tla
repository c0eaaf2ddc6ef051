---------------------------- MODULE NrfPmicProofs ----------------------------
(***************************************************************************)
(* What the poll thread and a caller of the nRF driver, on one port and    *)
(* without a lock, cannot spoil: the lines a thread assembles while it is  *)
(* alone, the report the cache is of, and its order, for any number of     *)
(* lines, any lateness and any loss.                                       *)
(***************************************************************************)
EXTENDS NrfPmic, SequenceTheorems, TLAPS

-----------------------------------------------------------------------------
(* The inductive invariant, part by part.                                  *)

Places == {"unborn", "idle", "poll", "read", "parse", "soc", "copy", "copied",
           "join", "done"}
Kinds     == {"bms", "text", "other"}
Fragments == [id : Nat, kind : Kinds, part : {"head", "tail"}]
Records   == [volt : Nat, soc : Nat, shared : BOOLEAN]

TypeInv ==
    /\ thread \in [Threads -> [at : Places, line : Seq(Fragments), shared : BOOLEAN]]
    /\ out \in Seq(Fragments) /\ rx \in Seq(Fragments)
    /\ lines \in Nat /\ status \in Records /\ cached \in Records
    /\ cut \in BOOLEAN /\ heard \in BOOLEAN /\ calm \in BOOLEAN

\* What a thread has in hand at each of its steps.
HandsInv ==
    \A t \in Threads :
        /\ thread[t].at \in {"parse", "soc"} => thread[t].line # <<>>
        /\ thread[t].at \notin {"poll", "read", "parse", "soc"} => thread[t].line = <<>>

\* Two threads that are busy at a time both know it.
SharingInv ==
    Busy("poller") /\ Busy("caller") =>
        thread["poller"].shared /\ thread["caller"].shared

Alone(t) == Busy(t) /\ ~thread[t].shared

TailOf(h) == Fragment(h.id, h.kind, "tail")

\* f is the next fragment that will be read.
NextUp(f) == IF rx # <<>> THEN rx[1] = f ELSE out # <<>> /\ out[1] = f

\* Unless the board has stopped in the middle of a line, each head is followed
\* by its own tail, on the line and in the hands of a thread that is alone.
PairInv ==
    ~cut =>
        /\ \A i \in 1 .. Len(out) :
              out[i].part = "head" => i < Len(out) /\ out[i + 1] = TailOf(out[i])
        /\ \A i \in 1 .. Len(rx) :
              rx[i].part = "head" =>
                  IF i < Len(rx) THEN rx[i + 1] = TailOf(rx[i])
                                 ELSE out # <<>> /\ out[1] = TailOf(rx[i])
        /\ \A t \in Threads : Alone(t) =>
              /\ thread[t].at \in {"poll", "read"} /\ thread[t].line # <<>> =>
                     /\ Len(thread[t].line) = 1 /\ thread[t].line[1].part = "head"
                     /\ NextUp(TailOf(thread[t].line[1]))
              /\ thread[t].at \in {"parse", "soc"} =>
                     \/ thread[t].line[1].part = "tail"
                     \/ thread[t].line = <<thread[t].line[1], TailOf(thread[t].line[1])>>

\* Everything still to be read is at least as new as n.
Past(n) ==
    /\ n <= lines
    /\ \A i \in 1 .. Len(rx) : n <= rx[i].id
    /\ \A i \in 1 .. Len(out) : n <= out[i].id

\* Lines are read in the order they were sent.
OrderInv ==
    /\ \A i \in 1 .. Len(out) : \A j \in i .. Len(out) : out[i].id <= out[j].id
    /\ \A i \in 1 .. Len(rx), j \in 1 .. Len(out) : rx[i].id <= out[j].id
    /\ \A i \in 1 .. Len(rx) : rx[i].id <= lines
    /\ \A i \in 1 .. Len(out) : out[i].id <= lines
    /\ Past(status.volt) /\ Past(cached.volt)
    /\ \A t \in Threads : \A i \in 1 .. Len(thread[t].line) : Past(thread[t].line[i].id)

\* What a thread that is alone reads or has parsed is no older than the cache.
ForwardInv ==
    /\ \A t \in Threads : Alone(t) =>
          /\ \A i \in 1 .. Len(thread[t].line) : cached.volt <= thread[t].line[i].id
          /\ thread[t].at = "soc" => status.volt = thread[t].line[1].id
    /\ ~status.shared => cached.volt <= status.volt

\* Outside parse_response() a record nobody else has touched is of one report,
\* and so is the copy of it.
ReportInv ==
    /\ ~cut /\ ~status.shared /\ (\A t \in Threads : thread[t].at # "soc") =>
          status.volt = status.soc
    /\ thread["poller"].at = "copied" /\ Alone("poller") /\ ~cached.shared =>
          cached.volt = status.volt
    /\ \A t \in Threads : thread[t].at = "soc" => thread[t].line[1].part = "head"
    /\ OneReportUnlessShared

H == Fragment(lines, "bms", "head")
T == Fragment(lines, "bms", "tail")
Hands == thread["poller"].line

\* The line during an undisturbed poll that nothing was outstanding for: the
\* report is on its way, in hand, parsed, or lost.
Unread ==
    \/ Hands = <<>> /\ rx = <<>> /\ out = <<>>
    \/ Hands = <<>> /\ rx = <<>> /\ out = <<H, T>>
    \/ Hands = <<>> /\ rx = <<H>> /\ out = <<T>>
    \/ Hands = <<>> /\ rx = <<H, T>> /\ out = <<>>
    \/ Hands = <<>> /\ rx = <<H>> /\ out = <<>>
    \/ Hands = <<H>> /\ rx = <<>> /\ out = <<T>>
    \/ Hands = <<H>> /\ rx = <<T>> /\ out = <<>>
    \/ Hands = <<H>> /\ rx = <<>> /\ out = <<>>

CalmInv ==
    Alone("poller") /\ calm =>
        /\ turn = "GETBMS"
        /\ thread["poller"].at \in {"poll", "read"} /\ ~heard => Unread
        /\ thread["poller"].at \in {"parse", "soc"} =>
              /\ ~heard /\ Hands = <<H, T>> /\ rx = <<>> /\ out = <<>>
        /\ thread["poller"].at = "soc" => status.volt = lines
        /\ heard => rx = <<>> /\ out = <<>> /\ Hands = <<>> /\ status.volt = lines
        /\ thread["poller"].at \in {"copy", "copied"} => heard
        /\ thread["poller"].at = "copied" => cached.volt = lines

IInv == TypeInv /\ HandsInv /\ SharingInv /\ PairInv /\ OrderInv /\ ForwardInv
           /\ ReportInv /\ CalmInv

-----------------------------------------------------------------------------
(* What a step does to the threads.                                        *)

Slots == [at : Places, line : Seq(Fragments), shared : BOOLEAN]

\* Each thread has one other.
LEMMA TwoThreads ==
  ASSUME NEW t \in Threads
  PROVE  /\ Other(t) \in Threads /\ Other(t) # t
         /\ \A u \in Threads : u = t \/ u = Other(t)
         /\ "poller" \in Threads /\ "caller" \in Threads
BY DEF Threads, Other

\* A thread's place, hands and mark have their types.
LEMMA SlotTyped ==
  ASSUME TypeInv, NEW t \in Threads
  PROVE  /\ thread[t] \in Slots
         /\ thread[t].at \in Places /\ thread[t].line \in Seq(Fragments)
         /\ thread[t].shared \in BOOLEAN
         /\ thread[t] = [at |-> thread[t].at, line |-> thread[t].line,
                         shared |-> thread[t].shared]
<1>1. thread[t] \in Slots
  BY DEF TypeInv, Slots
<1> QED
  BY <1>1 DEF Slots

\* A step of one thread leaves the other as it is.
LEMMA OneMoves ==
  ASSUME TypeInv, NEW t \in Threads, NEW r \in Slots,
         thread' = [thread EXCEPT ![t] = r]
  PROVE  /\ thread' \in [Threads -> Slots]
         /\ thread'[t] = r
         /\ \A u \in Threads : u # t => thread'[u] = thread[u]
BY DEF TypeInv, Slots

\* The fragments of a line are fragments, and those of the line they are in.
LEMMA FragmentTyped ==
  ASSUME NEW s \in Seq(Fragments)
  PROVE  /\ Len(s) \in Nat /\ (s = <<>> <=> Len(s) = 0)
         /\ \A i \in 1 .. Len(s) :
               s[i] \in Fragments /\ s[i].id \in Nat /\ s[i].part \in {"head", "tail"}
<1>1. \A i \in 1 .. Len(s) : s[i] \in Fragments
  OBVIOUS
<1> QED
  BY <1>1 DEF Fragments

\* A step that ends the process, or changes running_ or setup only.
LEMMA StutterKeeps ==
  ASSUME IInv, UNCHANGED <<thread, polled, out, rx, cut, lines, status, cached>>
  PROVE  IInv'
<1>1. UNCHANGED <<turn, heard, calm>>
  BY DEF polled
<1>2. TypeInv' /\ HandsInv' /\ SharingInv' /\ PairInv'
  BY <1>1 DEF IInv, TypeInv, HandsInv, SharingInv, PairInv, Alone, Busy, NextUp
<1>3. OrderInv' /\ ForwardInv' /\ ReportInv'
  BY <1>1 DEF IInv, OrderInv, Past, ForwardInv, ReportInv, OneReportUnlessShared,
              Alone, Busy
<1>4. CalmInv'
  BY <1>1 DEF IInv, CalmInv, Alone, Busy, Unread, Hands, H, T
<1> QED
  BY <1>2, <1>3, <1>4 DEF IInv

\* poll() only tells a thread that there is input.
LEMMA PollKeeps ==
  ASSUME IInv, NEW t \in Threads, Poll(t)
  PROVE  IInv'
<1> DEFINE r == [thread[t] EXCEPT !.at = "read"]
<1>1. /\ thread[t].at = "poll" /\ thread' = [thread EXCEPT ![t] = r]
      /\ UNCHANGED <<turn, heard, calm, out, rx, cut, lines, status, cached>>
  BY DEF Poll, polled
<1>2. /\ r \in Slots /\ r.at = "read" /\ r.line = thread[t].line
      /\ r.shared = thread[t].shared
  BY SlotTyped DEF IInv, Slots, Places
<1> HIDE DEF r
<1>3. /\ thread' \in [Threads -> Slots] /\ thread'[t] = r
      /\ \A u \in Threads : u # t => thread'[u] = thread[u]
  BY <1>1, <1>2, OneMoves DEF IInv
<1>4. \A u \in Threads : /\ thread'[u].line = thread[u].line
                         /\ thread'[u].shared = thread[u].shared
                         /\ thread'[u].at = thread[u].at \/
                               (thread[u].at = "poll" /\ thread'[u].at = "read")
  BY <1>1, <1>2, <1>3
<1>5. \A u \in Threads : Busy(u)' <=> Busy(u)
  BY <1>4 DEF Busy
<1>6. \A u \in Threads : Alone(u)' <=> Alone(u)
  BY <1>4, <1>5 DEF Alone
<1>7. "poller" \in Threads /\ "caller" \in Threads
  BY DEF Threads
<1>8. TypeInv'
  BY <1>1, <1>3 DEF IInv, TypeInv, Slots
<1>9. HandsInv' /\ SharingInv'
  BY <1>4, <1>5, <1>7 DEF IInv, HandsInv, SharingInv
<1>10. PairInv'
  BY <1>1, <1>4, <1>6 DEF IInv, PairInv, NextUp
<1>11. OrderInv' /\ ForwardInv'
  BY <1>1, <1>4, <1>6 DEF IInv, OrderInv, ForwardInv, Past
<1>12. ReportInv'
  BY <1>1, <1>4, <1>6, <1>7 DEF IInv, ReportInv, OneReportUnlessShared
<1>13. CalmInv'
  BY <1>1, <1>4, <1>6, <1>7 DEF IInv, CalmInv, Unread, Hands, H, T
<1> QED
  BY <1>8, <1>9, <1>10, <1>11, <1>12, <1>13 DEF IInv

\* A thread comes to rest with nothing in hand; the call it was in counts no
\* more.
LEMMA RestKeeps ==
  ASSUME IInv, NEW t \in Threads, NEW r \in Slots,
         thread' = [thread EXCEPT ![t] = r],
         r.at \in {"idle", "join", "done"}, r.line = <<>>,
         thread[t].at \notin {"soc", "copied"},
         UNCHANGED <<out, rx, cut, lines, status, cached>>,
         heard' \in BOOLEAN, calm' \in BOOLEAN,
         t # "poller" => UNCHANGED <<turn, heard, calm>>
  PROVE  IInv'
<1>1. /\ thread' \in [Threads -> Slots] /\ thread'[t] = r
      /\ \A u \in Threads : u # t => thread'[u] = thread[u]
  BY OneMoves DEF IInv
<1>2. ~Busy(t)' /\ ~Alone(t)'
  BY <1>1 DEF Busy, Alone
<1>3. \A u \in Threads : u # t => (Busy(u)' <=> Busy(u)) /\ (Alone(u)' <=> Alone(u))
  BY <1>1 DEF Busy, Alone
<1>4. "poller" \in Threads /\ "caller" \in Threads
  BY DEF Threads
<1>5. TypeInv'
  BY <1>1 DEF IInv, TypeInv, Slots
<1>6. HandsInv'
  BY <1>1 DEF IInv, HandsInv
<1>7. SharingInv'
  BY <1>1, <1>2, <1>3, <1>4 DEF IInv, SharingInv
<1>8. PairInv'
  BY <1>1, <1>2, <1>3 DEF IInv, PairInv, NextUp
<1>9. OrderInv'
  <2>1. \A u \in Threads : \A i \in 1 .. Len(thread'[u].line) : Past(thread'[u].line[i].id)
    <3>1. Len(<<>>) = 0 /\ 1 .. 0 = {}
      OBVIOUS
    <3> QED
      BY <1>1, <3>1 DEF IInv, OrderInv
  <2> QED
    BY <2>1 DEF IInv, OrderInv, Past
<1>10. ForwardInv'
  BY <1>1, <1>2, <1>3 DEF IInv, ForwardInv
<1>11. ReportInv'
  <2>1. (\A u \in Threads : thread'[u].at # "soc") => \A u \in Threads : thread[u].at # "soc"
    BY <1>1
  <2>2. thread'["poller"].at # "copied" => thread["poller"].at # "copied"
    BY <1>1, <1>4
  <2>3. thread'["poller"].at = "copied" /\ Alone("poller")' =>
           thread["poller"].at = "copied" /\ Alone("poller")
    BY <1>1, <1>2, <1>3, <1>4
  <2>4. \A u \in Threads : thread'[u].at = "soc" => thread'[u] = thread[u]
    BY <1>1
  <2> QED
    BY <2>1, <2>2, <2>3, <2>4 DEF IInv, ReportInv, OneReportUnlessShared
<1>12. CalmInv'
  <2>1. CASE t = "poller"
    BY <2>1, <1>2 DEF CalmInv
  <2>2. CASE t # "poller"
    BY <2>2, <1>1, <1>3, <1>4 DEF IInv, CalmInv, Unread, Hands, H, T
  <2> QED
    BY <2>1, <2>2
<1> QED
  BY <1>5, <1>6, <1>7, <1>8, <1>9, <1>10, <1>11, <1>12 DEF IInv

\* The loop of read_line() calls is over, and leaves a report to copy or not.
LEMMA ReturnKeeps ==
  ASSUME IInv, NEW t \in Threads, Timeout(t) \/ ReadNothing(t)
  PROVE  IInv'
<1>1. /\ thread[t].at \in {"poll", "read"} /\ thread' = [thread EXCEPT ![t] = Returned(t)]
      /\ UNCHANGED <<turn, heard, calm, out, rx, cut, lines, status, cached>>
  BY DEF Timeout, ReadNothing, polled
<1>2. heard \in BOOLEAN /\ calm \in BOOLEAN
  BY DEF IInv, TypeInv
<1>3. CASE t = "poller" /\ turn = "GETBMS" /\ heard
  <2> DEFINE r == [thread[t] EXCEPT !.at = "copy", !.line = <<>>]
  <2>1. Returned(t) = r
    BY <1>3 DEF Returned
  <2>2. /\ r \in Slots /\ r.at = "copy" /\ r.line = <<>> /\ r.shared = thread[t].shared
    <3>1. <<>> \in Seq(Fragments)
      OBVIOUS
    <3>2. thread[t] \in Slots
      BY SlotTyped DEF IInv
    <3> QED
      BY <3>1, <3>2 DEF Slots, Places
  <2> HIDE DEF r
  <2>3. /\ thread' \in [Threads -> Slots] /\ thread'[t] = r
        /\ \A u \in Threads : u # t => thread'[u] = thread[u]
    BY <1>1, <2>1, <2>2, OneMoves DEF IInv
  <2>4. \A u \in Threads : (Busy(u)' <=> Busy(u)) /\ (Alone(u)' <=> Alone(u))
    BY <1>1, <2>2, <2>3 DEF Busy, Alone
  <2>5. "poller" \in Threads /\ "caller" \in Threads
    BY DEF Threads
  <2>6. \A u \in Threads : /\ thread'[u].at = "soc" <=> thread[u].at = "soc"
                           /\ thread'[u].at # "copied" \/ thread[u].at = "copied"
                           /\ thread[u].at # "copied" \/ thread'[u].at = "copied"
                           /\ thread'[u].line = <<>> \/ thread'[u] = thread[u]
                           /\ thread'[u].shared = thread[u].shared
    BY <1>1, <2>2, <2>3
  <2>7. TypeInv'
    BY <1>1, <2>3 DEF IInv, TypeInv, Slots
  <2>8. HandsInv' /\ SharingInv'
    BY <2>2, <2>3, <2>4, <2>5, <2>6 DEF IInv, HandsInv, SharingInv
  <2>9. PairInv'
    BY <1>1, <2>2, <2>3, <2>4 DEF IInv, PairInv, NextUp
  <2>10. OrderInv' /\ ForwardInv'
    <3>1. Len(<<>>) = 0 /\ 1 .. 0 = {}
      OBVIOUS
    <3>2. \A u \in Threads : \A i \in 1 .. Len(thread'[u].line) :
             i \in 1 .. Len(thread[u].line) /\ thread'[u].line[i] = thread[u].line[i]
      BY <2>6, <3>1
    <3>3. OrderInv'
      BY <1>1, <3>2 DEF IInv, OrderInv, Past
    <3>4. \A u \in Threads : Alone(u)' => \A i \in 1 .. Len(thread'[u].line) :
             cached.volt <= thread'[u].line[i].id
      BY <2>4, <3>2 DEF IInv, ForwardInv
    <3>5. \A u \in Threads : thread'[u].at = "soc" => thread'[u] = thread[u]
      BY <2>2, <2>3
    <3> QED
      BY <1>1, <2>4, <3>3, <3>4, <3>5 DEF IInv, ForwardInv
  <2>11. ReportInv'
    <3>1. \A u \in Threads : thread'[u].at = "soc" => thread'[u] = thread[u]
      BY <2>2, <2>3
    <3> QED
      BY <1>1, <2>4, <2>5, <2>6, <3>1 DEF IInv, ReportInv, OneReportUnlessShared
  <2>12. CalmInv'
    BY <1>1, <1>3, <2>2, <2>3, <2>4 DEF IInv, CalmInv, Hands
  <2> QED
    BY <2>7, <2>8, <2>9, <2>10, <2>11, <2>12 DEF IInv
<1>4. CASE ~(t = "poller" /\ turn = "GETBMS" /\ heard)
  <2>1. Returned(t) = Thread("idle")
    BY <1>4 DEF Returned
  <2>2. /\ Thread("idle") \in Slots /\ Thread("idle").at = "idle"
        /\ Thread("idle").line = <<>>
    BY DEF Thread, Slots, Places
  <2> QED
    BY <1>1, <1>2, <2>1, <2>2, RestKeeps
<1> QED
  BY <1>3, <1>4

\* Nobody is alone while another thread is busy.
LEMMA Company ==
  ASSUME IInv, NEW t \in Threads, Busy(t), NEW u \in Threads, Alone(u)
  PROVE  u = t /\ ~thread[t].shared
BY DEF IInv, SharingInv, Alone, Threads

\* What is in hand after a read(): what was, and the first n fragments.
LEMMA Took ==
  ASSUME NEW s \in Seq(Fragments), NEW q \in Seq(Fragments), NEW n \in 1 .. Len(q)
  PROVE  LET l == s \o SubSeq(q, 1, n) IN
         /\ l \in Seq(Fragments) /\ Len(l) = Len(s) + n /\ l # <<>>
         /\ \A i \in 1 .. Len(s) : l[i] = s[i]
         /\ \A i \in 1 .. n : l[Len(s) + i] = q[i]
         /\ \A i \in 1 .. Len(l) : \/ i \in 1 .. Len(s) /\ l[i] = s[i]
                                   \/ \E j \in 1 .. Len(q) : l[i] = q[j]
<1> DEFINE p == SubSeq(q, 1, n)
           l == s \o p
<1>1. p \in Seq(Fragments) /\ Len(p) = n /\ \A i \in 1 .. n : p[i] = q[i]
  OBVIOUS
<1> HIDE DEF p
<1>2. /\ l \in Seq(Fragments) /\ Len(l) = Len(s) + n
      /\ \A i \in 1 .. Len(l) : l[i] = IF i <= Len(s) THEN s[i] ELSE p[i - Len(s)]
  BY <1>1
<1>3. Len(s) \in Nat /\ n \in Nat /\ n > 0 /\ n <= Len(q) /\ Len(q) \in Nat
  OBVIOUS
<1> HIDE DEF l
<1>4. l # <<>>
  BY <1>2, <1>3
<1>5. \A i \in 1 .. Len(s) : l[i] = s[i]
  BY <1>2, <1>3
<1>6. \A i \in 1 .. n : l[Len(s) + i] = q[i]
  <2> TAKE i \in 1 .. n
  <2>1. Len(s) + i \in 1 .. Len(l) /\ ~(Len(s) + i <= Len(s)) /\ Len(s) + i - Len(s) = i
    BY <1>2, <1>3
  <2> QED
    BY <2>1, <1>1, <1>2
<1>7. \A i \in 1 .. Len(l) : \/ i \in 1 .. Len(s) /\ l[i] = s[i]
                             \/ \E j \in 1 .. Len(q) : l[i] = q[j]
  <2> TAKE i \in 1 .. Len(l)
  <2>1. CASE i <= Len(s)
    BY <2>1, <1>2, <1>3
  <2>2. CASE ~(i <= Len(s))
    <3>1. i - Len(s) \in 1 .. n /\ i - Len(s) \in 1 .. Len(q)
      BY <2>2, <1>2, <1>3
    <3> QED
      BY <3>1, <2>2, <1>1, <1>2
  <2> QED
    BY <2>1, <2>2
<1> QED
  BY <1>2, <1>4, <1>5, <1>6, <1>7 DEF l, p

\* A read() takes all there is and leaves the thread with n fragments more: a
\* piece of a line, or what ends one.
LEMMA ReadTakes ==
  ASSUME IInv, NEW t \in Threads, Read(t)
  PROVE  \E n \in 1 .. Len(rx), at \in {"poll", "parse"} :
            /\ thread' = [thread EXCEPT ![t] =
                  [thread[t] EXCEPT !.at = at, !.line = thread[t].line \o SubSeq(rx, 1, n)]]
            /\ \A i \in 1 .. n - 1 : rx[i].part = "head"
            /\ at = "poll" => n = Len(rx) /\ rx[n].part = "head"
            /\ at = "parse" => rx[n].part = "tail"
<1>1. rx \in Seq(Fragments) /\ rx # <<>> /\ Len(rx) \in Nat /\ Len(rx) > 0
  BY DEF IInv, TypeInv, Read
<1>2. CASE /\ \A i \in DOMAIN rx : rx[i].part = "head"
           /\ thread' = [thread EXCEPT ![t].line = @ \o rx, ![t].at = "poll"]
  <2>1. SubSeq(rx, 1, Len(rx)) = rx
    BY <1>1
  <2>2. thread' = [thread EXCEPT ![t] =
            [thread[t] EXCEPT !.at = "poll", !.line = thread[t].line \o SubSeq(rx, 1, Len(rx))]]
    BY <1>2, <2>1, SlotTyped DEF IInv, TypeInv
  <2>3. Len(rx) \in 1 .. Len(rx) /\ \A i \in 1 .. Len(rx) : rx[i].part = "head"
    BY <1>1, <1>2
  <2>4. \A i \in 1 .. Len(rx) - 1 : rx[i].part = "head"
    BY <1>1, <2>3
  <2>5. "poll" # "parse"
    OBVIOUS
  <2> USE <2>3
  <2> WITNESS Len(rx) \in 1 .. Len(rx), "poll" \in {"poll", "parse"}
  <2> QED
    BY <2>2, <2>3, <2>4, <2>5, Zenon
<1>3. CASE \E end \in DOMAIN rx :
            /\ rx[end].part = "tail" /\ \A i \in 1 .. end - 1 : rx[i].part = "head"
            /\ thread' = [thread EXCEPT ![t].line = @ \o SubSeq(rx, 1, end),
                                        ![t].at = "parse"]
  <2>1. PICK end \in 1 .. Len(rx) :
            /\ rx[end].part = "tail" /\ \A i \in 1 .. end - 1 : rx[i].part = "head"
            /\ thread' = [thread EXCEPT ![t].line = @ \o SubSeq(rx, 1, end),
                                        ![t].at = "parse"]
    <3>1. DOMAIN rx = 1 .. Len(rx)
      BY <1>1
    <3> QED
      BY <3>1, <1>3, Zenon
  <2>2. thread' = [thread EXCEPT ![t] =
            [thread[t] EXCEPT !.at = "parse", !.line = thread[t].line \o SubSeq(rx, 1, end)]]
    BY <2>1, SlotTyped DEF IInv, TypeInv
  <2> QED
    BY <2>1, <2>2
<1> QED
  BY <1>2, <1>3 DEF Read

\* What a thread that is alone takes continues the line it has in hand, and is a
\* head and its tail or ends a line whose head is gone.
LEMMA ReadKeeps ==
  ASSUME IInv, NEW t \in Threads, Read(t)
  PROVE  IInv'
<1>1. /\ thread[t].at = "read" /\ rx # <<>> /\ rx' = <<>>
      /\ UNCHANGED <<turn, heard, calm, out, cut, lines, status, cached>>
  BY DEF Read, polled
<1>2. PICK n \in 1 .. Len(rx), at \in {"poll", "parse"} :
         /\ thread' = [thread EXCEPT ![t] =
               [thread[t] EXCEPT !.at = at, !.line = thread[t].line \o SubSeq(rx, 1, n)]]
         /\ \A i \in 1 .. n - 1 : rx[i].part = "head"
         /\ at = "poll" => n = Len(rx) /\ rx[n].part = "head"
         /\ at = "parse" => rx[n].part = "tail"
  BY ReadTakes
<1> DEFINE s == thread[t].line
           l == s \o SubSeq(rx, 1, n)
           r == [thread[t] EXCEPT !.at = at, !.line = l]
<1>3. /\ s \in Seq(Fragments) /\ rx \in Seq(Fragments) /\ out \in Seq(Fragments)
      /\ thread[t] \in Slots
  BY SlotTyped DEF IInv, TypeInv
<1>4. /\ l \in Seq(Fragments) /\ Len(l) = Len(s) + n /\ l # <<>>
      /\ \A i \in 1 .. Len(s) : l[i] = s[i]
      /\ \A i \in 1 .. n : l[Len(s) + i] = rx[i]
      /\ \A i \in 1 .. Len(l) : \/ i \in 1 .. Len(s) /\ l[i] = s[i]
                                \/ \E j \in 1 .. Len(rx) : l[i] = rx[j]
  BY <1>3, Took
<1>5. thread' = [thread EXCEPT ![t] = r]
  BY <1>2
<1> HIDE DEF l
<1>6. r \in Slots /\ r.at = at /\ r.line = l /\ r.shared = thread[t].shared
  BY <1>3, <1>4 DEF Slots, Places
<1> HIDE DEF r
<1>7. /\ thread' \in [Threads -> Slots] /\ thread'[t] = r
      /\ \A u \in Threads : u # t => thread'[u] = thread[u]
  BY <1>5, <1>6, OneMoves DEF IInv
<1>8. \A u \in Threads : (Busy(u)' <=> Busy(u)) /\ (Alone(u)' <=> Alone(u))
  BY <1>1, <1>2, <1>6, <1>7 DEF Busy, Alone
<1>9. \A u \in Threads : Alone(u) => u = t
  BY <1>1, Company DEF Busy
<1>10. "poller" \in Threads /\ "caller" \in Threads
  BY DEF Threads
<1>11. /\ Len(<<>>) = 0 /\ 1 .. 0 = {} /\ Len(rx) \in Nat /\ Len(rx) > 0 /\ Len(s) \in Nat
       /\ n \in Nat /\ n > 0 /\ n <= Len(rx)
  BY <1>1, <1>3
<1>12. \A u \in Threads : thread'[u].at \notin {"poll", "parse"} \/ u # t => thread'[u] = thread[u]
  BY <1>2, <1>6, <1>7
<1>13. TypeInv'
  BY <1>1, <1>7 DEF IInv, TypeInv, Slots
<1>14. HandsInv' /\ SharingInv'
  BY <1>2, <1>4, <1>6, <1>7, <1>8, <1>10 DEF IInv, HandsInv, SharingInv
<1>15. PairInv'
  <2> SUFFICES ASSUME ~cut
               PROVE  PairInv'
    BY <1>1 DEF PairInv
  <2>1. \A i \in 1 .. Len(rx) :
           rx[i].part = "head" =>
               IF i < Len(rx) THEN rx[i + 1] = TailOf(rx[i])
                              ELSE out # <<>> /\ out[1] = TailOf(rx[i])
    BY DEF IInv, PairInv
  <2>2. \A f : TailOf(f).part = "tail"
    BY DEF TailOf, Fragment
  <2>3. Alone(t) /\ s # <<>> =>
           Len(s) = 1 /\ s[1].part = "head" /\ rx[1] = TailOf(s[1])
    BY <1>1, <1>11 DEF IInv, PairInv, NextUp
  <2>4. n = 1 \/ (n = 2 /\ rx[2] = TailOf(rx[1]) /\ rx[1].part = "head")
    <3>1. CASE n = 1
      BY <3>1
    <3>2. CASE n # 1
      <4>1. 1 \in 1 .. n - 1 /\ 1 \in 1 .. Len(rx) /\ 1 < Len(rx) /\ 1 + 1 = 2
        BY <3>2, <1>11
      <4>2. rx[1].part = "head" /\ rx[2] = TailOf(rx[1])
        BY <4>1, <2>1, <1>2
      <4>3. ~(2 \in 1 .. n - 1)
        BY <4>2, <2>2, <1>2
      <4> QED
        BY <4>2, <4>3, <3>2, <1>11
    <3> QED
      BY <3>1, <3>2
  <2>5. CASE at = "poll"
    <3>1. n = 1 /\ rx[1].part = "head" /\ Len(rx) = 1
      BY <2>4, <2>5, <2>2, <1>2, <1>11
    <3>2. out # <<>> /\ out[1] = TailOf(rx[1])
      BY <3>1, <2>1
    <3>3. Alone(t) => s = <<>>
      BY <3>1, <2>2, <2>3
    <3>4. Alone(t) => Len(l) = 1 /\ l[1] = rx[1]
      BY <3>1, <3>3, <1>4, <1>11
    <3>5. Alone(t)' => /\ Len(thread'[t].line) = 1 /\ thread'[t].line[1].part = "head"
                       /\ out[1] = TailOf(thread'[t].line[1])
      BY <3>1, <3>2, <3>4, <1>6, <1>7, <1>8
    <3>6. thread'[t].at = "poll"
      BY <2>5, <1>6, <1>7
    <3> QED
      BY <3>2, <3>5, <3>6, <1>1, <1>8, <1>9, <1>11 DEF IInv, PairInv, NextUp, TailOf
  <2>6. CASE at = "parse"
    <3>1. Alone(t) => \/ l[1].part = "tail"
                      \/ Len(l) = 2 /\ l[2] = TailOf(l[1])
      <4>1. CASE s = <<>> /\ n = 1
        BY <4>1, <2>6, <1>2, <1>4, <1>11
      <4>2. CASE s = <<>> /\ n = 2
        BY <4>2, <2>4, <1>4, <1>11
      <4>3. CASE s # <<>>
        <5>1. Alone(t) => n = 1
          BY <4>3, <2>2, <2>3, <2>4
        <5>2. Len(s) = 1 /\ n = 1 => l[1] = s[1] /\ l[2] = rx[1] /\ Len(l) = 2
          <6>1. Len(s) = 1 => 1 \in 1 .. Len(s) /\ Len(s) + 1 = 2 /\ 1 + 1 = 2
            OBVIOUS
          <6>2. n = 1 => 1 \in 1 .. n
            OBVIOUS
          <6> QED
            BY <6>1, <6>2, <1>4
        <5> QED
          BY <4>3, <5>1, <5>2, <2>3
      <4> QED
        BY <4>1, <4>2, <4>3, <2>4
    <3>2. Len(l) = 2 => l = <<l[1], l[2]>>
      BY <1>4
    <3>3. Alone(t)' => \/ thread'[t].line[1].part = "tail"
                       \/ thread'[t].line = <<thread'[t].line[1], TailOf(thread'[t].line[1])>>
      BY <3>1, <3>2, <1>6, <1>7, <1>8
    <3>4. thread'[t].at = "parse"
      BY <2>6, <1>6, <1>7
    <3> QED
      BY <3>3, <3>4, <1>1, <1>8, <1>9, <1>11 DEF IInv, PairInv
  <2> QED
    BY <2>5, <2>6
<1>16. OrderInv'
  <2> DEFINE Still(m) == m <= lines /\ \A i \in 1 .. Len(out) : m <= out[i].id
  <2>1. \A m : Past(m) => Still(m)
    BY DEF Past
  <2>2. \A j \in 1 .. Len(rx) : Still(rx[j].id)
    BY DEF IInv, OrderInv
  <2>3. \A i \in 1 .. Len(l) : Still(l[i].id)
    <3>1. \A i \in 1 .. Len(s) : Still(s[i].id)
      BY <2>1 DEF IInv, OrderInv
    <3> HIDE DEF Still
    <3> QED
      BY <3>1, <2>2, <1>4
  <2>4. \A u \in Threads : \A i \in 1 .. Len(thread'[u].line) : Still(thread'[u].line[i].id)
    <3>1. \A u \in Threads : \A i \in 1 .. Len(thread[u].line) : Still(thread[u].line[i].id)
      BY <2>1 DEF IInv, OrderInv
    <3> HIDE DEF Still
    <3> QED
      BY <3>1, <2>3, <1>6, <1>7
  <2>5. Still(status.volt) /\ Still(cached.volt)
    BY <2>1 DEF IInv, OrderInv
  <2> QED
    BY <2>4, <2>5, <1>1, <1>11 DEF IInv, OrderInv, Past
<1>17. ForwardInv'
  <2>1. Alone(t) => \A i \in 1 .. Len(l) : cached.volt <= l[i].id
    BY <1>4 DEF IInv, ForwardInv, OrderInv, Past
  <2>2. thread'[t].at # "soc" /\ thread'[t].line = l
    BY <1>2, <1>6, <1>7
  <2> QED
    BY <2>1, <2>2, <1>1, <1>8, <1>9 DEF IInv, ForwardInv
<1>18. ReportInv'
  <2>1. \A u \in Threads : /\ thread'[u].at = "soc" <=> thread[u].at = "soc"
                           /\ thread'[u].at = "copied" <=> thread[u].at = "copied"
                           /\ thread'[u].at = "soc" => thread'[u] = thread[u]
    BY <1>1, <1>2, <1>6, <1>7
  <2> QED
    BY <2>1, <1>1, <1>8, <1>10 DEF IInv, ReportInv, OneReportUnlessShared
<1>19. CalmInv'
  <2> SUFFICES ASSUME Alone("poller"), calm
               PROVE  CalmInv'
    BY <1>1, <1>8, <1>10 DEF CalmInv
  <2>1. t = "poller" /\ Hands = s /\ Hands' = l
    BY <1>6, <1>7, <1>9, <1>10 DEF Hands
  <2>2. turn = "GETBMS" /\ ~heard /\ Unread
    BY <2>1, <1>1 DEF IInv, CalmInv
  <2>3. H.part = "head" /\ T.part = "tail" /\ H' = H /\ T' = T
    BY <1>1 DEF H, T, Fragment
  <2>4. \/ s = <<>> /\ rx = <<H>> /\ (out = <<T>> \/ out = <<>>)
        \/ s = <<>> /\ rx = <<H, T>> /\ out = <<>>
        \/ s = <<H>> /\ rx = <<T>> /\ out = <<>>
    BY <2>1, <2>2, <1>1 DEF Unread
  <2>5. CASE s = <<>> /\ rx = <<H>> /\ (out = <<T>> \/ out = <<>>)
    <3>1. n = 1 /\ rx[1] = H
      BY <2>5, <1>11
    <3>2. at = "poll" /\ l = <<H>>
      <4>1. at = "poll"
        BY <3>1, <2>3, <1>2
      <4>2. Len(l) = 1 /\ l[1] = H
        BY <2>5, <3>1, <1>4, <1>11
      <4> QED
        BY <4>1, <4>2, <1>4
    <3> QED
      BY <3>2, <2>1, <2>2, <2>3, <2>5, <1>1, <1>6, <1>7 DEF CalmInv, Unread
  <2>6. CASE s = <<>> /\ rx = <<H, T>> /\ out = <<>>
    <3>1. rx[1] = H /\ rx[2] = T /\ Len(rx) = 2
      BY <2>6
    <3>2. n = 2 /\ at = "parse"
      <4>1. n = 1 \/ n = 2
        BY <3>1, <1>11
      <4>2. n # 1
        BY <3>1, <2>3, <1>2
      <4> QED
        BY <4>1, <4>2, <3>1, <2>3, <1>2
    <3>3. l = <<H, T>>
      <4>1. Len(l) = 2 /\ l[1] = H /\ l[2] = T
        BY <2>6, <3>1, <3>2, <1>4, <1>11
      <4> QED
        BY <4>1, <1>4
    <3> QED
      BY <3>2, <3>3, <2>1, <2>2, <2>3, <2>6, <1>1, <1>6, <1>7 DEF CalmInv
  <2>7. CASE s = <<H>> /\ rx = <<T>> /\ out = <<>>
    <3>1. n = 1 /\ rx[1] = T /\ Len(s) = 1 /\ s[1] = H
      BY <2>7, <1>11
    <3>2. at = "parse"
      BY <3>1, <2>3, <1>2
    <3>3. l = <<H, T>>
      <4>1. Len(l) = 2 /\ l[1] = H /\ l[2] = T
        BY <3>1, <1>4, <1>11
      <4> QED
        BY <4>1, <1>4
    <3> QED
      BY <3>2, <3>3, <2>1, <2>2, <2>3, <2>7, <1>1, <1>6, <1>7 DEF CalmInv
  <2> QED
    BY <2>4, <2>5, <2>6, <2>7
<1> QED
  BY <1>13, <1>14, <1>15, <1>16, <1>17, <1>18, <1>19 DEF IInv

\* A line has been parsed and counts as an answer; no voltage has been written.
LEMMA HeardKeeps ==
  ASSUME IInv, NEW t \in Threads, thread[t].at \in {"parse", "soc"}, Heard(t),
         UNCHANGED <<out, rx, cut, lines, cached>>,
         status' \in Records, status'.volt = status.volt,
         ~status'.shared => cached.volt <= status.volt,
         ~cut /\ ~status'.shared /\ (\A u \in Threads : u # t => thread[u].at # "soc") =>
             status'.volt = status'.soc,
         t = "poller" /\ Alone(t) /\ calm => thread[t].at = "soc"
  PROVE  IInv'
<1> DEFINE r == [thread[t] EXCEPT !.at = "poll", !.line = <<>>]
<1>1. /\ thread' = [thread EXCEPT ![t] = r]
      /\ heard' = (heard \/ t = "poller") /\ UNCHANGED <<turn, calm>>
  BY SlotTyped DEF Heard, IInv, TypeInv
<1>2. r \in Slots /\ r.at = "poll" /\ r.line = <<>> /\ r.shared = thread[t].shared
  <2>1. <<>> \in Seq(Fragments)
    OBVIOUS
  <2>2. thread[t] \in Slots
    BY SlotTyped DEF IInv
  <2> QED
    BY <2>1, <2>2 DEF Slots, Places
<1> HIDE DEF r
<1>3. /\ thread' \in [Threads -> Slots] /\ thread'[t] = r
      /\ \A u \in Threads : u # t => thread'[u] = thread[u]
  BY <1>1, <1>2, OneMoves DEF IInv
<1>4. \A u \in Threads : (Busy(u)' <=> Busy(u)) /\ (Alone(u)' <=> Alone(u))
  BY <1>2, <1>3 DEF Busy, Alone
<1>5. \A u \in Threads : Alone(u) => u = t
  BY Company DEF Busy
<1>6. "poller" \in Threads /\ "caller" \in Threads
  BY DEF Threads
<1>7. \A u \in Threads : /\ u # t => thread'[u] = thread[u]
                         /\ thread'[u].at = "soc" => u # t
                         /\ thread'[u].at = "copied" <=> thread[u].at = "copied"
  BY <1>2, <1>3
<1>8. TypeInv'
  BY <1>1, <1>3 DEF IInv, TypeInv, Slots
<1>9. HandsInv' /\ SharingInv'
  BY <1>2, <1>3, <1>4, <1>6 DEF IInv, HandsInv, SharingInv
<1>10. PairInv'
  BY <1>2, <1>3, <1>4, <1>5 DEF IInv, PairInv
<1>11. OrderInv'
  <2>1. Len(<<>>) = 0 /\ 1 .. 0 = {}
    OBVIOUS
  <2>2. \A u \in Threads : \A i \in 1 .. Len(thread'[u].line) :
           i \in 1 .. Len(thread[u].line) /\ thread'[u].line[i] = thread[u].line[i]
    BY <1>2, <1>3, <2>1
  <2> QED
    BY <2>2 DEF IInv, OrderInv, Past
<1>12. ForwardInv'
  <2>1. Len(<<>>) = 0 /\ 1 .. 0 = {}
    OBVIOUS
  <2> QED
    BY <2>1, <1>2, <1>3, <1>4, <1>5 DEF IInv, ForwardInv
<1>13. ReportInv'
  <2>1. (\A u \in Threads : thread'[u].at # "soc") =>
           \A u \in Threads : u # t => thread[u].at # "soc"
    BY <1>7
  <2>2. \A u \in Threads : thread'[u].at = "soc" => thread'[u] = thread[u]
    BY <1>7
  <2>3. thread'["poller"].at = "copied" <=> thread["poller"].at = "copied"
    BY <1>6, <1>7
  <2> QED
    BY <2>1, <2>2, <2>3, <1>4, <1>6 DEF IInv, ReportInv, OneReportUnlessShared
<1>14. CalmInv'
  <2> SUFFICES ASSUME Alone("poller"), calm
               PROVE  CalmInv'
    BY <1>1, <1>4, <1>6 DEF CalmInv
  <2>1. t = "poller" /\ thread[t].at = "soc"
    BY <1>5, <1>6
  <2>2. turn = "GETBMS" /\ rx = <<>> /\ out = <<>> /\ status.volt = lines
    BY <2>1 DEF IInv, CalmInv
  <2>3. Hands' = <<>> /\ thread'["poller"].at = "poll" /\ heard' = TRUE
    BY <2>1, <1>1, <1>2, <1>3 DEF Hands
  <2> QED
    BY <2>2, <2>3, <1>1 DEF CalmInv
<1> QED
  BY <1>8, <1>9, <1>10, <1>11, <1>12, <1>13, <1>14 DEF IInv

\* What the invariant says of a thread that is alone with a line of the calm
\* poll: the line is the report.
LEMMA CalmLine ==
  ASSUME IInv, thread["poller"].at = "parse", Alone("poller"), calm
  PROVE  Prefix(thread["poller"].line) = "bms"
<1>1. thread["poller"].line = <<H, T>>
  BY DEF IInv, CalmInv, Hands
<1>2. Head(<<H, T>>) = H /\ H.part = "head" /\ H.kind = "bms"
  BY DEF H, T, Fragment
<1> QED
  BY <1>1, <1>2 DEF Prefix

\* A line that is no report changes no field of status_; the calm poll never
\* meets one.
LEMMA ParseTextKeeps ==
  ASSUME IInv, NEW t \in Threads, ParseOther(t) \/ ParseText(t)
  PROVE  IInv'
<1>1. thread[t].at = "parse" /\ Prefix(thread[t].line) # "bms"
  BY DEF ParseOther, ParseText
<1>2. UNCHANGED <<out, rx, cut, lines, status, cached>>
  BY DEF ParseOther, ParseText
<1>3. ~(t = "poller" /\ Alone(t) /\ calm)
  BY <1>1, CalmLine
<1>4. CASE Heard(t)
  <2>1. status \in Records /\ (~status.shared => cached.volt <= status.volt)
    BY DEF IInv, TypeInv, ForwardInv
  <2>2. ~cut /\ ~status.shared /\ (\A u \in Threads : u # t => thread[u].at # "soc") =>
           status.volt = status.soc
    BY <1>1 DEF IInv, ReportInv
  <2> QED
    BY <1>1, <1>2, <1>3, <1>4, <2>1, <2>2, HeardKeeps
<1>5. CASE UNCHANGED <<thread, polled>>
  BY <1>2, <1>5, StutterKeeps
<1> QED
  BY <1>4, <1>5 DEF ParseOther, ParseText

\* The charge completes the record; alone, it comes from the line the voltage is
\* from.
LEMMA ParseSocKeeps ==
  ASSUME IInv, NEW t \in Threads, ParseSoc(t)
  PROVE  IInv'
<1> DEFINE s == thread[t].line
<1>1. /\ thread[t].at = "soc" /\ Heard(t)
      /\ status' = [status EXCEPT !.soc = s[Len(s)].id, !.shared = thread[t].shared]
      /\ UNCHANGED <<out, rx, cut, lines, cached>>
  BY DEF ParseSoc
<1>2. s \in Seq(Fragments) /\ s # <<>> /\ thread[t].shared \in BOOLEAN
  BY <1>1, SlotTyped DEF IInv, HandsInv
<1>3. s[Len(s)].id \in Nat /\ status \in Records
  BY <1>2, FragmentTyped DEF IInv, TypeInv
<1>4. /\ status' \in Records /\ status'.volt = status.volt
      /\ status'.shared = thread[t].shared /\ status'.soc = s[Len(s)].id
  BY <1>1, <1>2, <1>3 DEF Records
<1>5. Busy(t) /\ (~thread[t].shared => Alone(t))
  BY <1>1 DEF Busy, Alone
<1>6. Alone(t) => status.volt = s[1].id /\ \A i \in 1 .. Len(s) : cached.volt <= s[i].id
  BY <1>1 DEF IInv, ForwardInv
<1>7. ~status'.shared => cached.volt <= status.volt
  BY <1>2, <1>4, <1>5, <1>6, FragmentTyped
<1>8. ~cut /\ ~status'.shared => status'.volt = status'.soc
  <2> SUFFICES ASSUME ~cut, Alone(t)
               PROVE  s[Len(s)].id = s[1].id
    BY <1>4, <1>5, <1>6
  <2>1. s[1].part = "head"
    BY <1>1 DEF IInv, ReportInv
  <2>2. s = <<s[1], TailOf(s[1])>>
    BY <1>1, <2>1 DEF IInv, PairInv
  <2>3. Len(s) = 2 /\ s[2] = TailOf(s[1])
    BY <2>2
  <2> QED
    BY <2>3 DEF TailOf, Fragment
<1> QED
  BY <1>1, <1>4, <1>7, <1>8, HeardKeeps

\* The voltage is that of a report at least as new as the cache, if the thread
\* is alone.
LEMMA ParseVoltKeeps ==
  ASSUME IInv, NEW t \in Threads, ParseVolt(t)
  PROVE  IInv'
<1> DEFINE s == thread[t].line
           r == [thread[t] EXCEPT !.at = "soc"]
<1>1. /\ thread[t].at = "parse" /\ Prefix(s) = "bms"
      /\ UNCHANGED <<turn, heard, calm, out, rx, cut, lines, cached>>
  BY DEF ParseVolt, polled
<1>2. CASE UNCHANGED <<status, thread>>
  BY <1>1, <1>2, StutterKeeps DEF polled
<1>3. CASE /\ status' = [status EXCEPT !.volt = Head(s).id,
                                       !.shared = @ \/ thread[t].shared]
           /\ thread' = [thread EXCEPT ![t].at = "soc"]
  <2>1. s \in Seq(Fragments) /\ s # <<>> /\ thread[t] \in Slots /\ thread[t].shared \in BOOLEAN
    BY <1>1, SlotTyped DEF IInv, HandsInv
  <2>2. /\ Head(s) = s[1] /\ 1 \in 1 .. Len(s)
        /\ s[1].id \in Nat /\ s[1].part = "head"
    <3>1. Head(s) = s[1] /\ 1 \in 1 .. Len(s)
      BY <2>1
    <3>2. Head(s).part = "head"
      BY <1>1 DEF Prefix
    <3> QED
      BY <3>1, <3>2, <2>1, FragmentTyped
  <2>3. /\ status' \in Records /\ status'.volt = s[1].id /\ status'.soc = status.soc
        /\ status'.shared = (status.shared \/ thread[t].shared)
    <3>1. status \in Records
      BY DEF IInv, TypeInv
    <3> QED
      BY <3>1, <2>1, <2>2, <1>3 DEF Records
  <2>4. r \in Slots /\ r.at = "soc" /\ r.line = s /\ r.shared = thread[t].shared
    BY <2>1 DEF Slots, Places
  <2>5. thread' = [thread EXCEPT ![t] = r]
    BY <1>3, <2>1 DEF IInv, TypeInv
  <2> HIDE DEF r
  <2>6. /\ thread' \in [Threads -> Slots] /\ thread'[t] = r
        /\ \A u \in Threads : u # t => thread'[u] = thread[u]
    BY <2>4, <2>5, OneMoves DEF IInv
  <2>7. \A u \in Threads : (Busy(u)' <=> Busy(u)) /\ (Alone(u)' <=> Alone(u))
    BY <1>1, <2>4, <2>6 DEF Busy, Alone
  <2>8. \A u \in Threads : Alone(u) => u = t
    BY <1>1, Company DEF Busy
  <2>9. "poller" \in Threads /\ "caller" \in Threads /\ Busy(t)
    BY <1>1 DEF Threads, Busy
  <2>10. \A u \in Threads : /\ thread'[u].line = thread[u].line
                            /\ thread'[u].shared = thread[u].shared
                            /\ thread'[u].at = "copied" <=> thread[u].at = "copied"
                            /\ u = t \/ thread'[u].at = thread[u].at
    BY <1>1, <2>4, <2>6
  <2>11. TypeInv'
    BY <1>1, <2>3, <2>6 DEF IInv, TypeInv, Slots
  <2>12. HandsInv' /\ SharingInv'
    BY <2>1, <2>4, <2>6, <2>7, <2>9 DEF IInv, HandsInv, SharingInv
  <2>13. PairInv'
    <3>1. ~cut /\ Alone(t) => \/ s[1].part = "tail"
                              \/ s = <<s[1], TailOf(s[1])>>
      BY <1>1 DEF IInv, PairInv
    <3> QED
      BY <3>1, <1>1, <2>4, <2>6, <2>7, <2>8 DEF IInv, PairInv
  <2>14. OrderInv'
    BY <1>1, <2>2, <2>3, <2>10 DEF IInv, OrderInv, Past
  <2>15. ForwardInv'
    <3>1. Alone(t) => \A i \in 1 .. Len(s) : cached.volt <= s[i].id
      BY DEF IInv, ForwardInv
    <3>2. ~status'.shared => Alone(t)
      BY <2>3, <2>9, <2>1 DEF Alone
    <3> QED
      BY <3>1, <3>2, <1>1, <2>2, <2>3, <2>7, <2>8, <2>10 DEF IInv, ForwardInv
  <2>16. ReportInv'
    <3>1. thread'[t].at = "soc" /\ thread'[t].line[1].part = "head"
      BY <2>2, <2>4, <2>6
    <3>2. Alone("poller") => thread["poller"].at # "copied"
      BY <1>1, <2>8, <2>9
    <3> QED
      BY <3>1, <3>2, <1>1, <2>6, <2>7, <2>9, <2>10
         DEF IInv, ReportInv, OneReportUnlessShared
  <2>17. CalmInv'
    <3> SUFFICES ASSUME Alone("poller"), calm
                 PROVE  CalmInv'
      BY <1>1, <2>7, <2>9 DEF CalmInv
    <3>1. t = "poller" /\ Hands = s
      BY <2>8, <2>9 DEF Hands
    <3>2. /\ turn = "GETBMS" /\ ~heard /\ s = <<H, T>> /\ rx = <<>> /\ out = <<>>
      BY <3>1, <1>1 DEF IInv, CalmInv
    <3>3. s[1] = H /\ H.id = lines /\ H' = H /\ T' = T
      BY <3>2, <1>1 DEF H, T, Fragment
    <3>4. Hands' = s /\ thread'["poller"].at = "soc" /\ status'.volt = lines
      BY <3>1, <3>3, <2>3, <2>4, <2>6 DEF Hands
    <3> QED
      BY <3>2, <3>3, <3>4, <1>1 DEF CalmInv
  <2> QED
    BY <2>11, <2>12, <2>13, <2>14, <2>15, <2>16, <2>17 DEF IInv
<1> QED
  BY <1>2, <1>3 DEF ParseVolt

\* The first half of the copy takes the voltage of the record it then holds.
LEMMA CopyVoltKeeps ==
  ASSUME IInv, CopyVolt
  PROVE  IInv'
<1> DEFINE t == "poller"
           r == [thread[t] EXCEPT !.at = "copied"]
<1>1. /\ thread[t].at = "copy"
      /\ cached' = [cached EXCEPT !.volt = status.volt,
                                  !.shared = status.shared \/ thread[t].shared]
      /\ thread' = [thread EXCEPT ![t].at = "copied"]
      /\ UNCHANGED <<turn, heard, calm, out, rx, cut, lines, status>>
  BY DEF CopyVolt, polled
<1>2. "poller" \in Threads /\ "caller" \in Threads /\ Busy(t)
  BY <1>1 DEF Threads, Busy
<1>3. /\ thread[t] \in Slots /\ thread[t].line = <<>> /\ thread[t].shared \in BOOLEAN
      /\ status \in Records /\ cached \in Records
  BY <1>1, <1>2, SlotTyped DEF IInv, HandsInv, TypeInv
<1>4. /\ cached' \in Records /\ cached'.volt = status.volt /\ cached'.soc = cached.soc
      /\ cached'.shared = (status.shared \/ thread[t].shared)
  BY <1>1, <1>3 DEF Records
<1>5. r \in Slots /\ r.at = "copied" /\ r.line = <<>> /\ r.shared = thread[t].shared
  BY <1>3 DEF Slots, Places
<1>6. thread' = [thread EXCEPT ![t] = r]
  BY <1>1, <1>2 DEF IInv, TypeInv
<1> HIDE DEF r
<1>7. /\ thread' \in [Threads -> Slots] /\ thread'[t] = r
      /\ \A u \in Threads : u # t => thread'[u] = thread[u]
  BY <1>2, <1>5, <1>6, OneMoves DEF IInv
<1>8. \A u \in Threads : (Busy(u)' <=> Busy(u)) /\ (Alone(u)' <=> Alone(u))
  BY <1>1, <1>5, <1>7 DEF Busy, Alone
<1>9. \A u \in Threads : Alone(u) => u = t
  BY <1>2, Company
<1>10. \A u \in Threads : /\ thread'[u].line = thread[u].line
                          /\ thread'[u].shared = thread[u].shared
                          /\ thread'[u].at = "soc" <=> thread[u].at = "soc"
                          /\ u = t \/ thread'[u].at = thread[u].at
  BY <1>1, <1>3, <1>5, <1>7
<1>11. TypeInv'
  BY <1>1, <1>4, <1>7 DEF IInv, TypeInv, Slots
<1>12. HandsInv' /\ SharingInv'
  BY <1>2, <1>5, <1>7, <1>8 DEF IInv, HandsInv, SharingInv
<1>13. PairInv'
  BY <1>1, <1>5, <1>7, <1>8, <1>9 DEF IInv, PairInv
<1>14. OrderInv'
  BY <1>1, <1>4, <1>10 DEF IInv, OrderInv, Past
<1>15. ForwardInv'
  <2>1. Len(<<>>) = 0 /\ 1 .. 0 = {}
    OBVIOUS
  <2>2. status.volt <= status.volt
    BY <1>3 DEF Records
  <2> QED
    BY <2>1, <2>2, <1>1, <1>4, <1>5, <1>7, <1>8, <1>9 DEF IInv, ForwardInv
<1>16. ReportInv'
  <2>1. thread'[t].at = "copied"
    BY <1>5, <1>7
  <2> QED
    BY <2>1, <1>1, <1>4, <1>10 DEF IInv, ReportInv, OneReportUnlessShared
<1>17. CalmInv'
  <2> SUFFICES ASSUME Alone("poller"), calm
               PROVE  CalmInv'
    BY <1>1, <1>2, <1>8 DEF CalmInv
  <2>1. turn = "GETBMS" /\ heard /\ rx = <<>> /\ out = <<>> /\ status.volt = lines
    BY <1>1 DEF IInv, CalmInv
  <2>2. Hands' = <<>> /\ thread'["poller"].at = "copied" /\ cached'.volt = lines
    BY <2>1, <1>4, <1>5, <1>7 DEF Hands
  <2> QED
    BY <2>1, <2>2, <1>1 DEF CalmInv
<1> QED
  BY <1>11, <1>12, <1>13, <1>14, <1>15, <1>16, <1>17 DEF IInv

\* The second half takes the charge of that same record unless a caller parsed in
\* between.
LEMMA CopySocKeeps ==
  ASSUME IInv, CopySoc
  PROVE  IInv'
<1> DEFINE t == "poller"
           r == Thread("idle")
<1>1. /\ thread[t].at = "copied"
      /\ cached' = [cached EXCEPT !.soc = status.soc,
                       !.shared = @ \/ status.shared \/ thread[t].shared]
      /\ thread' = [thread EXCEPT ![t] = r]
      /\ UNCHANGED <<turn, heard, calm, out, rx, cut, lines, status>>
  BY DEF CopySoc, polled
<1>2. "poller" \in Threads /\ "caller" \in Threads /\ Busy(t)
  BY <1>1 DEF Threads, Busy
<1>3. thread[t].shared \in BOOLEAN /\ status \in Records /\ cached \in Records
  BY <1>2, SlotTyped DEF IInv, TypeInv
<1>4. /\ cached' \in Records /\ cached'.volt = cached.volt /\ cached'.soc = status.soc
      /\ cached'.shared = (cached.shared \/ status.shared \/ thread[t].shared)
  BY <1>1, <1>3 DEF Records
<1>5. r \in Slots /\ r.at = "idle" /\ r.line = <<>>
  BY DEF Thread, Slots, Places
<1> HIDE DEF r
<1>6. /\ thread' \in [Threads -> Slots] /\ thread'[t] = r
      /\ \A u \in Threads : u # t => thread'[u] = thread[u]
  BY <1>1, <1>2, <1>5, OneMoves DEF IInv
<1>7. \A u \in Threads : ~Alone(u)'
  <2>1. ~Busy(t)'
    BY <1>5, <1>6 DEF Busy
  <2>2. \A u \in Threads : u # t => ~Alone(u)
    BY <1>2, Company
  <2>3. \A u \in Threads : u # t => (Alone(u)' <=> Alone(u))
    BY <1>6 DEF Alone, Busy
  <2> QED
    BY <2>1, <2>2, <2>3 DEF Alone
<1>8. TypeInv'
  BY <1>1, <1>4, <1>6 DEF IInv, TypeInv, Slots
<1>9. HandsInv' /\ SharingInv'
  BY <1>2, <1>5, <1>6 DEF IInv, HandsInv, SharingInv, Busy
<1>10. PairInv'
  BY <1>1, <1>7 DEF IInv, PairInv
<1>11. OrderInv'
  <2>1. Len(<<>>) = 0 /\ 1 .. 0 = {}
    OBVIOUS
  <2>2. \A u \in Threads : \A i \in 1 .. Len(thread'[u].line) : Past(thread'[u].line[i].id)
    BY <2>1, <1>5, <1>6 DEF IInv, OrderInv
  <2> QED
    BY <2>2, <1>1, <1>4 DEF IInv, OrderInv, Past
<1>12. ForwardInv'
  BY <1>1, <1>4, <1>7 DEF IInv, ForwardInv
<1>13. ReportInv'
  <2>1. /\ ~cached'.shared => Alone(t) /\ ~status.shared /\ cached.volt = status.volt
    BY <1>1, <1>2, <1>3, <1>4 DEF IInv, ReportInv, Alone
  <2>2. Alone(t) => \A u \in Threads : thread[u].at # "soc"
    <3>1. \A u \in Threads : thread[u].at = "soc" => u # t /\ Busy(u)
      BY <1>1 DEF Busy
    <3> QED
      BY <3>1, <1>2, Company
  <2>3. ~cut /\ ~cached'.shared => cached'.volt = cached'.soc
    BY <2>1, <2>2, <1>4 DEF IInv, ReportInv
  <2>4. \A u \in Threads : thread'[u].at = "soc" <=> thread[u].at = "soc"
    BY <1>1, <1>5, <1>6
  <2>5. \A u \in Threads : thread'[u].at = "soc" => thread'[u] = thread[u]
    BY <1>5, <1>6
  <2> QED
    BY <2>3, <2>4, <2>5, <1>1, <1>2, <1>7 DEF IInv, ReportInv, OneReportUnlessShared
<1>14. CalmInv'
  BY <1>2, <1>7 DEF CalmInv
<1> QED
  BY <1>8, <1>9, <1>10, <1>11, <1>12, <1>13, <1>14 DEF IInv

\* The board's next fragment reaches the port.
LEMMA ArriveKeeps ==
  ASSUME IInv, out # <<>>, out' = Tail(out), rx' = Append(rx, Head(out)),
         UNCHANGED <<cut, thread, turn, heard, calm, lines, status, cached>>
  PROVE  IInv'
<1>1. /\ out \in Seq(Fragments) /\ rx \in Seq(Fragments)
      /\ Len(out) \in Nat /\ Len(out) > 0 /\ Len(rx) \in Nat
      /\ out[1] \in Fragments /\ Head(out) = out[1] /\ 1 \in 1 .. Len(out)
  BY DEF IInv, TypeInv
<1>2. /\ out' \in Seq(Fragments) /\ Len(out') = Len(out) - 1
      /\ \A i \in 1 .. Len(out') : i + 1 \in 1 .. Len(out) /\ out'[i] = out[i + 1]
  BY <1>1
<1>3. /\ rx' \in Seq(Fragments) /\ Len(rx') = Len(rx) + 1
      /\ \A i \in 1 .. Len(rx) : rx'[i] = rx[i]
      /\ rx'[Len(rx) + 1] = out[1]
  BY <1>1
<1>4. \A i \in 1 .. Len(rx') : i \in 1 .. Len(rx) \/ i = Len(rx) + 1
  BY <1>1, <1>3
<1>5. \A u \in Threads : (Busy(u)' <=> Busy(u)) /\ (Alone(u)' <=> Alone(u))
  BY DEF Busy, Alone
<1>6. \A f : NextUp(f) => rx' # <<>> /\ rx'[1] = f
  <2>1. rx' # <<>>
    BY <1>1, <1>3
  <2>2. rx = <<>> => rx'[1] = out[1]
    BY <1>1, <1>3
  <2>3. rx # <<>> => rx'[1] = rx[1]
    BY <1>1, <1>3
  <2> QED
    BY <2>1, <2>2, <2>3 DEF NextUp
<1>7. TypeInv' /\ HandsInv' /\ SharingInv'
  BY <1>2, <1>3, <1>5 DEF IInv, TypeInv, HandsInv, SharingInv, Threads
<1>8. PairInv'
  <2> SUFFICES ASSUME ~cut
               PROVE  PairInv'
    BY DEF PairInv
  <2>1. \A i \in 1 .. Len(out) :
           out[i].part = "head" => i < Len(out) /\ out[i + 1] = TailOf(out[i])
    BY DEF IInv, PairInv
  <2>2. \A i \in 1 .. Len(out') :
           out'[i].part = "head" => i < Len(out') /\ out'[i + 1] = TailOf(out'[i])
    <3> TAKE i \in 1 .. Len(out')
    <3> SUFFICES ASSUME out'[i].part = "head"
                 PROVE  i < Len(out') /\ out'[i + 1] = TailOf(out'[i])
      OBVIOUS
    <3>1. i + 1 < Len(out) /\ out[i + 2] = TailOf(out'[i])
      BY <1>1, <1>2, <2>1
    <3>2. i < Len(out') /\ i + 1 \in 1 .. Len(out') /\ (i + 1) + 1 = i + 2
      BY <3>1, <1>1, <1>2
    <3> QED
      BY <3>1, <3>2, <1>2
  <2>3. \A i \in 1 .. Len(rx') :
           rx'[i].part = "head" =>
               IF i < Len(rx') THEN rx'[i + 1] = TailOf(rx'[i])
                               ELSE out' # <<>> /\ out'[1] = TailOf(rx'[i])
    <3> TAKE i \in 1 .. Len(rx')
    <3> SUFFICES ASSUME rx'[i].part = "head"
                 PROVE  IF i < Len(rx') THEN rx'[i + 1] = TailOf(rx'[i])
                                        ELSE out' # <<>> /\ out'[1] = TailOf(rx'[i])
      OBVIOUS
    <3>1. CASE i \in 1 .. Len(rx) /\ i < Len(rx)
      <4>1. i + 1 \in 1 .. Len(rx) /\ i < Len(rx')
        BY <3>1, <1>1, <1>3
      <4>2. rx[i + 1] = TailOf(rx[i])
        BY <3>1, <1>3 DEF IInv, PairInv
      <4> QED
        BY <3>1, <4>1, <4>2, <1>3
    <3>2. CASE i \in 1 .. Len(rx) /\ ~(i < Len(rx))
      <4>1. i = Len(rx) /\ i < Len(rx')
        BY <3>2, <1>1, <1>3
      <4>2. out[1] = TailOf(rx[i])
        BY <3>2, <1>3 DEF IInv, PairInv
      <4> QED
        BY <3>2, <4>1, <4>2, <1>3
    <3>3. CASE i = Len(rx) + 1
      <4>1. ~(i < Len(rx')) /\ rx'[i] = out[1]
        BY <3>3, <1>1, <1>3
      <4>2. 1 < Len(out) /\ out[1 + 1] = TailOf(out[1])
        BY <4>1, <2>1, <1>1
      <4>3. out' # <<>> /\ 1 \in 1 .. Len(out') /\ out'[1] = out[1 + 1]
        <5>1. 1 \in 1 .. Len(out')
          BY <4>2, <1>1, <1>2
        <5>2. out' # <<>>
          BY <4>2, <1>1, <1>2
        <5> QED
          BY <5>1, <5>2, <1>2
      <4> QED
        BY <4>1, <4>2, <4>3
    <3> QED
      BY <3>1, <3>2, <3>3, <1>4
  <2>4. \A t \in Threads : Alone(t)' =>
              /\ thread[t].at \in {"poll", "read"} /\ thread[t].line # <<>> =>
                     /\ Len(thread[t].line) = 1 /\ thread[t].line[1].part = "head"
                     /\ rx' # <<>> /\ rx'[1] = TailOf(thread[t].line[1])
              /\ thread[t].at \in {"parse", "soc"} =>
                     \/ thread[t].line[1].part = "tail"
                     \/ thread[t].line = <<thread[t].line[1], TailOf(thread[t].line[1])>>
    BY <1>5, <1>6 DEF IInv, PairInv
  <2> QED
    BY <2>2, <2>3, <2>4 DEF PairInv, NextUp, TailOf
<1>9. OrderInv'
  <2> DEFINE Still(m) ==
        /\ m <= lines
        /\ \A i \in 1 .. Len(rx') : m <= rx'[i].id
        /\ \A i \in 1 .. Len(out') : m <= out'[i].id
  <2>1. \A m : Past(m) => Still(m)
    BY <1>1, <1>2, <1>3, <1>4 DEF Past
  <2>2. \A i \in 1 .. Len(out') : \A j \in i .. Len(out') : out'[i].id <= out'[j].id
    <3> TAKE i \in 1 .. Len(out')
    <3> TAKE j \in i .. Len(out')
    <3>1. j \in 1 .. Len(out') /\ j + 1 \in (i + 1) .. Len(out)
      BY <1>1, <1>2
    <3> QED
      BY <3>1, <1>2 DEF IInv, OrderInv
  <2>3. \A i \in 1 .. Len(rx'), j \in 1 .. Len(out') : rx'[i].id <= out'[j].id
    <3> TAKE i \in 1 .. Len(rx'), j \in 1 .. Len(out')
    <3>1. CASE i \in 1 .. Len(rx)
      BY <3>1, <1>2, <1>3 DEF IInv, OrderInv
    <3>2. CASE i = Len(rx) + 1
      <4>1. j + 1 \in 1 .. Len(out)
        BY <1>1, <1>2
      <4> QED
        BY <3>2, <4>1, <1>1, <1>2, <1>3 DEF IInv, OrderInv
    <3> QED
      BY <3>1, <3>2, <1>4
  <2>4. /\ \A i \in 1 .. Len(rx') : rx'[i].id <= lines
        /\ \A i \in 1 .. Len(out') : out'[i].id <= lines
    BY <1>1, <1>2, <1>3, <1>4 DEF IInv, OrderInv
  <2>5. /\ Still(status.volt) /\ Still(cached.volt)
        /\ \A t \in Threads : \A i \in 1 .. Len(thread[t].line) : Still(thread[t].line[i].id)
    <3> HIDE DEF Still
    <3> QED
      BY <2>1 DEF IInv, OrderInv
  <2> QED
    BY <2>2, <2>3, <2>4, <2>5 DEF OrderInv, Past
<1>10. ForwardInv' /\ ReportInv'
  BY <1>5 DEF IInv, ForwardInv, ReportInv, OneReportUnlessShared, Threads
<1>11. CalmInv'
  <2> SUFFICES ASSUME Alone("poller"), calm
               PROVE  CalmInv'
    BY <1>5 DEF CalmInv, Threads
  <2>1. H' = H /\ T' = T /\ Hands' = Hands
    BY DEF H, T, Hands
  <2>2. ~heard /\ thread["poller"].at \notin {"parse", "soc", "copy", "copied"}
    BY DEF IInv, CalmInv
  <2>3. Unread => Unread'
    <3>1. Tail(<<T>>) = <<>> /\ Tail(<<H, T>>) = <<T>>
      OBVIOUS
    <3>2. Append(<<>>, H) = <<H>> /\ Append(<<>>, T) = <<T>>
      OBVIOUS
    <3>3. Append(<<H>>, T) = <<H, T>>
      <4>1. H \in Fragments /\ T \in Fragments
        BY DEF IInv, TypeInv, H, T, Fragment, Fragments, Kinds
      <4>2. <<H>> \in Seq(Fragments) /\ Len(<<H>>) = 1 /\ <<H>>[1] = H
        BY <4>1
      <4> DEFINE l == Append(<<H>>, T)
      <4>3. l \in Seq(Fragments) /\ Len(l) = 2 /\ l[1] = H /\ l[2] = T
        BY <4>1, <4>2
      <4> HIDE DEF l
      <4>4. l = <<H, T>>
        BY <4>3
      <4> QED
        BY <4>4 DEF l
    <3>4. Head(<<T>>) = T /\ Head(<<H, T>>) = H
      OBVIOUS
    <3> QED
      BY <3>1, <3>2, <3>3, <3>4, <2>1 DEF Unread
  <2> QED
    BY <2>2, <2>3 DEF IInv, CalmInv
<1> QED
  BY <1>7, <1>8, <1>9, <1>10, <1>11 DEF IInv

\* All the board had to say is lost; if that starts with a tail it has stopped
\* in the middle of a line.
LEMMA LossKeeps ==
  ASSUME IInv, out # <<>>, out' = <<>>, cut' = (cut \/ Head(out).part = "tail"),
         UNCHANGED <<rx, thread, turn, heard, calm, lines, status, cached>>
  PROVE  IInv'
<1>1. /\ out \in Seq(Fragments) /\ rx \in Seq(Fragments)
      /\ Len(rx) \in Nat /\ Head(out) = out[1]
  BY DEF IInv, TypeInv
<1>2. \A u \in Threads : (Busy(u)' <=> Busy(u)) /\ (Alone(u)' <=> Alone(u))
  BY DEF Busy, Alone
<1>3. Len(<<>>) = 0 /\ 1 .. 0 = {} /\ <<>> \in Seq(Fragments)
  OBVIOUS
<1>4. cut' \in BOOLEAN
  BY DEF IInv, TypeInv
<1>5. TypeInv' /\ HandsInv' /\ SharingInv'
  BY <1>2, <1>3, <1>4 DEF IInv, TypeInv, HandsInv, SharingInv, Threads
<1>6. PairInv'
  <2> SUFFICES ASSUME ~cut, out[1].part # "tail"
               PROVE  PairInv'
    BY <1>1 DEF PairInv
  <2>1. \A f : TailOf(f).part = "tail"
    BY DEF TailOf, Fragment
  <2>2. \A i \in 1 .. Len(rx) :
           rx[i].part = "head" => i < Len(rx) /\ rx[i + 1] = TailOf(rx[i])
    BY <2>1 DEF IInv, PairInv
  <2>3. \A f : NextUp(TailOf(f)) => rx # <<>> /\ rx[1] = TailOf(f)
    BY <2>1 DEF NextUp
  <2>4. \A t \in Threads : Alone(t)' =>
              /\ thread[t].at \in {"poll", "read"} /\ thread[t].line # <<>> =>
                     /\ Len(thread[t].line) = 1 /\ thread[t].line[1].part = "head"
                     /\ rx # <<>> /\ rx[1] = TailOf(thread[t].line[1])
              /\ thread[t].at \in {"parse", "soc"} =>
                     \/ thread[t].line[1].part = "tail"
                     \/ thread[t].line = <<thread[t].line[1], TailOf(thread[t].line[1])>>
    BY <1>2, <2>3 DEF IInv, PairInv
  <2> QED
    BY <1>3, <2>2, <2>4 DEF PairInv, NextUp, TailOf
<1>7. OrderInv'
  BY <1>3 DEF IInv, OrderInv, Past
<1>8. ForwardInv' /\ ReportInv'
  <2>1. ~cut' => ~cut
    OBVIOUS
  <2> QED
    BY <1>2, <2>1 DEF IInv, ForwardInv, ReportInv, OneReportUnlessShared, Threads
<1>9. CalmInv'
  <2> SUFFICES ASSUME Alone("poller"), calm
               PROVE  CalmInv'
    BY <1>2 DEF CalmInv, Threads
  <2>1. H' = H /\ T' = T /\ Hands' = Hands
    BY DEF H, T, Hands
  <2>2. ~heard /\ thread["poller"].at \notin {"parse", "soc", "copy", "copied"}
    BY DEF IInv, CalmInv
  <2>3. Unread => Unread'
    BY <2>1 DEF Unread
  <2> QED
    BY <2>2, <2>3 DEF IInv, CalmInv
<1> QED
  BY <1>5, <1>6, <1>7, <1>8, <1>9 DEF IInv

\* The lines that are an answer: each is a head and its tail, newer than all
\* before it.
LEMMA AnswerTyped ==
  ASSUME lines \in Nat, NEW cmd \in Commands
  PROVE  LET a == AnswerLines(cmd)
             k == Len(Answer(cmd)) IN
         /\ k \in Nat /\ a \in Seq(Fragments) /\ a # <<>>
         /\ \A i \in 1 .. Len(a) :
               /\ a[i].part = "head" => i < Len(a) /\ a[i + 1] = TailOf(a[i])
               /\ lines <= a[i].id /\ a[i].id <= lines + k
               /\ \A j \in i .. Len(a) : a[i].id <= a[j].id
         /\ cmd = "GETBMS" => /\ k = 1
                              /\ a = <<Fragment(lines + 1, "bms", "head"),
                                       Fragment(lines + 1, "bms", "tail")>>
<1> DEFINE b == Answer(cmd)
           k == Len(b)
           a == AnswerLines(cmd)
<1>1. b \in Seq(Kinds) /\ (k = 1 \/ k = 2) /\ (cmd = "GETBMS" => b[1] = "bms" /\ k = 1)
  <2>1. CASE cmd = "GETBMS"
    <3>1. b = <<"bms">>
      BY <2>1 DEF Answer
    <3> HIDE DEF b
    <3>2. b \in Seq(Kinds) /\ Len(b) = 1 /\ b[1] = "bms"
      BY <3>1 DEF Kinds
    <3> QED
      BY <3>2
  <2>2. CASE cmd = "STATUS"
    <3>1. b = <<"text", "bms">>
      BY <2>2 DEF Answer
    <3> HIDE DEF b
    <3>2. b \in Seq(Kinds)
      BY <3>1 DEF Kinds
    <3>3. Len(b) = 2
      BY <3>1
    <3> QED
      BY <2>2, <3>2, <3>3
  <2>3. CASE cmd = "VERSION"
    <3>1. b = <<"text">>
      BY <2>3 DEF Answer
    <3> HIDE DEF b
    <3>2. b \in Seq(Kinds) /\ Len(b) = 1
      BY <3>1 DEF Kinds
    <3> QED
      BY <2>3, <3>2
  <2>4. CASE cmd = "POWER"
    <3>1. b = <<"other">>
      BY <2>4 DEF Answer
    <3> HIDE DEF b
    <3>2. b \in Seq(Kinds) /\ Len(b) = 1
      BY <3>1 DEF Kinds
    <3> QED
      BY <2>4, <3>2
  <2> QED
    BY <2>1, <2>2, <2>3, <2>4 DEF Commands
<1>2. \A n \in 1 .. k : b[n] \in Kinds
  BY <1>1
<1> HIDE DEF b
<1>3. a = [i \in 1 .. 2 * k |->
            LET n == (i + 1) \div 2 IN Line(lines + n, b[n])[i - 2 * (n - 1)]]
  BY DEF AnswerLines, b
<1> HIDE DEF a
<1>4. \A id, kind : /\ Line(id, kind)[1] = Fragment(id, kind, "head")
                    /\ Line(id, kind)[2] = Fragment(id, kind, "tail")
  BY DEF Line
<1>5. \A n \in 1 .. k : /\ 2 * n - 1 \in 1 .. 2 * k /\ 2 * n \in 1 .. 2 * k
                        /\ a[2 * n - 1] = Fragment(lines + n, b[n], "head")
                        /\ a[2 * n] = Fragment(lines + n, b[n], "tail")
  <2> TAKE n \in 1 .. k
  <2>1. /\ n \in Nat /\ k \in Nat /\ 2 * n - 1 \in 1 .. 2 * k /\ 2 * n \in 1 .. 2 * k
        /\ ((2 * n - 1) + 1) \div 2 = n /\ (2 * n + 1) \div 2 = n
        /\ (2 * n - 1) - 2 * (n - 1) = 1 /\ 2 * n - 2 * (n - 1) = 2
    BY <1>1
  <2> QED
    BY <2>1, <1>3, <1>4
<1>6. \A i \in 1 .. 2 * k : \E n \in 1 .. k : i = 2 * n - 1 \/ i = 2 * n
  <2> TAKE i \in 1 .. 2 * k
  <2>1. (i + 1) \div 2 \in 1 .. k
    BY <1>1
  <2>2. i = 2 * ((i + 1) \div 2) - 1 \/ i = 2 * ((i + 1) \div 2)
    BY <1>1
  <2> QED
    BY <2>1, <2>2
<1>7. \A id \in Nat, kind \in Kinds :
         /\ Fragment(id, kind, "head") \in Fragments /\ Fragment(id, kind, "tail") \in Fragments
         /\ Fragment(id, kind, "head").id = id /\ Fragment(id, kind, "tail").id = id
         /\ TailOf(Fragment(id, kind, "head")) = Fragment(id, kind, "tail")
         /\ Fragment(id, kind, "head").part = "head"
         /\ Fragment(id, kind, "tail").part = "tail"
  BY DEF Fragment, Fragments, TailOf
<1>8. \A n \in 1 .. k :
         /\ a[2 * n - 1] \in Fragments /\ a[2 * n] \in Fragments
         /\ a[2 * n - 1].id = lines + n /\ a[2 * n].id = lines + n
         /\ a[2 * n] = TailOf(a[2 * n - 1]) /\ a[2 * n].part = "tail"
  <2> TAKE n \in 1 .. k
  <2>1. lines + n \in Nat
    BY <1>1
  <2> QED
    BY <2>1, <1>2, <1>5, <1>7
<1>9. a \in Seq(Fragments) /\ Len(a) = 2 * k /\ k \in Nat
  <2>1. \A i \in 1 .. 2 * k : a[i] \in Fragments
    BY <1>6, <1>8
  <2>2. k \in Nat /\ 2 * k \in Nat
    BY <1>1
  <2>3. a \in [1 .. 2 * k -> Fragments]
    BY <2>1, <1>3
  <2> QED
    BY <2>2, <2>3, SeqDef, LenProperties
<1>10. \A i \in 1 .. Len(a) : a[i].part = "head" => i < Len(a) /\ a[i + 1] = TailOf(a[i])
  <2> TAKE i \in 1 .. Len(a)
  <2>1. PICK n \in 1 .. k : i = 2 * n - 1 \/ i = 2 * n
    BY <1>6, <1>9
  <2>2. CASE i = 2 * n
    BY <2>2, <1>8
  <2>3. CASE i = 2 * n - 1
    <3>1. i + 1 = 2 * n /\ i < Len(a)
      BY <2>3, <1>1, <1>9
    <3> QED
      BY <2>3, <3>1, <1>8
  <2> QED
    BY <2>1, <2>2, <2>3
<1>11. \A i \in 1 .. Len(a) : /\ lines <= a[i].id /\ a[i].id <= lines + k
                              /\ \A j \in i .. Len(a) : a[i].id <= a[j].id
  <2> TAKE i \in 1 .. Len(a)
  <2> DEFINE Of(m, n) == (m = 2 * n - 1 \/ m = 2 * n) /\ a[m].id = lines + n
  <2>1. \A m \in 1 .. 2 * k : \E n \in 1 .. k : Of(m, n)
    <3> TAKE m \in 1 .. 2 * k
    <3>1. PICK n \in 1 .. k : m = 2 * n - 1 \/ m = 2 * n
      BY <1>6
    <3>2. Of(m, n)
      BY <3>1, <1>8
    <3> QED
      BY <3>2
  <2>2. PICK n \in 1 .. k : Of(i, n)
    BY <2>1, <1>9
  <2>3. \A j \in i .. Len(a) : a[i].id <= a[j].id
    <3> TAKE j \in i .. Len(a)
    <3>1. j \in 1 .. 2 * k
      BY <1>9
    <3>2. PICK m \in 1 .. k : Of(j, m)
      BY <3>1, <2>1
    <3>3. n <= m
      BY <2>2, <3>2, <1>1
    <3> QED
      BY <2>2, <3>2, <3>3
  <2> QED
    BY <2>2, <2>3
<1>12. a # <<>>
  BY <1>1, <1>9
<1>13. cmd = "GETBMS" => a = <<Fragment(lines + 1, "bms", "head"),
                               Fragment(lines + 1, "bms", "tail")>>
  <2> SUFFICES ASSUME cmd = "GETBMS"
               PROVE  a = <<Fragment(lines + 1, "bms", "head"),
                            Fragment(lines + 1, "bms", "tail")>>
    OBVIOUS
  <2>1. k = 1 /\ b[1] = "bms"
    BY <1>1
  <2>3. Len(a) = 2 /\ 1 \in 1 .. k /\ 2 * 1 - 1 = 1 /\ 2 * 1 = 2
    BY <2>1, <1>9
  <2>2. /\ a[1] = Fragment(lines + 1, "bms", "head")
        /\ a[2] = Fragment(lines + 1, "bms", "tail")
    BY <2>1, <2>3, <1>5
  <2> QED
    BY <2>2, <2>3, <1>9
<1> QED
  BY <1>1, <1>9, <1>10, <1>11, <1>12, <1>13 DEF a, b

\* What is appended to what the board has to say leaves it in order and in pairs.
LEMMA OutGrows ==
  ASSUME IInv, NEW k \in Nat, NEW a \in Seq(Fragments),
         out' = out \o a, lines' = lines + k, rx' = rx, cut' = cut,
         \A i \in 1 .. Len(a) :
            /\ a[i].part = "head" => i < Len(a) /\ a[i + 1] = TailOf(a[i])
            /\ lines <= a[i].id /\ a[i].id <= lines + k
            /\ \A j \in i .. Len(a) : a[i].id <= a[j].id
  PROVE  /\ out' \in Seq(Fragments) /\ lines' \in Nat
         /\ out # <<>> => out' # <<>> /\ out'[1] = out[1]
         /\ ~cut => \A i \in 1 .. Len(out') : out'[i].part = "head" =>
                        i < Len(out') /\ out'[i + 1] = TailOf(out'[i])
         /\ \A i \in 1 .. Len(out') : \A j \in i .. Len(out') : out'[i].id <= out'[j].id
         /\ \A i \in 1 .. Len(rx), j \in 1 .. Len(out') : rx[i].id <= out'[j].id
         /\ \A i \in 1 .. Len(rx) : rx[i].id <= lines'
         /\ \A i \in 1 .. Len(out') : out'[i].id <= lines'
         /\ \A m \in Nat : Past(m) => /\ m <= lines'
                                      /\ \A i \in 1 .. Len(rx) : m <= rx[i].id
                                      /\ \A i \in 1 .. Len(out') : m <= out'[i].id
<1>1. /\ out \in Seq(Fragments) /\ rx \in Seq(Fragments) /\ lines \in Nat
      /\ Len(out) \in Nat /\ Len(a) \in Nat /\ Len(rx) \in Nat
  BY DEF IInv, TypeInv
<1>2. /\ out' \in Seq(Fragments) /\ Len(out') = Len(out) + Len(a)
      /\ \A i \in 1 .. Len(out) : i \in 1 .. Len(out') /\ out'[i] = out[i]
      /\ \A i \in 1 .. Len(a) : Len(out) + i \in 1 .. Len(out') /\ out'[Len(out) + i] = a[i]
  BY <1>1
<1>3. \A i \in 1 .. Len(out') : \/ i \in 1 .. Len(out)
                                \/ i - Len(out) \in 1 .. Len(a) /\ out'[i] = a[i - Len(out)]
  <2> TAKE i \in 1 .. Len(out')
  <2>1. CASE i <= Len(out)
    BY <2>1, <1>1, <1>2
  <2>2. CASE ~(i <= Len(out))
    <3>1. i - Len(out) \in 1 .. Len(a) /\ Len(out) + (i - Len(out)) = i
      BY <2>2, <1>1, <1>2
    <3> QED
      BY <3>1, <1>2
  <2> QED
    BY <2>1, <2>2
<1>4. \A i \in 1 .. Len(out') : out'[i].id \in Nat
  BY <1>2, FragmentTyped
<1>5. /\ \A i \in 1 .. Len(out) : out[i].id <= lines
      /\ \A i \in 1 .. Len(rx) : rx[i].id <= lines /\ rx[i].id \in Nat
  BY <1>1, FragmentTyped DEF IInv, OrderInv
<1>6. \A i \in 1 .. Len(a) : a[i].id \in Nat
  BY FragmentTyped
<1>7. \A i \in 1 .. Len(out) : out[i].id \in Nat
  BY <1>1, FragmentTyped
<1>8. lines' \in Nat /\ lines <= lines'
  BY <1>1
<1>9. out # <<>> => out' # <<>> /\ out'[1] = out[1]
  <2> SUFFICES ASSUME out # <<>>
               PROVE  out' # <<>> /\ out'[1] = out[1]
    OBVIOUS
  <2>1. 1 \in 1 .. Len(out)
    BY <1>1
  <2>2. Len(out') # 0
    BY <2>1, <1>1, <1>2
  <2> QED
    BY <2>1, <2>2, <1>2, FragmentTyped
<1>10. ~cut => \A i \in 1 .. Len(out') : out'[i].part = "head" =>
                   i < Len(out') /\ out'[i + 1] = TailOf(out'[i])
  <2> SUFFICES ASSUME ~cut, NEW i \in 1 .. Len(out'), out'[i].part = "head"
               PROVE  i < Len(out') /\ out'[i + 1] = TailOf(out'[i])
    OBVIOUS
  <2>1. CASE i \in 1 .. Len(out)
    <3>1. out[i].part = "head" /\ out'[i] = out[i]
      BY <2>1, <1>2
    <3>2. i < Len(out) /\ out[i + 1] = TailOf(out[i])
      BY <2>1, <3>1 DEF IInv, PairInv
    <3>3. i + 1 \in 1 .. Len(out) /\ i < Len(out')
      BY <3>2, <2>1, <1>1, <1>2
    <3> QED
      BY <3>1, <3>2, <3>3, <1>2
  <2>2. CASE i - Len(out) \in 1 .. Len(a) /\ out'[i] = a[i - Len(out)]
    <3>1. i - Len(out) < Len(a) /\ a[(i - Len(out)) + 1] = TailOf(a[i - Len(out)])
      BY <2>2
    <3>2. /\ (i - Len(out)) + 1 \in 1 .. Len(a) /\ i < Len(out')
          /\ Len(out) + ((i - Len(out)) + 1) = i + 1
      BY <2>2, <3>1, <1>1, <1>2
    <3>3. out'[i + 1] = a[(i - Len(out)) + 1]
      BY <3>2, <1>2
    <3> QED
      BY <2>2, <3>1, <3>2, <3>3
  <2> QED
    BY <2>1, <2>2, <1>3
<1>11. \A i \in 1 .. Len(out') : \A j \in i .. Len(out') : out'[i].id <= out'[j].id
  <2> TAKE i \in 1 .. Len(out')
  <2> TAKE j \in i .. Len(out')
  <2>1. j \in 1 .. Len(out') /\ Len(out') \in Nat
    BY <1>1, <1>2
  <2>2. CASE j \in 1 .. Len(out)
    <3>1. i \in 1 .. Len(out) /\ j \in i .. Len(out)
      BY <2>2, <1>1
    <3> QED
      BY <3>1, <2>2, <1>2 DEF IInv, OrderInv
  <2>3. CASE /\ j - Len(out) \in 1 .. Len(a) /\ out'[j] = a[j - Len(out)]
             /\ i \in 1 .. Len(out)
    <3>1. out'[i].id <= lines /\ out'[i].id \in Nat
      BY <2>3, <1>2, <1>5, <1>7
    <3>2. lines <= out'[j].id /\ out'[j].id \in Nat
      BY <2>1, <2>3, <1>4
    <3>3. \A x, y, z \in Nat : x <= y /\ y <= z => x <= z
      OBVIOUS
    <3> QED
      BY <3>1, <3>2, <3>3, <1>1
  <2>4. CASE /\ j - Len(out) \in 1 .. Len(a) /\ out'[j] = a[j - Len(out)]
             /\ i - Len(out) \in 1 .. Len(a) /\ out'[i] = a[i - Len(out)]
    <3>1. j - Len(out) \in (i - Len(out)) .. Len(a)
      BY <2>4, <1>1
    <3>2. a[i - Len(out)].id <= a[j - Len(out)].id
      BY <2>4, <3>1
    <3> QED
      BY <2>4, <3>2
  <2> QED
    BY <2>1, <2>2, <2>3, <2>4, <1>3
<1>12. \A i \in 1 .. Len(rx), j \in 1 .. Len(out') : rx[i].id <= out'[j].id
  <2> TAKE i \in 1 .. Len(rx), j \in 1 .. Len(out')
  <2>1. CASE j \in 1 .. Len(out)
    BY <2>1, <1>2 DEF IInv, OrderInv
  <2>2. CASE j - Len(out) \in 1 .. Len(a) /\ out'[j] = a[j - Len(out)]
    <3>1. lines <= out'[j].id /\ out'[j].id \in Nat
      BY <2>2, <1>4
    <3>2. rx[i].id <= lines /\ rx[i].id \in Nat
      BY <1>5
    <3> QED
      BY <3>1, <3>2, <1>1
  <2> QED
    BY <2>1, <2>2, <1>3
<1>13. \A i \in 1 .. Len(rx) : rx[i].id <= lines'
  BY <1>1, <1>5, <1>8
<1>14. \A i \in 1 .. Len(out') : out'[i].id <= lines'
  <2> TAKE i \in 1 .. Len(out')
  <2>1. CASE i \in 1 .. Len(out)
    BY <2>1, <1>1, <1>2, <1>5, <1>7, <1>8
  <2>2. CASE i - Len(out) \in 1 .. Len(a) /\ out'[i] = a[i - Len(out)]
    BY <2>2
  <2> QED
    BY <2>1, <2>2, <1>3
<1>15. \A m \in Nat : Past(m) => /\ m <= lines'
                                 /\ \A i \in 1 .. Len(rx) : m <= rx[i].id
                                 /\ \A i \in 1 .. Len(out') : m <= out'[i].id
  <2> SUFFICES ASSUME NEW m \in Nat, Past(m)
               PROVE  /\ m <= lines'
                      /\ \A i \in 1 .. Len(rx) : m <= rx[i].id
                      /\ \A i \in 1 .. Len(out') : m <= out'[i].id
    OBVIOUS
  <2>1. /\ m <= lines /\ \A i \in 1 .. Len(rx) : m <= rx[i].id
        /\ \A i \in 1 .. Len(out) : m <= out[i].id
    BY DEF Past
  <2>2. m <= lines'
    BY <2>1, <1>1, <1>8
  <2>3. ASSUME NEW i \in 1 .. Len(out')
        PROVE  m <= out'[i].id
    <3>1. CASE i \in 1 .. Len(out)
      BY <3>1, <2>1, <1>2
    <3>2. CASE i - Len(out) \in 1 .. Len(a) /\ out'[i] = a[i - Len(out)]
      <4>1. lines <= out'[i].id /\ out'[i].id \in Nat
        BY <3>2, <1>4
      <4> QED
        BY <4>1, <2>1, <1>1
    <3> QED
      BY <3>1, <3>2, <1>3
  <2> QED
    BY <2>1, <2>2, <2>3
<1> QED
  BY <1>2, <1>8, <1>9, <1>10, <1>11, <1>12, <1>13, <1>14, <1>15

\* A command is sent, and the board prepares an answer or none.
LEMMA SendKeeps ==
  ASSUME IInv, NEW t \in Threads, NEW cmd \in Commands, thread[t].at = "idle",
         Send(t, cmd), heard' \in BOOLEAN, calm' \in BOOLEAN,
         t = "poller" => ~heard' /\ (calm' => cmd = "GETBMS" /\ turn' = cmd
                                              /\ out = <<>> /\ rx = <<>>),
         t # "poller" => UNCHANGED <<turn, heard, calm>>
  PROVE  IInv'
<1> DEFINE o == Other(t)
           b == Busy(o)
           r == [Thread("poll") EXCEPT !.shared = b]
           q == [thread[o] EXCEPT !.shared = @ \/ b]
<1>1. /\ thread' = [thread EXCEPT ![t] = r, ![o] = q]
      /\ UNCHANGED <<rx, cut, status, cached>>
  <2>1. thread' = [thread EXCEPT ![t] = r, ![o].shared = @ \/ b]
    BY DEF Send
  <2>2. o \in Threads /\ o # t /\ thread \in [Threads -> Slots]
    BY TwoThreads DEF IInv, TypeInv, Slots
  <2> QED
    BY <2>1, <2>2 DEF Send
<1>2. /\ o \in Threads /\ o # t /\ "poller" \in Threads /\ "caller" \in Threads
      /\ \A u \in Threads : u = t \/ u = o
  BY TwoThreads
<1>3. thread[o] \in Slots /\ thread[o].shared \in BOOLEAN /\ b \in BOOLEAN
  <2>1. thread[o] \in Slots /\ thread[o].shared \in BOOLEAN
    BY <1>2, SlotTyped DEF IInv
  <2>2. b \in BOOLEAN
    BY b = TRUE \/ b = FALSE DEF Busy
  <2> QED
    BY <2>1, <2>2
<1>4. r \in Slots /\ r.at = "poll" /\ r.line = <<>> /\ r.shared = b
  <2>1. <<>> \in Seq(Fragments)
    OBVIOUS
  <2> QED
    BY <2>1, <1>3 DEF Thread, Slots, Places
<1>5. /\ q \in Slots /\ q.at = thread[o].at /\ q.line = thread[o].line
      /\ q.shared = (thread[o].shared \/ b)
  BY <1>3 DEF Slots
<1> HIDE DEF r, q, o
<1>6. thread' \in [Threads -> Slots] /\ thread'[t] = r /\ thread'[o] = q
  BY <1>1, <1>2, <1>4, <1>5 DEF IInv, TypeInv, Slots
<1>7. /\ Busy(t)' /\ (Busy(o)' <=> b) /\ (Alone(t)' <=> ~b) /\ ~Alone(o)'
  BY <1>3, <1>4, <1>5, <1>6 DEF Busy, Alone
<1>8. \E a \in Seq(Fragments), k \in Nat :
         /\ out' = out \o a /\ lines' = lines + k
         /\ \A i \in 1 .. Len(a) :
               /\ a[i].part = "head" => i < Len(a) /\ a[i + 1] = TailOf(a[i])
               /\ lines <= a[i].id /\ a[i].id <= lines + k
               /\ \A j \in i .. Len(a) : a[i].id <= a[j].id
         /\ cmd = "GETBMS" => a = <<>> \/ (a = <<H', T'>>)
  <2>1. lines \in Nat /\ out \in Seq(Fragments)
    BY DEF IInv, TypeInv
  <2>2. CASE /\ out' = out \o AnswerLines(cmd)
             /\ lines' = lines + Len(Answer(cmd))
    <3> DEFINE a == AnswerLines(cmd)
               k == Len(Answer(cmd))
    <3>1. /\ k \in Nat /\ a \in Seq(Fragments)
          /\ \A i \in 1 .. Len(a) :
               /\ a[i].part = "head" => i < Len(a) /\ a[i + 1] = TailOf(a[i])
               /\ lines <= a[i].id /\ a[i].id <= lines + k
               /\ \A j \in i .. Len(a) : a[i].id <= a[j].id
      BY <2>1, AnswerTyped
    <3>2. cmd = "GETBMS" => a = <<H', T'>>
      <4>1. cmd = "GETBMS" => /\ k = 1
                              /\ a = <<Fragment(lines + 1, "bms", "head"),
                                       Fragment(lines + 1, "bms", "tail")>>
        BY <2>1, AnswerTyped
      <4> QED
        BY <4>1, <2>2 DEF H, T, Fragment
    <3> HIDE DEF a, k
    <3>3. out' = out \o a /\ lines' = lines + k
      BY <2>2 DEF a, k
    <3> QED
      BY <3>1, <3>2, <3>3
  <2>3. CASE UNCHANGED <<out, lines>>
    <3>1. /\ out' = out \o <<>> /\ lines' = lines + 0 /\ 0 \in Nat
          /\ <<>> \in Seq(Fragments) /\ 1 .. Len(<<>>) = {}
      BY <2>1, <2>3
    <3>2. \A i \in 1 .. Len(<<>>) :
               /\ <<>>[i].part = "head" => i < Len(<<>>) /\ <<>>[i + 1] = TailOf(<<>>[i])
               /\ lines <= <<>>[i].id /\ <<>>[i].id <= lines + 0
               /\ \A j \in i .. Len(<<>>) : <<>>[i].id <= <<>>[j].id
      BY <3>1
    <3> QED
      BY <3>1, <3>2
  <2> QED
    BY <2>2, <2>3 DEF Send
<1>9. PICK a \in Seq(Fragments), k \in Nat :
         /\ out' = out \o a /\ lines' = lines + k
         /\ \A i \in 1 .. Len(a) :
               /\ a[i].part = "head" => i < Len(a) /\ a[i + 1] = TailOf(a[i])
               /\ lines <= a[i].id /\ a[i].id <= lines + k
               /\ \A j \in i .. Len(a) : a[i].id <= a[j].id
         /\ cmd = "GETBMS" => a = <<>> \/ (a = <<H', T'>>)
  BY <1>8
<1>10. /\ out' \in Seq(Fragments) /\ lines' \in Nat
       /\ out # <<>> => out' # <<>> /\ out'[1] = out[1]
       /\ ~cut => \A i \in 1 .. Len(out') : out'[i].part = "head" =>
                      i < Len(out') /\ out'[i + 1] = TailOf(out'[i])
       /\ \A i \in 1 .. Len(out') : \A j \in i .. Len(out') : out'[i].id <= out'[j].id
       /\ \A i \in 1 .. Len(rx), j \in 1 .. Len(out') : rx[i].id <= out'[j].id
       /\ \A i \in 1 .. Len(rx) : rx[i].id <= lines'
       /\ \A i \in 1 .. Len(out') : out'[i].id <= lines'
       /\ \A m \in Nat : Past(m) => /\ m <= lines'
                                    /\ \A i \in 1 .. Len(rx) : m <= rx[i].id
                                    /\ \A i \in 1 .. Len(out') : m <= out'[i].id
  BY <1>1, <1>9, OutGrows
<1>11. TypeInv'
  BY <1>1, <1>6, <1>10 DEF IInv, TypeInv, Slots
<1>12. HandsInv' /\ SharingInv'
  <2>1. HandsInv'
    BY <1>2, <1>4, <1>5, <1>6 DEF IInv, HandsInv
  <2>2. Busy(t)' /\ Busy(o)' => thread'[t].shared /\ thread'[o].shared
    BY <1>4, <1>5, <1>6, <1>7
  <2> QED
    BY <2>1, <2>2, <1>2 DEF SharingInv
<1>13. PairInv'
  <2>1. ~cut => \A i \in 1 .. Len(rx) :
           rx[i].part = "head" =>
               IF i < Len(rx) THEN rx[i + 1] = TailOf(rx[i])
                              ELSE out' # <<>> /\ out'[1] = TailOf(rx[i])
    BY <1>10 DEF IInv, PairInv
  <2>2. thread'[t].at = "poll" /\ thread'[t].line = <<>>
    BY <1>4, <1>6
  <2> QED
    BY <2>1, <2>2, <1>1, <1>2, <1>7, <1>10 DEF PairInv
<1>14. OrderInv'
  <2> DEFINE Still(m) ==
        /\ m <= lines'
        /\ \A i \in 1 .. Len(rx) : m <= rx[i].id
        /\ \A i \in 1 .. Len(out') : m <= out'[i].id
  <2>1. \A m \in Nat : Past(m) => Still(m)
    BY <1>10
  <2> HIDE DEF Still
  <2>2. Still(status.volt) /\ Still(cached.volt)
    <3>1. status.volt \in Nat /\ cached.volt \in Nat
      BY DEF IInv, TypeInv, Records
    <3> QED
      BY <3>1, <2>1 DEF IInv, OrderInv
  <2>3. \A u \in Threads : \A i \in 1 .. Len(thread'[u].line) : Still(thread'[u].line[i].id)
    <3>1. Len(<<>>) = 0 /\ 1 .. 0 = {}
      OBVIOUS
    <3>2. \A i \in 1 .. Len(thread'[t].line) : Still(thread'[t].line[i].id)
      BY <3>1, <1>4, <1>6
    <3>3. \A i \in 1 .. Len(thread[o].line) : Still(thread[o].line[i].id)
      <4>1. thread[o].line \in Seq(Fragments)
        BY <1>3 DEF Slots
      <4>2. \A i \in 1 .. Len(thread[o].line) : thread[o].line[i].id \in Nat
        BY <4>1, FragmentTyped
      <4> QED
        BY <4>2, <2>1, <1>2 DEF IInv, OrderInv
    <3>4. thread'[o].line = thread[o].line
      BY <1>5, <1>6
    <3> QED
      BY <3>2, <3>3, <3>4, <1>2
  <2> QED
    BY <2>2, <2>3, <1>1, <1>10 DEF OrderInv, Past, Still
<1>15. ForwardInv'
  <2>1. Len(<<>>) = 0 /\ 1 .. 0 = {}
    OBVIOUS
  <2>2. thread'[t].at = "poll" /\ thread'[t].line = <<>>
    BY <1>4, <1>6
  <2> QED
    BY <2>1, <2>2, <1>1, <1>2, <1>7 DEF IInv, ForwardInv
<1>16. ReportInv'
  <2>1. \A u \in Threads : /\ thread'[u].at = "soc" <=> thread[u].at = "soc"
                           /\ thread'[u].at = "soc" => thread'[u].line = thread[u].line
                           /\ thread'[u].at = "copied" <=> thread[u].at = "copied"
                           /\ thread'[u].at = "copied" => u = o
    BY <1>2, <1>4, <1>5, <1>6
  <2>2. thread'["poller"].at = "copied" => ~Alone("poller")'
    BY <2>1, <1>2, <1>7
  <2> QED
    BY <2>1, <2>2, <1>1, <1>2 DEF IInv, ReportInv, OneReportUnlessShared
<1>17. CalmInv'
  <2> SUFFICES ASSUME Alone("poller")', calm'
               PROVE  CalmInv'
    BY DEF CalmInv
  <2>1. t = "poller"
    BY <1>2, <1>7
  <2>2. ~heard' /\ turn' = "GETBMS" /\ cmd = "GETBMS" /\ out = <<>> /\ rx' = <<>>
    BY <2>1, <1>1
  <2>3. Hands' = <<>> /\ thread'["poller"].at = "poll"
    BY <2>1, <1>4, <1>6 DEF Hands
  <2>4. out' = <<>> \/ out' = <<H', T'>>
    <3>1. out' = a
      BY <2>2, <1>9
    <3> QED
      BY <3>1, <2>2, <1>9
  <2>5. Unread'
    BY <2>2, <2>3, <2>4 DEF Unread
  <2> QED
    BY <2>2, <2>3, <2>5 DEF CalmInv
<1> QED
  BY <1>11, <1>12, <1>13, <1>14, <1>15, <1>16, <1>17 DEF IInv

\* The poll thread or a caller begins a call of send_and_read(), or its write
\* fails.
LEMMA BeginKeeps ==
  ASSUME IInv, NEW t \in Threads, NEW cmd \in Commands, thread[t].at = "idle",
         Send(t, cmd) \/ SendFails(t), heard' \in BOOLEAN, calm' \in BOOLEAN,
         t = "poller" => ~heard' /\ (calm' => cmd = "GETBMS" /\ turn' = cmd
                                              /\ out = <<>> /\ rx = <<>>),
         t # "poller" => UNCHANGED <<turn, heard, calm>>
  PROVE  IInv'
<1>1. CASE Send(t, cmd)
  BY <1>1, SendKeeps
<1>2. CASE SendFails(t)
  <2>1. /\ Thread("idle") \in Slots /\ Thread("idle").at = "idle"
        /\ Thread("idle").line = <<>>
    BY DEF Thread, Slots, Places
  <2>2. /\ thread' = [thread EXCEPT ![t] = Thread("idle")]
        /\ UNCHANGED <<out, rx, cut, lines, status, cached>>
    BY <1>2 DEF SendFails
  <2> QED
    BY <2>1, <2>2, RestKeeps
<1> QED
  BY <1>1, <1>2

\* A thread at rest begins, joins or ends.
LEMMA ShiftKeeps ==
  ASSUME IInv, NEW t \in Threads, thread[t].at \in {"unborn", "idle", "join"},
         NEW at \in {"idle", "join", "done"}, thread' = [thread EXCEPT ![t].at = at],
         UNCHANGED <<polled, out, rx, cut, lines, status, cached>>
  PROVE  IInv'
<1> DEFINE r == [thread[t] EXCEPT !.at = at]
<1>1. thread[t] \in Slots /\ thread[t].line = <<>>
  BY SlotTyped DEF IInv, HandsInv
<1>2. r \in Slots /\ r.at \in {"idle", "join", "done"} /\ r.line = <<>>
  BY <1>1 DEF Slots, Places
<1>3. thread' = [thread EXCEPT ![t] = r]
  BY <1>1 DEF IInv, TypeInv
<1>4. UNCHANGED <<turn, heard, calm>> /\ heard \in BOOLEAN /\ calm \in BOOLEAN
  BY DEF polled, IInv, TypeInv
<1> HIDE DEF r
<1> QED
  BY <1>2, <1>3, <1>4, RestKeeps

\* The board's step leaves what is on the line in order and in pairs.
LEMMA BoardKeeps ==
  ASSUME IInv, Board
  PROVE  IInv'
<1>1. out # <<>> /\ UNCHANGED <<thread, turn, heard, calm, lines, status, cached>>
  BY DEF Board, polled
<1>2. CASE out' = Tail(out) /\ rx' = Append(rx, Head(out)) /\ UNCHANGED cut
  BY <1>1, <1>2, ArriveKeeps
<1>3. CASE out' = <<>> /\ cut' = (cut \/ Head(out).part = "tail") /\ UNCHANGED rx
  BY <1>1, <1>3, LossKeeps
<1> QED
  BY <1>2, <1>3 DEF Board

-----------------------------------------------------------------------------
(* The invariant holds, and what follows from it.                          *)

\* What the constructor has still to send are commands.
SetupInv == setup \in Seq(Commands)

\* Nothing but commands is ever left to send by the constructor.
LEMMA SetupTyped == Spec => []SetupInv
<1>1. Init => SetupInv
  BY DEF Init, SetupInv, Commands
<1>2. SetupInv /\ [Next]_vars => SetupInv'
  <2> SUFFICES ASSUME SetupInv, [Next]_vars
               PROVE  setup' = setup \/ (setup # <<>> /\ setup' = Tail(setup))
    BY DEF SetupInv
  <2> QED
    BY DEF Next, vars, Receive, Poll, Timeout, ReadNothing, Read, Parse, ParseOther,
           ParseText, ParseVolt, ParseSoc, Poller, PollerBegins, PollerEnds, CopyVolt,
           CopySoc, Construct, StartPoller, Destroy, Join, CallerBegins, Board
<1> QED
  BY <1>1, <1>2, PTL DEF Spec

\* Nothing has been sent and nobody is busy.
LEMMA InitIInv == Init => IInv
<1> SUFFICES ASSUME Init
             PROVE  IInv
  OBVIOUS
<1>1. /\ Thread("unborn") = [at |-> "unborn", line |-> <<>>, shared |-> FALSE]
      /\ Thread("idle") = [at |-> "idle", line |-> <<>>, shared |-> FALSE]
      /\ <<>> \in Seq(Fragments) /\ Len(<<>>) = 0 /\ 1 .. 0 = {}
  BY DEF Thread
<1>2. \A t \in Threads : /\ thread[t].at \in {"unborn", "idle"} /\ thread[t].line = <<>>
                         /\ thread[t] \in Slots
  <2>1. /\ thread["poller"] = Thread("unborn") /\ thread["caller"] = Thread("idle")
        /\ \A t \in Threads : t = "poller" \/ t = "caller"
    BY DEF Init, Threads
  <2>2. Thread("unborn") \in Slots /\ Thread("idle") \in Slots
    <3>1. <<>> \in Seq(Fragments)
      OBVIOUS
    <3> QED
      BY <3>1 DEF Slots, Places, Thread
  <2>3. /\ Thread("unborn").at = "unborn" /\ Thread("unborn").line = <<>>
        /\ Thread("idle").at = "idle" /\ Thread("idle").line = <<>>
    BY <1>1
  <2> QED
    BY <2>1, <2>2, <2>3
<1>3. \A t \in Threads : ~Busy(t) /\ ~Alone(t)
  BY <1>2 DEF Busy, Alone
<1>4. "poller" \in Threads /\ "caller" \in Threads
  BY DEF Threads
<1>5. TypeInv
  <2>1. thread \in [Threads -> Slots]
    BY <1>1, <1>2 DEF Init, Threads
  <2> QED
    BY <2>1, <1>1 DEF Init, TypeInv, Slots, Records
<1>6. HandsInv /\ SharingInv
  BY <1>2, <1>3, <1>4 DEF HandsInv, SharingInv
<1>7. PairInv
  BY <1>1, <1>3 DEF Init, PairInv
<1>8. OrderInv
  BY <1>1, <1>2 DEF Init, OrderInv, Past
<1>9. ForwardInv
  BY <1>3 DEF Init, ForwardInv
<1>10. ReportInv
  BY <1>2, <1>3, <1>4 DEF Init, ReportInv, OneReportUnlessShared
<1>11. CalmInv
  BY <1>3, <1>4 DEF CalmInv
<1> QED
  BY <1>5, <1>6, <1>7, <1>8, <1>9, <1>10, <1>11 DEF IInv

\* Every step of the threads and of the board preserves the invariant.
LEMMA NextIInv == IInv /\ SetupInv /\ [Next]_vars => IInv'
<1> SUFFICES ASSUME IInv, SetupInv, [Next]_vars
             PROVE  IInv'
  OBVIOUS
<1>1. "poller" \in Threads /\ "caller" \in Threads
  BY DEF Threads
<1>2. ASSUME NEW t \in Threads, Receive(t)
      PROVE  IInv'
  BY <1>2, PollKeeps, ReturnKeeps, ReadKeeps DEF Receive
<1>3. ASSUME NEW t \in Threads, Parse(t)
      PROVE  IInv'
  BY <1>3, ParseTextKeeps, ParseVoltKeeps, ParseSocKeeps DEF Parse
<1>4. ASSUME NEW cmd \in {"GETBMS", "STATUS"}, PollerBegins(cmd)
      PROVE  IInv'
  <2>1. /\ thread["poller"].at = "idle" /\ cmd \in Commands
        /\ Send("poller", cmd) \/ SendFails("poller")
        /\ turn' = cmd /\ heard' = FALSE
        /\ calm' = (cmd = "GETBMS" /\ out = <<>> /\ rx = <<>>)
    BY <1>4 DEF PollerBegins, Commands
  <2>2. heard' \in BOOLEAN /\ calm' \in BOOLEAN
    BY <2>1
  <2> QED
    BY <2>1, <2>2, <1>1, BeginKeeps
<1>5. CASE PollerEnds
  BY <1>1, <1>5, ShiftKeeps DEF PollerEnds
<1>6. CASE CopyVolt \/ CopySoc
  BY <1>6, CopyVoltKeeps, CopySocKeeps
<1>7. ASSUME NEW cmd \in Commands, thread["caller"].at = "idle",
             Send("caller", cmd) \/ SendFails("caller"), UNCHANGED polled
      PROVE  IInv'
  <2>1. heard \in BOOLEAN /\ calm \in BOOLEAN /\ UNCHANGED <<turn, heard, calm>>
    BY <1>7 DEF IInv, TypeInv, polled
  <2>2. "caller" # "poller"
    OBVIOUS
  <2> QED
    BY <2>1, <2>2, <1>1, <1>7, BeginKeeps
<1>8. CASE Construct
  <2>1. CASE SendFails("caller")
    <3>1. "STATUS" \in Commands
      BY DEF Commands
    <3> QED
      BY <2>1, <3>1, <1>7, <1>8 DEF Construct
  <2>2. CASE Send("caller", Head(setup))
    <3>1. Head(setup) \in Commands
      BY <1>8 DEF Construct, SetupInv
    <3> QED
      BY <2>2, <3>1, <1>7, <1>8 DEF Construct
  <2> QED
    BY <2>1, <2>2, <1>8 DEF Construct
<1>9. CASE StartPoller \/ Destroy \/ Join
  BY <1>1, <1>9, ShiftKeeps DEF StartPoller, Destroy, Join
<1>10. ASSUME NEW cmd \in Commands, CallerBegins(cmd)
       PROVE  IInv'
  BY <1>7, <1>10 DEF CallerBegins
<1>11. CASE Board
  BY <1>11, BoardKeeps
<1>12. CASE UNCHANGED vars
  BY <1>12, StutterKeeps DEF vars, polled
<1> QED
  BY <1>2, <1>3, <1>4, <1>5, <1>6, <1>8, <1>9, <1>10, <1>11, <1>12 DEF Next, Poller

\* The inductive invariant holds in every reachable state.
THEOREM Invariant == Spec => []IInv
BY InitIInv, NextIInv, SetupTyped, PTL DEF Spec

\* However late the answers are and whatever is dropped, a line that
\* parse_response() recognises is one the board sent, whole, unless both threads
\* were reading or the board stopped in the middle of one.
THEOREM LinesAreWhole == Spec => []WholeLinesUnlessShared
<1>1. IInv => WholeLinesUnlessShared
  <2> SUFFICES ASSUME IInv, NEW t \in Threads, thread[t].at \in {"parse", "soc"},
                      Prefix(thread[t].line) # "none", ~thread[t].shared, ~cut
               PROVE  Whole(thread[t].line)
    BY DEF WholeLinesUnlessShared
  <2> DEFINE s == thread[t].line
  <2>1. s \in Seq(Fragments) /\ s # <<>>
    BY SlotTyped DEF IInv, HandsInv
  <2>2. Head(s) = s[1] /\ s[1] \in Fragments /\ s[1].part = "head"
    BY <2>1 DEF Prefix
  <2>3. s = <<s[1], TailOf(s[1])>>
    BY <2>2 DEF IInv, PairInv, Alone, Busy
  <2>4. s[1] = Fragment(s[1].id, s[1].kind, "head")
    BY <2>2 DEF Fragments, Fragment
  <2> QED
    BY <2>2, <2>3, <2>4 DEF Whole, Line, TailOf
<1> QED
  BY <1>1, Invariant, PTL

\* Voltage and charge of the cache are those of one report unless the two
\* threads met, for any number of calls and of reports.
THEOREM CacheIsOneReport == Spec => []OneReportUnlessShared
<1>1. IInv => OneReportUnlessShared
  BY DEF IInv, ReportInv
<1> QED
  BY <1>1, Invariant, PTL

\* A poll that nothing was outstanding for and that no caller disturbed leaves
\* the report it has asked for in the cache, if it leaves any.
THEOREM CalmPollIsCached == Spec => []UndisturbedPollIsCached
<1>1. IInv => UndisturbedPollIsCached
  BY DEF IInv, CalmInv, Alone, Busy, UndisturbedPollIsCached
<1> QED
  BY <1>1, Invariant, PTL

\* Outside the exempted rounds the cache never goes back to an older report.
THEOREM CacheIsNeverOlder == Spec => CacheMovesForward
<1>1. IInv /\ [Next]_vars => [~cached'.shared => cached'.volt >= cached.volt]_vars
  <2> SUFFICES ASSUME IInv, Next, ~cached'.shared
               PROVE  cached'.volt >= cached.volt
    OBVIOUS
  <2>1. status \in Records /\ cached \in Records /\ cached.volt \in Nat /\ status.volt \in Nat
    BY DEF IInv, TypeInv, Records
  <2>2. CASE cached' = cached
    BY <2>1, <2>2
  <2>3. CASE CopyVolt
    <3>1. cached' = [cached EXCEPT !.volt = status.volt,
                                   !.shared = status.shared \/ thread["poller"].shared]
      BY <2>3 DEF CopyVolt
    <3>2. /\ cached'.volt = status.volt
          /\ cached'.shared = (status.shared \/ thread["poller"].shared)
      BY <2>1, <3>1 DEF Records
    <3> QED
      BY <2>1, <3>2 DEF IInv, ForwardInv
  <2>4. CASE CopySoc
    <3>1. cached'.volt = cached.volt
      BY <2>1, <2>4 DEF CopySoc, Records
    <3> QED
      BY <2>1, <3>1
  <2>5. cached' = cached \/ CopyVolt \/ CopySoc
    BY DEF Next, Receive, Poll, Timeout, ReadNothing, Read, Parse, ParseOther,
           ParseText, ParseVolt, ParseSoc, Poller, PollerBegins, PollerEnds,
           Construct, StartPoller, Destroy, Join, CallerBegins, Board, Send, SendFails
  <2> QED
    BY <2>2, <2>3, <2>4, <2>5
<1> QED
  BY <1>1, Invariant, PTL DEF Spec, CacheMovesForward
=============================================================================

-------------------------- MODULE ModbusRoundProofs --------------------------
(***************************************************************************)
(* That no reply of a TWS or GF485 pack serves twice, and that what        *)
(* run_daemon() broadcasts keeps the promise of CarryForward, however many *)
(* queries there are, however late the pack is and in whatever pieces its  *)
(* replies come.                                                           *)
(*                                                                         *)
(* The argument needs no pairing of replies with requests, which the code  *)
(* does not have.  A reply can be accepted only from its first byte on, so *)
(* what counts are the pieces on their way that begin a reply: their query *)
(* numbers grow along the line, and are ahead of everything used so far.   *)
(* For a query flushed for in a quiet moment more can be said: the states  *)
(* of the line until it ends are ten, and are listed.                      *)
(*                                                                         *)
(* Which field a reply fills is decided by its length.  Last, therefore,   *)
(* every reply on the line, in the buffer and behind a field is traced to  *)
(* the query it answers: in a round only those to the queries of the start *)
(* can be mistaken, and they are at least three queries old by then.       *)
(***************************************************************************)
EXTENDS ModbusRound, SequenceTheorems, TLAPS

Queries == [kind : Kinds, len : 7 .. 45]
Pieces  == [q : Nat, kind : Kinds, len : Nat, from : Nat \ {0}, to : Nat]
Buffer  == [n : Nat, q : Nat, kind : Kinds \cup {"none"}, whole : BOOLEAN]

Begins(p) == p.from = 1

\* A reply not sent yet, or its second piece.
Sendable(p) == p.from <= SplitAt + 1 /\ p.to > SplitAt

\* A reply is being received from its first byte on.
Receiving == pc = "read" /\ got.n > 0 /\ got.whole

\* TypeOK, and what there is on the line.
ShapeInv ==
    /\ TypeOK
    /\ got \in Buffer
    /\ asked \in Seq(Pieces) /\ \A i \in 1 .. Len(asked) : Sendable(asked[i])
    /\ rx \in Seq(Pieces) /\ \A i \in 1 .. Len(rx) : rx[i].from <= rx[i].to
    /\ born \in 0 .. q
    /\ \A g \in Groups : sent[g].q <= q /\ raw[g].q <= q

\* Query number n is of this life of the daemon and later than all that it has
\* published and, after the start, than all that it has accepted.
Unused(n) ==
    /\ n \in born + 1 .. q
    /\ \A h \in Groups : n > sent[h].q
    /\ ~startup => \A g \in Groups : n > raw[g].q

Ahead(p) ==
    Begins(p) => Unused(p.q) /\ (Receiving => p.q > got.q)

\* The replies that begin in s begin in the order of their queries.
InOrder(s) ==
    \A i, j \in 1 .. Len(s) :
        i < j /\ Begins(s[i]) /\ Begins(s[j]) => s[i].q < s[j].q

LineInv ==
    /\ \A i \in 1 .. Len(rx) : Ahead(rx[i])
    /\ \A i \in 1 .. Len(asked) : Ahead(asked[i])
    /\ InOrder(rx) /\ InOrder(asked)
    /\ \A i \in 1 .. Len(rx), j \in 1 .. Len(asked) :
           Begins(rx[i]) /\ Begins(asked[j]) => rx[i].q < asked[j].q
    /\ Receiving => Unused(got.q)

IInv == ShapeInv /\ LineInv /\ RoundIsNews

-----------------------------------------------------------------------------
(* Sequences, and what the constants come to.                              *)

\* What taking a piece leaves.
LEMMA TakePiece ==
  ASSUME NEW S, NEW s \in Seq(S), s # <<>>
  PROVE  /\ Len(s) \in Nat \ {0}
         /\ Head(s) = s[1] /\ Head(s) \in S
         /\ Tail(s) \in Seq(S) /\ Len(Tail(s)) = Len(s) - 1
         /\ \A i \in 1 .. Len(Tail(s)) : i + 1 \in 1 .. Len(s) /\ Tail(s)[i] = s[i + 1]
  OBVIOUS

\* What putting one behind the others makes.
LEMMA PutPiece ==
  ASSUME NEW S, NEW s \in Seq(S), NEW p \in S
  PROVE  /\ s \o <<p>> = Append(s, p)
         /\ Append(s, p) \in Seq(S) /\ Len(Append(s, p)) = Len(s) + 1
         /\ \A i \in 1 .. Len(s) : Append(s, p)[i] = s[i]
         /\ Append(s, p)[Len(s) + 1] = p
  OBVIOUS

\* What putting one in front makes.
LEMMA PushPiece ==
  ASSUME NEW S, NEW s \in Seq(S), NEW p \in S
  PROVE  /\ <<p>> \o s \in Seq(S) /\ Len(<<p>> \o s) = Len(s) + 1
         /\ (<<p>> \o s)[1] = p
         /\ \A i \in 2 .. Len(s) + 1 : i - 1 \in 1 .. Len(s) /\ (<<p>> \o s)[i] = s[i - 1]
  OBVIOUS

\* What is left of s when its first piece is gone, but for bytes that do not
\* begin a reply.
Rest(t, s) ==
    \E d \in {0, 1} : \A i \in 1 .. Len(t) :
        \/ i = 1 /\ ~Begins(t[i])
        \/ i + d \in 2 .. Len(s) /\ t[i] = s[i + d]

\* Taking the first piece away leaves a rest of the line.
LEMMA TailRest ==
  ASSUME NEW s \in Seq(Pieces), s # <<>>
  PROVE  /\ Tail(s) \in Seq(Pieces) /\ Len(Tail(s)) \in Nat /\ Len(Tail(s)) <= Len(s)
         /\ Rest(Tail(s), s)
         /\ \A i \in 1 .. Len(Tail(s)) : \E k \in 1 .. Len(s) : Tail(s)[i] = s[k]
<1> DEFINE t == Tail(s)
<1>1. /\ Len(s) \in Nat \ {0} /\ t \in Seq(Pieces) /\ Len(t) = Len(s) - 1
      /\ \A i \in 1 .. Len(t) : i + 1 \in 1 .. Len(s) /\ t[i] = s[i + 1]
    BY TakePiece
<1> HIDE DEF t
<1>2. \A i \in 1 .. Len(t) : i + 1 \in 2 .. Len(s) /\ t[i] = s[i + 1]
    BY <1>1
<1>3. Rest(t, s)
    BY <1>2 DEF Rest
<1>4. Len(t) \in Nat /\ Len(t) <= Len(s)
    BY <1>1
<1> QED
    BY <1>1, <1>3, <1>4 DEF t

\* So does taking the first bytes of it away.
LEMMA PushRest ==
  ASSUME NEW s \in Seq(Pieces), s # <<>>, NEW r \in Pieces, ~Begins(r)
  PROVE  LET t == <<r>> \o Tail(s)
         IN  /\ t \in Seq(Pieces) /\ Len(t) \in Nat /\ Len(t) <= Len(s)
             /\ Rest(t, s)
             /\ \A i \in 1 .. Len(t) : t[i] = r \/ \E k \in 1 .. Len(s) : t[i] = s[k]
<1> DEFINE t == <<r>> \o Tail(s)
<1>1. /\ Len(s) \in Nat \ {0} /\ Tail(s) \in Seq(Pieces)
      /\ Len(Tail(s)) = Len(s) - 1
      /\ \A i \in 1 .. Len(Tail(s)) : i + 1 \in 1 .. Len(s) /\ Tail(s)[i] = s[i + 1]
    BY TakePiece
<1>2. /\ t \in Seq(Pieces) /\ Len(t) = Len(Tail(s)) + 1 /\ t[1] = r
      /\ \A i \in 2 .. Len(Tail(s)) + 1 :
             i - 1 \in 1 .. Len(Tail(s)) /\ t[i] = Tail(s)[i - 1]
    BY <1>1, PushPiece
<1> HIDE DEF t
<1>3. Len(t) = Len(s)
    BY <1>1, <1>2
<1>4. \A i \in 2 .. Len(t) : i + 0 \in 2 .. Len(s) /\ t[i] = s[i + 0]
    BY <1>1, <1>2
<1>5. \A i \in 1 .. Len(t) : i = 1 \/ i \in 2 .. Len(t)
    BY <1>1, <1>3
<1>6. Rest(t, s)
    BY <1>2, <1>4, <1>5 DEF Rest
<1>7. \A i \in 1 .. Len(t) : t[i] = r \/ \E k \in 1 .. Len(s) : t[i] = s[k]
    BY <1>1, <1>2, <1>3, <1>4, <1>5
<1> QED
    BY <1>1, <1>2, <1>3, <1>6, <1>7 DEF t

\* It keeps the order, and every reply that begins in it began behind the first.
LEMMA RestInOrder ==
  ASSUME NEW s \in Seq(Pieces), NEW t \in Seq(Pieces), Rest(t, s), InOrder(s)
  PROVE  /\ InOrder(t)
         /\ \A i \in 1 .. Len(t) : Begins(t[i]) => \E k \in 2 .. Len(s) : t[i] = s[k]
<1>1. PICK d \in {0, 1} : \A i \in 1 .. Len(t) :
        \/ i = 1 /\ ~Begins(t[i])
        \/ i + d \in 2 .. Len(s) /\ t[i] = s[i + d]
    BY DEF Rest
<1>2. \A i \in 1 .. Len(t) : Begins(t[i]) =>
        i + d \in 2 .. Len(s) /\ i + d \in 1 .. Len(s) /\ t[i] = s[i + d]
    BY <1>1
<1>3. \A i, j \in 1 .. Len(t) : i < j => i + d < j + d
    OBVIOUS
<1> QED
    BY <1>2, <1>3 DEF InOrder

\* Every plan has a query, and every query waits for seven bytes or more.
LEMMA PlansAreQueries ==
  ASSUME NEW type \in Protocols
  PROVE  /\ StartupPlan[type] \in Seq(Queries) /\ StartupPlan[type] # <<>>
         /\ RoundPlan[type] \in Seq(Queries) /\ RoundPlan[type] # <<>>
<1>1. type \in {"TWS", "GF"}
    BY RoundAssumption DEF RoundAssumption
<1>2. \A kind \in Kinds, len \in 7 .. 45 : Query(kind, len) \in Queries
    BY DEF Query, Queries
<1>3. {"version", "soh", "cycles", "basic", "capacity", "io"} \subseteq Kinds
    BY DEF Kinds, Groups
<1>4. /\ \A a, b \in Queries : <<a, b>> \in Seq(Queries) /\ <<a, b>> # <<>>
      /\ \A a, b, c \in Queries : <<a, b, c>> \in Seq(Queries) /\ <<a, b, c>> # <<>>
    OBVIOUS
<1>5. /\ Query("version", 9) \in Queries /\ Query("soh", 7) \in Queries
      /\ Query("cycles", 9) \in Queries /\ Query("cycles", 7) \in Queries
      /\ Query("basic", 35) \in Queries /\ Query("capacity", 13) \in Queries
      /\ Query("io", 9) \in Queries /\ Query("basic", 45) \in Queries
      /\ Query("capacity", 33) \in Queries
    BY <1>2, <1>3
<1>6. CASE type = "TWS"
  <2>1. /\ StartupPlan[type] = <<Query("version", 9), Query("soh", 7), Query("cycles", 9)>>
        /\ RoundPlan[type] = <<Query("basic", 35), Query("capacity", 13), Query("io", 9)>>
      BY <1>6 DEF StartupPlan, RoundPlan
  <2> QED
      BY <2>1, <1>4, <1>5
<1>7. CASE type = "GF"
  <2>1. /\ StartupPlan[type] = <<Query("version", 9), Query("soh", 7), Query("cycles", 7)>>
        /\ RoundPlan[type] = <<Query("basic", 45), Query("capacity", 33)>>
      BY <1>7 DEF StartupPlan, RoundPlan
  <2> QED
      BY <2>1, <1>4, <1>5
<1> QED
    BY <1>1, <1>6, <1>7

\* Head of the plan while a query is in progress.
LEMMA CurrentQuery ==
  ASSUME ShapeInv, pc \in {"flush", "write", "read"}
  PROVE  /\ plan # <<>> /\ Head(plan).kind \in Kinds /\ Awaited \in 7 .. 45
         /\ Tail(plan) \in Seq(Queries)
<1>1. plan # <<>>
    BY DEF ShapeInv, TypeOK
<1>2. Head(plan) \in Queries /\ Tail(plan) \in Seq(Queries)
    BY <1>1, TakePiece DEF ShapeInv, TypeOK, Queries
<1> QED
    BY <1>1, <1>2 DEF Queries, Awaited

-----------------------------------------------------------------------------
(* The initial state, and the steps that leave the line alone.             *)

\* The two marks of a group that no reply has filled.
LEMMA NoSource == None \in Sources /\ Indeterminate \in Sources
                    /\ None.q = 0 /\ Indeterminate.q = 0
BY DEF None, Indeterminate, Source, Sources

\* Query numbers of the groups are numbers.
LEMMA NumbersTyped ==
  ASSUME TypeOK, NEW g \in Groups
  PROVE  sent[g].q \in Nat /\ raw[g].q \in Nat
<1>1. sent[g] \in Sources /\ raw[g] \in Sources
    BY DEF TypeOK, Kinds
<1> QED
    BY <1>1 DEF Sources

\* The buffer of read_response() before its first turn.
LEMMA NothingTyped == Nothing \in Buffer /\ Nothing.n = 0
BY DEF Nothing, Buffer

\* The daemon starts on a quiet line.
LEMMA Initially == Init => IInv
<1> SUFFICES ASSUME Init PROVE IInv
    OBVIOUS
<1>1. plan \in Seq(Queries) /\ plan # <<>>
    BY PlansAreQueries DEF Init
<1>2. plan \in Seq([kind : Kinds, len : 7 .. 45])
    BY <1>1 DEF Queries
<1>3. rx \in Seq(Pieces) /\ asked \in Seq(Pieces) /\ Len(rx) = 0 /\ Len(asked) = 0
    BY DEF Init
<1>4. Groups \subseteq Kinds
    BY DEF Kinds
<1>5. TypeOK
    BY <1>1, <1>2, <1>3, <1>4, NoSource, NothingTyped, RoundAssumption
    DEF Init, TypeOK, RoundAssumption, Buffer
<1>6. ShapeInv
    BY <1>1, <1>3, <1>4, <1>5, NoSource, NothingTyped DEF Init, ShapeInv
<1>7. LineInv
    BY <1>3 DEF Init, LineInv, InOrder, Receiving
<1>8. RoundIsNews
    BY DEF Init, RoundIsNews
<1> QED
    BY <1>6, <1>7, <1>8 DEF IInv

\* The line, what has been used, and the reply being received stay.
LEMMA LineKept ==
  ASSUME LineInv, UNCHANGED <<asked, rx, q, born, startup, sent, raw>>,
         Receiving' => Receiving /\ got' = got
  PROVE  LineInv'
BY DEF LineInv, Ahead, Unused, InOrder, Begins

\* The line is emptied, and no reply is being received.
LEMMA LineEmptied ==
  ASSUME rx' = <<>>, asked' = <<>>, ~Receiving'
  PROVE  LineInv'
BY DEF LineInv, InOrder

-----------------------------------------------------------------------------
(* One query.                                                              *)

\* A flush empties the line; the replies still to be sent stay in order.
LEMMA FlushKeeps == IInv /\ Flush => IInv'
<1> SUFFICES ASSUME IInv, Flush PROVE IInv'
    OBVIOUS
<1>1. ShapeInv'
    BY DEF IInv, ShapeInv, TypeOK, Flush, Awaited
<1>2. LineInv'
    BY DEF IInv, LineInv, Flush, Receiving, Ahead, Unused, InOrder, Begins
<1>3. RoundIsNews'
    BY DEF IInv, RoundIsNews, Filled, Flush
<1> QED
    BY <1>1, <1>2, <1>3 DEF IInv

\* The new query's number is ahead of every other.
LEMMA WriteKeeps == IInv /\ Write => IInv'
<1> SUFFICES ASSUME IInv, Write PROVE IInv'
    OBVIOUS
<1> DEFINE p == Piece(q + 1, Head(plan).kind, Awaited, 1, Awaited)
<1>1. q \in Nat /\ born \in 0 .. q /\ asked \in Seq(Pieces) /\ rx \in Seq(Pieces)
    BY DEF IInv, ShapeInv, TypeOK
<1>2. /\ plan # <<>> /\ Head(plan).kind \in Kinds /\ Awaited \in 7 .. 45
    BY CurrentQuery DEF IInv, Write
<1>3. /\ p \in Pieces /\ p.q = q + 1 /\ p.from = 1 /\ Sendable(p)
    BY <1>1, <1>2 DEF Piece, Pieces, SplitAt, Sendable
<1> HIDE DEF p
<1>4. /\ q' = q + 1 /\ got' = Nothing /\ pc' = "read"
      /\ asked' = Append(asked, p) \/ asked' = asked
      /\ Len(asked) < MaxLate
      /\ UNCHANGED <<proto, startup, plan, port, raw, sent, failures, rx, born, calm>>
    BY DEF Write, p
<1>5. /\ Append(asked, p) \in Seq(Pieces) /\ Len(Append(asked, p)) = Len(asked) + 1
      /\ \A i \in 1 .. Len(asked) : Append(asked, p)[i] = asked[i]
      /\ Append(asked, p)[Len(asked) + 1] = p
    BY <1>1, <1>3, PutPiece
<1>6. /\ asked' \in Seq(Pieces) /\ Len(asked') \in Nat /\ Len(asked) \in Nat
      /\ \A i \in 1 .. Len(asked') :
            \/ i \in 1 .. Len(asked) /\ asked'[i] = asked[i]
            \/ i = Len(asked) + 1 /\ asked'[i] = p
  <2>1. CASE asked' = asked
      BY <1>1, <2>1
  <2>2. CASE asked' = Append(asked, p)
      BY <1>1, <1>5, <2>2
  <2> QED
      BY <1>4, <2>1, <2>2
<1>7. ShapeInv'
  <2>1. TypeOK'
    <3>1. Len(asked') <= MaxLate
        BY <1>1, <1>4, <1>5, RoundAssumption DEF RoundAssumption
    <3>2. got'.n = 0 /\ Awaited' = Awaited
        BY <1>4, NothingTyped DEF Awaited
    <3> QED
        BY <3>1, <3>2, <1>1, <1>2, <1>4 DEF IInv, ShapeInv, TypeOK
  <2>2. \A i \in 1 .. Len(asked') : Sendable(asked'[i])
      BY <1>3, <1>6 DEF IInv, ShapeInv
  <2>3. \A g \in Groups : sent'[g].q <= q' /\ raw'[g].q <= q'
      BY NumbersTyped, <1>1, <1>4 DEF IInv, ShapeInv
  <2> QED
      BY <2>1, <2>2, <2>3, <1>1, <1>4, <1>6, NothingTyped DEF IInv, ShapeInv
<1>8. LineInv'
  <2>1. ~Receiving'
      BY <1>4, NothingTyped DEF Receiving
  <2>2. \A n : Unused(n) => Unused(n)'
      BY <1>1, <1>4 DEF Unused
  <2>3. \A n : n = q + 1 => Unused(n)'
    <3>1. \A g \in Groups : sent[g].q < q + 1 /\ raw[g].q < q + 1
        BY <1>1, NumbersTyped DEF IInv, ShapeInv
    <3> QED
        BY <3>1, <1>1, <1>4 DEF Unused
  <2>4. /\ \A i \in 1 .. Len(rx') : Ahead(rx[i])'
        /\ \A i \in 1 .. Len(asked') : Ahead(asked[i])'
      BY <1>3, <1>4, <1>6, <2>1, <2>2, <2>3 DEF IInv, LineInv, Ahead, Begins
  <2>5. /\ \A i \in 1 .. Len(rx) : Begins(rx[i]) => rx[i].q \in Nat /\ rx[i].q < q + 1
        /\ \A i \in 1 .. Len(asked) : Begins(asked[i]) => asked[i].q \in Nat /\ asked[i].q < q + 1
      BY <1>1 DEF IInv, LineInv, Ahead, Unused
  <2>6. InOrder(rx)' /\ InOrder(asked)'
      BY <1>3, <1>4, <1>6, <2>5 DEF IInv, LineInv, InOrder, Begins
  <2>7. \A i \in 1 .. Len(rx'), j \in 1 .. Len(asked') :
           Begins(rx'[i]) /\ Begins(asked'[j]) => rx'[i].q < asked'[j].q
      BY <1>3, <1>4, <1>6, <2>5 DEF IInv, LineInv, Begins
  <2> QED
      BY <2>1, <2>4, <2>6, <2>7 DEF LineInv, Begins
<1>9. RoundIsNews'
    BY <1>4 DEF IInv, RoundIsNews, Filled, Write
<1> QED
    BY <1>7, <1>8, <1>9 DEF IInv


\* What is left of a piece begins no reply.
LEMMA CutPiece ==
  ASSUME NEW p \in Pieces, NEW m \in Nat \ {0}
  PROVE  LET r == [p EXCEPT !.from = @ + m]
         IN  r \in Pieces /\ ~Begins(r) /\ r.from = p.from + m /\ r.to = p.to
<1>1. p.from \in Nat \ {0} /\ p.from + m \in Nat \ {0} /\ p.from + m # 1
    BY DEF Pieces
<1> QED
    BY <1>1 DEF Pieces, Begins

\* Bytes of a piece make a buffer.
LEMMA BufferOf ==
  ASSUME NEW n \in Nat, NEW p \in Pieces, NEW w \in BOOLEAN
  PROVE  [n |-> n, q |-> p.q, kind |-> p.kind, whole |-> w] \in Buffer
<1>1. p.q \in Nat /\ p.kind \in Kinds \cup {"none"}
    BY DEF Pieces
<1> QED
    BY <1>1 DEF Buffer

\* A turn of read_response() takes bytes of the first piece on the line.  If the
\* buffer then holds the first bytes of a reply, the reply was ahead of
\* everything used, and every other is ahead of it.
LEMMA ReadKeeps == IInv /\ Read => IInv'
<1> SUFFICES ASSUME IInv, Read PROVE IInv'
    OBVIOUS
<1> DEFINE piece == Head(rx)
           here  == piece.to - piece.from + 1
           taken == IF here < Awaited - got.n THEN here ELSE Awaited - got.n
           left  == [piece EXCEPT !.from = @ + taken]
<1>1. /\ pc = "read" /\ rx # <<>> /\ rx \in Seq(Pieces) /\ got \in Buffer
      /\ got.n \in Nat /\ got.n < Awaited
    BY DEF IInv, ShapeInv, Read, Buffer
<1>2. Awaited \in 7 .. 45
    BY CurrentQuery, <1>1 DEF IInv
<1>3. /\ piece = rx[1] /\ piece \in Pieces /\ piece.from <= piece.to
      /\ 1 \in 1 .. Len(rx)
    BY <1>1, TakePiece DEF IInv, ShapeInv
<1>4. /\ taken \in Nat \ {0} /\ taken <= here /\ got.n + taken <= Awaited
      /\ here \in Nat
  <2>1. here \in Nat \ {0} /\ Awaited - got.n \in Nat \ {0}
    <3>1. piece.from \in Nat \ {0} /\ piece.to \in Nat
        BY <1>3 DEF Pieces
    <3> QED
        BY <3>1, <1>1, <1>2, <1>3
  <2> QED
    BY <2>1, <1>1, <1>2
<1>5. /\ got' = [n |-> got.n + taken, q |-> piece.q, kind |-> piece.kind,
                 whole |-> /\ piece.len = Awaited /\ piece.from = got.n + 1
                           /\ got.n > 0 => got.whole /\ got.q = piece.q]
      /\ rx' = IF taken = here THEN Tail(rx) ELSE <<left>> \o Tail(rx)
      /\ UNCHANGED <<proto, pc, startup, plan, port, raw, sent, failures, asked,
                     q, born, calm>>
    BY DEF Read
<1>6. left \in Pieces /\ ~Begins(left)
    BY <1>3, <1>4, CutPiece
<1>7. taken # here => left.from <= left.to
  <2>1. left.from = piece.from + taken /\ left.to = piece.to
      BY <1>3, <1>4, CutPiece
  <2>2. piece.from \in Nat /\ piece.to \in Nat
      BY <1>3 DEF Pieces
  <2> QED
      BY <2>1, <2>2, <1>4
<1>8. /\ got'.n = got.n + taken /\ got'.q = piece.q /\ got'.kind = piece.kind
      /\ got'.whole \in BOOLEAN
      /\ got'.whole => piece.from = got.n + 1
      /\ got'.whole /\ got.n > 0 => got.whole /\ got.q = piece.q
    BY <1>5
<1>9. got' \in Buffer
  <2>1. got.n + taken \in Nat
      BY <1>1, <1>4
  <2> QED
      BY <2>1, <1>3, <1>5, BufferOf
<1> HIDE DEF taken, left, here
<1>10. /\ rx' \in Seq(Pieces) /\ Rest(rx', rx)
       /\ \A i \in 1 .. Len(rx') : rx'[i].from <= rx'[i].to
  <2>1. CASE taken = here
    <3>1. rx' = Tail(rx)
        BY <1>5, <2>1
    <3>2. /\ Tail(rx) \in Seq(Pieces) /\ Rest(Tail(rx), rx)
          /\ \A i \in 1 .. Len(Tail(rx)) : \E k \in 1 .. Len(rx) : Tail(rx)[i] = rx[k]
        BY <1>1, TailRest
    <3> QED
        BY <3>1, <3>2 DEF IInv, ShapeInv
  <2>2. CASE taken # here
    <3> DEFINE t == <<left>> \o Tail(rx)
    <3>1. /\ t \in Seq(Pieces) /\ Rest(t, rx)
          /\ \A i \in 1 .. Len(t) : t[i] = left \/ \E k \in 1 .. Len(rx) : t[i] = rx[k]
        BY <1>1, <1>6, PushRest
    <3>2. rx' = t
        BY <1>5, <2>2
    <3> HIDE DEF t
    <3> QED
        BY <3>1, <3>2, <2>2, <1>7 DEF IInv, ShapeInv
  <2> QED
    BY <2>1, <2>2
<1>11. /\ InOrder(rx')
       /\ \A i \in 1 .. Len(rx') : Begins(rx'[i]) => \E k \in 2 .. Len(rx) : rx'[i] = rx[k]
    BY <1>1, <1>10, RestInOrder DEF IInv, LineInv
<1>12. ShapeInv'
  <2>1. TypeOK'
      BY <1>1, <1>2, <1>4, <1>5, <1>8 DEF IInv, ShapeInv, TypeOK, Awaited
  <2> QED
      BY <2>1, <1>5, <1>9, <1>10 DEF IInv, ShapeInv
<1>13. Receiving' => \/ Receiving /\ got.q = got'.q
                     \/ Begins(rx[1]) /\ rx[1].q = got'.q
    BY <1>1, <1>3, <1>8 DEF Receiving, Begins
<1>14. Receiving' =>
        /\ Unused(got'.q)
        /\ \A k \in 2 .. Len(rx) : Begins(rx[k]) => rx[k].q > got'.q
        /\ \A i \in 1 .. Len(asked) : Begins(asked[i]) => asked[i].q > got'.q
  <2> SUFFICES ASSUME Receiving' PROVE
        /\ Unused(got'.q)
        /\ \A k \in 2 .. Len(rx) : Begins(rx[k]) => rx[k].q > got'.q
        /\ \A i \in 1 .. Len(asked) : Begins(asked[i]) => asked[i].q > got'.q
      OBVIOUS
  <2>0. /\ \A k \in 2 .. Len(rx) : k \in 1 .. Len(rx) /\ rx[k] \in Pieces
        /\ \A i \in 1 .. Len(asked) : asked[i] \in Pieces
      BY <1>1 DEF IInv, ShapeInv
  <2>1. CASE Receiving /\ got.q = got'.q
      BY <2>0, <2>1 DEF IInv, LineInv, Ahead
  <2>2. CASE Begins(rx[1]) /\ rx[1].q = got'.q
    <3>1. Unused(got'.q)
        BY <2>2, <1>3 DEF IInv, LineInv, Ahead
    <3>2. \A k \in 2 .. Len(rx) : Begins(rx[k]) => rx[1].q < rx[k].q
        BY <2>0, <2>2, <1>3 DEF IInv, LineInv, InOrder
    <3>3. \A i \in 1 .. Len(asked) : Begins(asked[i]) => rx[1].q < asked[i].q
        BY <2>2, <1>3 DEF IInv, LineInv
    <3> QED
        BY <2>0, <2>2, <3>1, <3>2, <3>3, <1>3 DEF Pieces
  <2> QED
    BY <1>13, <2>1, <2>2
<1>15. LineInv'
  <2>1. \A n : Unused(n) => Unused(n)'
      BY <1>5 DEF Unused
  <2>2. \A k \in 2 .. Len(rx) : k \in 1 .. Len(rx)
      BY <1>1
  <2>3. \A i \in 1 .. Len(rx') : Ahead(rx[i])'
      BY <2>1, <2>2, <1>11, <1>14 DEF IInv, LineInv, Ahead, Begins
  <2>4. \A i \in 1 .. Len(asked') : Ahead(asked[i])'
      BY <2>1, <1>5, <1>14 DEF IInv, LineInv, Ahead, Begins
  <2>5. \A i \in 1 .. Len(rx'), j \in 1 .. Len(asked') :
           Begins(rx'[i]) /\ Begins(asked'[j]) => rx'[i].q < asked'[j].q
      BY <2>2, <1>5, <1>11 DEF IInv, LineInv
  <2>6. InOrder(rx)' /\ InOrder(asked)'
      BY <1>5, <1>11 DEF IInv, LineInv, InOrder, Begins
  <2>7. Receiving' => Unused(got.q)'
      BY <2>1, <1>5, <1>14 DEF Unused
  <2> QED
      BY <2>3, <2>4, <2>5, <2>6, <2>7 DEF LineInv, Begins
<1>16. RoundIsNews'
    BY <1>5 DEF IInv, RoundIsNews, Filled
<1> QED
    BY <1>12, <1>15, <1>16 DEF IInv

\* What the end of a query leaves of the plan.
LEMMA NextQueryKeeps ==
  ASSUME IInv, pc = "read", NEW ok \in BOOLEAN, NextQuery(ok)
  PROVE  /\ plan' \in Seq(Queries) /\ pc' \in {"flush", "end"}
         /\ pc' = "flush" => plan' # <<>>
         /\ UNCHANGED <<proto, startup, port, got, sent, failures, asked, q, born, calm>>
<1>1. Tail(plan) \in Seq(Queries)
    BY CurrentQuery DEF IInv
<1>2. plan' = Tail(plan) \/ plan' = <<>>
    BY DEF NextQuery
<1>3. pc' = IF plan' = <<>> THEN "end" ELSE "flush"
    BY DEF NextQuery
<1> QED
    BY <1>1, <1>2, <1>3 DEF NextQuery

\* The reply taken was ahead of everything used; what is behind it on the line
\* is ahead of it.
LEMMA AcceptKeeps == IInv /\ Accept => IInv'
<1> SUFFICES ASSUME IInv, Accept PROVE IInv'
    OBVIOUS
<1> DEFINE k == Head(plan).kind
<1>1. k \in Kinds /\ Awaited \in 7 .. 45
    BY CurrentQuery DEF IInv, Accept
<1>2. /\ raw' = [raw EXCEPT ![k] = Source(got.q, got.kind, q)]
      /\ rx' = rx
      /\ UNCHANGED <<proto, startup, port, got, sent, failures, asked, q, born, calm>>
      /\ plan' \in Seq(Queries) /\ pc' \in {"flush", "end"} /\ (pc' = "flush" => plan' # <<>>)
    BY NextQueryKeeps DEF Accept
<1>3. Receiving /\ pc = "read"
    BY <1>1 DEF Accept, Receiving
<1>4. Unused(got.q) /\ got \in Buffer /\ q \in Nat
    BY <1>3 DEF IInv, LineInv, ShapeInv, TypeOK
<1>5. got.q \in Nat /\ got.q # 0 /\ got.q > born /\ got.q <= q /\ born \in Nat
    BY <1>4 DEF Unused, Buffer, IInv, ShapeInv
<1>6. Source(got.q, got.kind, q) \in Sources /\ Source(got.q, got.kind, q).q = got.q
    BY <1>4 DEF Source, Sources, Buffer
<1> HIDE DEF k
<1>7. raw \in [Kinds -> Sources]
    BY DEF IInv, ShapeInv, TypeOK
<1>8. /\ raw' \in [Kinds -> Sources]
      /\ \A g \in Groups : raw'[g].q = IF g = k THEN got.q ELSE raw[g].q
    BY <1>1, <1>2, <1>6, <1>7 DEF Kinds
<1>9. ShapeInv'
  <2>1. plan' \in Seq([kind : Kinds, len : 7 .. 45])
      BY <1>2 DEF Queries
  <2>2. TypeOK'
      BY <2>1, <1>2, <1>8 DEF IInv, ShapeInv, TypeOK
  <2> QED
      BY <2>2, <1>2, <1>5, <1>8 DEF IInv, ShapeInv
<1>10. LineInv'
  <2>1. ~Receiving'
      BY <1>2 DEF Receiving
  <2>2. \A n : Unused(n) /\ n > got.q => Unused(n)'
      BY <1>2, <1>8 DEF Unused
  <2>3. \A i \in 1 .. Len(rx') : Ahead(rx[i])'
      BY <2>1, <2>2, <1>2, <1>3 DEF IInv, LineInv, Ahead, Begins
  <2>4. \A i \in 1 .. Len(asked') : Ahead(asked[i])'
      BY <2>1, <2>2, <1>2, <1>3 DEF IInv, LineInv, Ahead, Begins
  <2> QED
      BY <2>1, <2>3, <2>4, <1>2 DEF IInv, LineInv, InOrder, Begins
<1>11. RoundIsNews'
  <2> SUFFICES ASSUME ~startup, NEW g \in Groups, raw'[g].q # 0
               PROVE  raw'[g].q > born /\ \A h \in Groups : raw'[g].q > sent[h].q
      BY <1>2 DEF RoundIsNews, Filled
  <2>1. CASE g = k
      BY <2>1, <1>4, <1>5, <1>8 DEF Unused
  <2>2. CASE g # k
      BY <2>2, <1>3, <1>8 DEF IInv, RoundIsNews, Filled
  <2> QED
      BY <2>1, <2>2
<1> QED
    BY <1>9, <1>10, <1>11 DEF IInv

\* A query that fails leaves the groups as they are.
LEMMA FailKeeps == IInv /\ Fail => IInv'
<1> SUFFICES ASSUME IInv, Fail PROVE IInv'
    OBVIOUS
<1>1. pc = "read" /\ rx' = rx /\ raw' = raw
    BY DEF Fail
<1>2. /\ plan' \in Seq(Queries) /\ pc' \in {"flush", "end"} /\ (pc' = "flush" => plan' # <<>>)
      /\ UNCHANGED <<proto, startup, port, got, sent, failures, asked, q, born, calm>>
    BY NextQueryKeeps DEF Fail
<1>3. plan' \in Seq([kind : Kinds, len : 7 .. 45])
    BY <1>2 DEF Queries
<1>4. TypeOK'
    BY <1>1, <1>2, <1>3 DEF IInv, ShapeInv, TypeOK
<1>5. ShapeInv'
    BY <1>1, <1>2, <1>4 DEF IInv, ShapeInv
<1>6. ~Receiving'
    BY <1>2 DEF Receiving
<1>7. LineInv'
    BY <1>1, <1>2, <1>6, LineKept DEF IInv
<1>8. RoundIsNews'
    BY <1>1, <1>2 DEF IInv, RoundIsNews, Filled
<1> QED
    BY <1>5, <1>7, <1>8 DEF IInv

-----------------------------------------------------------------------------
(* The polling loop.                                                       *)

\* Nothing is filled at the head of a round.
LEMMA NewRoundKeeps ==
  ASSUME IInv, NewRound,
         UNCHANGED <<proto, port, got, sent, failures, asked, rx, q, born, calm>>
  PROVE  IInv'
<1>1. /\ startup' = FALSE /\ pc' = "flush"
      /\ plan' \in Seq([kind : Kinds, len : 7 .. 45]) /\ plan' # <<>>
  <2>1. proto \in Protocols
      BY DEF IInv, ShapeInv, TypeOK
  <2>2. plan' = RoundPlan[proto]
      BY DEF NewRound
  <2> QED
      BY <2>1, <2>2, PlansAreQueries DEF NewRound, Queries
<1>2. raw' \in [Kinds -> Sources] /\ \A g \in Groups : raw'[g].q = 0
    BY NoSource DEF NewRound, Kinds
<1>3. q \in Nat /\ born \in Nat
    BY DEF IInv, ShapeInv, TypeOK
<1>4. TypeOK'
    BY <1>1, <1>2 DEF IInv, ShapeInv, TypeOK
<1>5. ShapeInv'
    BY <1>2, <1>3, <1>4 DEF IInv, ShapeInv
<1>6. ~Receiving'
    BY <1>1 DEF Receiving
<1>7. \A n : Unused(n) => Unused(n)'
    BY <1>2, <1>3 DEF Unused
<1>8. LineInv'
  <2>1. \A i \in 1 .. Len(rx') : Ahead(rx[i])'
      BY <1>6, <1>7 DEF IInv, LineInv, Ahead, Begins
  <2>2. \A i \in 1 .. Len(asked') : Ahead(asked[i])'
      BY <1>6, <1>7 DEF IInv, LineInv, Ahead, Begins
  <2> QED
      BY <2>1, <2>2, <1>6 DEF IInv, LineInv, InOrder, Begins
<1>9. RoundIsNews'
    BY <1>2 DEF RoundIsNews, Filled
<1> QED
    BY <1>5, <1>8, <1>9 DEF IInv

\* What is published was filled, or published before: ahead of it is what was
\* ahead of both.
LEMMA PublishKeeps == IInv /\ Publish => IInv'
<1> SUFFICES ASSUME IInv, Publish PROVE IInv'
    OBVIOUS
<1>1. /\ ~startup /\ sent' = Merged /\ failures' = 0 /\ pc' = "accept"
      /\ UNCHANGED <<proto, startup, plan, port, got, raw, asked, rx, q, born, calm>>
    BY DEF Publish
<1>2. /\ sent' \in [Groups -> Sources]
      /\ \A g \in Groups : sent'[g] = raw[g] \/ sent'[g] = sent[g]
    BY <1>1 DEF Merged, Filled, IInv, ShapeInv, TypeOK, Kinds
<1>3. TypeOK'
    BY <1>1, <1>2, RoundAssumption DEF IInv, ShapeInv, TypeOK, RoundAssumption
<1>4. ShapeInv'
    BY <1>1, <1>2, <1>3 DEF IInv, ShapeInv
<1>5. ~Receiving'
    BY <1>1 DEF Receiving
<1>6. \A n : Unused(n) => Unused(n)'
    BY <1>1, <1>2 DEF Unused
<1>7. LineInv'
  <2>1. \A i \in 1 .. Len(rx') : Ahead(rx[i])'
      BY <1>1, <1>5, <1>6 DEF IInv, LineInv, Ahead, Begins
  <2>2. \A i \in 1 .. Len(asked') : Ahead(asked[i])'
      BY <1>1, <1>5, <1>6 DEF IInv, LineInv, Ahead, Begins
  <2> QED
      BY <2>1, <2>2, <1>1, <1>5 DEF IInv, LineInv, InOrder, Begins
<1>8. RoundIsNews'
    BY <1>1 DEF RoundIsNews
<1> QED
    BY <1>4, <1>7, <1>8 DEF IInv

\* A round without an answer publishes nothing, reopened port or not.
LEMMA NoDataKeeps == IInv /\ NoData => IInv'
<1> SUFFICES ASSUME IInv, NoData PROVE IInv'
    OBVIOUS
<1>1. /\ pc' = "accept" /\ rx' \in {rx, <<>>}
      /\ UNCHANGED <<proto, startup, plan, got, raw, sent, asked, q, born, calm>>
      /\ port' \in BOOLEAN
    BY DEF NoData, IInv, ShapeInv, TypeOK
<1>2. failures' \in 0 .. ReopenAfter - 1
  <2>1. failures \in Nat /\ ReopenAfter \in Nat \ {0}
      BY RoundAssumption DEF IInv, ShapeInv, TypeOK, RoundAssumption
  <2>2. \/ failures + 1 < ReopenAfter /\ failures' = failures + 1
        \/ failures' = 0
      BY DEF NoData
  <2> QED
      BY <2>1, <2>2
<1>3. TypeOK'
    BY <1>1, <1>2 DEF IInv, ShapeInv, TypeOK
<1>4. ShapeInv'
  <2>1. rx' \in Seq(Pieces) /\ \A i \in 1 .. Len(rx') : rx'[i].from <= rx'[i].to
    <3>1. CASE rx' = rx
        BY <3>1 DEF IInv, ShapeInv
    <3>2. CASE rx' = <<>>
        BY <3>2
    <3> QED
        BY <1>1, <3>1, <3>2
  <2> QED
      BY <2>1, <1>1, <1>3 DEF IInv, ShapeInv
<1>5. ~Receiving'
    BY <1>1 DEF Receiving
<1>6. LineInv'
  <2>1. CASE rx' = rx
      BY <2>1, <1>1, <1>5, LineKept DEF IInv
  <2>2. CASE rx' = <<>>
      BY <2>2, <1>1, <1>5 DEF IInv, LineInv, Ahead, Unused, InOrder, Begins
  <2> QED
      BY <1>1, <2>1, <2>2
<1>7. RoundIsNews'
    BY <1>1 DEF RoundIsNews
<1> QED
    BY <1>4, <1>6, <1>7 DEF IInv

\* A daemon that dies touches nothing.
LEMMA DieKeeps == IInv /\ Die => IInv'
<1> SUFFICES ASSUME IInv, Die PROVE IInv'
    OBVIOUS
<1>1. ShapeInv'
    BY DEF IInv, ShapeInv, TypeOK, Die
<1>2. LineInv'
    BY LineKept DEF IInv, Die, Receiving
<1>3. RoundIsNews'
    BY DEF RoundIsNews, Die
<1> QED
    BY <1>1, <1>2, <1>3 DEF IInv

\* The new process begins with nothing published and nothing on the line.
LEMMA RestartKeeps == IInv /\ Restart => IInv'
<1> SUFFICES ASSUME IInv, Restart PROVE IInv'
    OBVIOUS
<1>1. /\ startup' = TRUE /\ pc' = "flush" /\ port' = TRUE /\ calm' = TRUE
      /\ got' = Nothing /\ failures' = 0 /\ asked' = <<>> /\ rx' = <<>>
      /\ born' = q /\ q' = q /\ proto' = proto
    BY DEF Restart, Startup
<1>2. plan' \in Seq([kind : Kinds, len : 7 .. 45]) /\ plan' # <<>>
  <2>1. proto \in Protocols
      BY DEF IInv, ShapeInv, TypeOK
  <2>2. plan' = StartupPlan[proto]
      BY DEF Restart, Startup
  <2> QED
      BY <2>1, <2>2, PlansAreQueries DEF Queries
<1>3. /\ raw' \in [Kinds -> Sources] /\ sent' \in [Groups -> Sources]
      /\ \A g \in Groups : raw'[g].q = 0 /\ sent'[g].q = 0
    BY NoSource DEF Restart, Startup, Kinds
<1>4. q \in Nat
    BY DEF IInv, ShapeInv, TypeOK
<1>5. Len(asked') = 0 /\ Len(rx') = 0 /\ asked' \in Seq(Pieces) /\ rx' \in Seq(Pieces)
    BY <1>1
<1>6. got' \in Buffer /\ got'.n \in Nat
    BY <1>1, NothingTyped DEF Buffer
<1>7. TypeOK'
    BY <1>1, <1>2, <1>3, <1>4, <1>5, <1>6, RoundAssumption
    DEF IInv, ShapeInv, TypeOK, RoundAssumption
<1>8. ShapeInv'
    BY <1>1, <1>3, <1>4, <1>5, <1>6, <1>7 DEF ShapeInv
<1>9. LineInv'
    BY <1>1, LineEmptied DEF Receiving
<1>10. RoundIsNews'
    BY <1>1 DEF RoundIsNews
<1> QED
    BY <1>8, <1>9, <1>10 DEF IInv

-----------------------------------------------------------------------------
(* The pack and the line.                                                  *)

\* The first piece of asked, or the part of it that has its first byte, goes to
\* the end of rx: it is ahead of what is there and behind what is left.
LEMMA DeviceKeeps ==
  ASSUME IInv, NEW head, NEW rest, Device(head, rest),
         \/ head = <<>>
         \/ \E p \in Pieces : /\ head = <<p>> /\ p.from <= p.to
                              /\ p.q = asked[1].q /\ p.from = asked[1].from,
         \/ rest = <<>>
         \/ \E r \in Pieces : rest = <<r>> /\ ~Begins(r) /\ Sendable(r)
  PROVE  IInv'
<1>1. /\ asked # <<>> /\ asked' = rest \o Tail(asked)
      /\ rx' = rx \o head \/ rx' = rx
      /\ UNCHANGED <<proto, pc, startup, plan, port, got, raw, sent, failures, q,
                     born, calm>>
    BY DEF Device
<1>2. /\ asked \in Seq(Pieces) /\ rx \in Seq(Pieces) /\ Len(asked) \in Nat
      /\ Len(rx) \in Nat /\ 1 \in 1 .. Len(asked)
    BY <1>1 DEF IInv, ShapeInv
<1>3. /\ asked' \in Seq(Pieces) /\ Len(asked') \in Nat /\ Len(asked') <= Len(asked)
      /\ Rest(asked', asked)
      /\ \A i \in 1 .. Len(asked') : Sendable(asked'[i])
  <2>1. CASE rest = <<>>
    <3>1. asked' = Tail(asked)
        BY <2>1, <1>1, <1>2, ConcatEmptySeq, TakePiece
    <3>2. /\ Tail(asked) \in Seq(Pieces) /\ Len(Tail(asked)) \in Nat
          /\ Len(Tail(asked)) <= Len(asked) /\ Rest(Tail(asked), asked)
          /\ \A i \in 1 .. Len(Tail(asked)) : \E k \in 1 .. Len(asked) : Tail(asked)[i] = asked[k]
        BY <1>1, <1>2, TailRest
    <3> QED
        BY <3>1, <3>2 DEF IInv, ShapeInv
  <2>2. ASSUME NEW r \in Pieces, rest = <<r>>, ~Begins(r), Sendable(r)
        PROVE  <1>3!:
    <3> DEFINE t == <<r>> \o Tail(asked)
    <3>1. /\ t \in Seq(Pieces) /\ Len(t) \in Nat /\ Len(t) <= Len(asked) /\ Rest(t, asked)
          /\ \A i \in 1 .. Len(t) : t[i] = r \/ \E k \in 1 .. Len(asked) : t[i] = asked[k]
        BY <1>1, <1>2, <2>2, PushRest
    <3>2. asked' = t
        BY <1>1, <2>2
    <3> HIDE DEF t
    <3> QED
        BY <3>1, <3>2, <2>2 DEF IInv, ShapeInv
  <2> QED
    BY <2>1, <2>2
<1>4. /\ InOrder(asked')
      /\ \A i \in 1 .. Len(asked') : Begins(asked'[i]) =>
             \E k \in 2 .. Len(asked) : asked'[i] = asked[k]
    BY <1>2, <1>3, RestInOrder DEF IInv, LineInv
<1>5. \/ rx' = rx
      \/ \E p \in Pieces : /\ rx' = Append(rx, p) /\ p.from <= p.to
                           /\ p.q = asked[1].q /\ p.from = asked[1].from
  <2>1. CASE head = <<>>
      BY <2>1, <1>1, <1>2, ConcatEmptySeq
  <2>2. ASSUME NEW p \in Pieces, head = <<p>>, p.from <= p.to,
               p.q = asked[1].q, p.from = asked[1].from
        PROVE  <1>5!:
    <3>1. rx \o <<p>> = Append(rx, p)
        BY <1>2, PutPiece
    <3> QED
        BY <3>1, <2>2, <1>1
  <2> QED
    BY <2>1, <2>2
<1>6. /\ rx' \in Seq(Pieces) /\ Len(rx') \in Nat
      /\ \A i \in 1 .. Len(rx') :
            \/ i \in 1 .. Len(rx) /\ rx'[i] = rx[i]
            \/ /\ i = Len(rx) + 1 /\ rx'[i].from <= rx'[i].to
               /\ rx'[i].q = asked[1].q /\ rx'[i].from = asked[1].from
  <2>1. CASE rx' = rx
      BY <2>1, <1>2
  <2>2. ASSUME NEW p \in Pieces, rx' = Append(rx, p), p.from <= p.to,
               p.q = asked[1].q, p.from = asked[1].from
        PROVE  <1>6!:
      BY <2>2, <1>2, PutPiece
  <2> QED
    BY <1>5, <2>1, <2>2
<1>7. ShapeInv'
  <2>1. Len(asked') <= MaxLate
      BY <1>2, <1>3, RoundAssumption DEF IInv, ShapeInv, TypeOK, RoundAssumption
  <2>2. TypeOK'
      BY <2>1, <1>1 DEF IInv, ShapeInv, TypeOK, Awaited
  <2>3. \A i \in 1 .. Len(rx') : rx'[i].from <= rx'[i].to
      BY <1>6 DEF IInv, ShapeInv
  <2> QED
      BY <2>2, <2>3, <1>1, <1>3, <1>6 DEF IInv, ShapeInv
<1>8. LineInv'
  <2>0. \A k \in 2 .. Len(asked) : k \in 1 .. Len(asked) /\ 1 < k
      BY <1>2
  <2>1. \A n : Unused(n) => Unused(n)'
      BY <1>1 DEF Unused
  <2>2. Receiving' => Receiving
      BY <1>1 DEF Receiving
  <2>3. \A i \in 1 .. Len(rx') : Ahead(rx[i])'
      BY <2>1, <2>2, <1>1, <1>2, <1>6 DEF IInv, LineInv, Ahead, Begins
  <2>4. \A i \in 1 .. Len(asked') : Ahead(asked[i])'
      BY <2>0, <2>1, <2>2, <1>1, <1>4 DEF IInv, LineInv, Ahead, Begins
  <2>5. InOrder(rx)'
      BY <1>2, <1>6 DEF IInv, LineInv, InOrder, Begins
  <2>6. \A i \in 1 .. Len(rx'), j \in 1 .. Len(asked') :
           Begins(rx'[i]) /\ Begins(asked'[j]) => rx'[i].q < asked'[j].q
    <3> SUFFICES ASSUME NEW i \in 1 .. Len(rx'), NEW j \in 1 .. Len(asked'),
                        Begins(rx'[i]), Begins(asked'[j])
                 PROVE  rx'[i].q < asked'[j].q
        OBVIOUS
    <3>1. PICK k \in 2 .. Len(asked) : asked'[j] = asked[k]
        BY <1>4
    <3>2. CASE i \in 1 .. Len(rx) /\ rx'[i] = rx[i]
        BY <3>1, <3>2, <2>0 DEF IInv, LineInv
    <3>3. CASE rx'[i].q = asked[1].q /\ rx'[i].from = asked[1].from
        BY <3>1, <3>3, <2>0, <1>2 DEF IInv, LineInv, InOrder, Begins
    <3> QED
        BY <3>2, <3>3, <1>6
  <2>7. Receiving' => Unused(got.q)'
      BY <2>1, <2>2, <1>1 DEF IInv, LineInv, Unused
  <2> QED
      BY <2>3, <2>4, <2>5, <2>6, <2>7, <1>4 DEF LineInv, InOrder, Begins
<1>9. RoundIsNews'
    BY <1>1 DEF IInv, RoundIsNews, Filled
<1> QED
    BY <1>7, <1>8, <1>9 DEF IInv

\* The pack answers in order, whole, in pieces, with an exception, or not.
LEMMA PackKeeps == IInv /\ Pack => IInv'
<1> SUFFICES ASSUME IInv, Pack PROVE IInv'
    OBVIOUS
<1> DEFINE p == Head(asked)
<1>1. /\ asked # <<>>
      /\ p = asked[1] /\ p \in Pieces /\ Sendable(p)
  <2>1. asked # <<>> /\ asked \in Seq(Pieces)
      BY DEF IInv, ShapeInv, Pack, Reply, ReplyInPieces, ReplyException, Lose
  <2> QED
      BY <2>1, TakePiece DEF IInv, ShapeInv
<1>2. p.from \in Nat \ {0} /\ p.to \in Nat /\ p.from <= SplitAt + 1 /\ p.to > SplitAt
    BY <1>1 DEF Pieces, Sendable
<1> HIDE DEF p
<1>3. CASE Reply
  <2>1. Device(<<p>>, <<>>)
      BY <1>3 DEF Reply, p
  <2>2. p.from <= p.to
      BY <1>2 DEF SplitAt
  <2> QED
      BY <2>1, <2>2, <1>1, DeviceKeeps
<1>4. CASE ReplyInPieces
  <2> DEFINE first == [p EXCEPT !.to = SplitAt]
             second == [p EXCEPT !.from = SplitAt + 1]
  <2>1. Device(<<first>>, <<second>>) /\ p.from = 1
      BY <1>4 DEF ReplyInPieces, p
  <2>2. /\ first \in Pieces /\ first.from = p.from /\ first.to = SplitAt
        /\ first.q = p.q /\ first.from <= first.to
      BY <2>1, <1>1 DEF Pieces, SplitAt
  <2>3. second \in Pieces /\ ~Begins(second) /\ Sendable(second)
      BY <1>1, <1>2 DEF Pieces, SplitAt, Begins, Sendable
  <2> QED
      BY <2>1, <2>2, <2>3, <1>1, DeviceKeeps
<1>5. CASE ReplyException
  <2> DEFINE e == [p EXCEPT !.len = Exception, !.to = Exception]
  <2>1. Device(<<e>>, <<>>) /\ p.from = 1
      BY <1>5 DEF ReplyException, p
  <2>2. e \in Pieces /\ e.from = p.from /\ e.q = p.q /\ e.to = 5
      BY <1>1 DEF Pieces, Exception
  <2>3. e.from <= e.to
      BY <2>1, <2>2
  <2> QED
      BY <2>1, <2>2, <2>3, <1>1, DeviceKeeps
<1>6. CASE Lose
  <2>1. Device(<<>>, <<>>)
      BY <1>6 DEF Lose
  <2> QED
      BY <2>1, DeviceKeeps
<1> QED
    BY <1>3, <1>4, <1>5, <1>6 DEF Pack

\* Nothing happens.
LEMMA StutterKeeps == IInv /\ UNCHANGED vars => IInv'
<1> SUFFICES ASSUME IInv, UNCHANGED vars PROVE IInv'
    OBVIOUS
<1>1. ShapeInv'
    BY DEF IInv, ShapeInv, TypeOK, Awaited, vars
<1>2. LineInv'
    BY LineKept DEF IInv, vars, Receiving
<1>3. RoundIsNews'
    BY DEF IInv, RoundIsNews, Filled, vars
<1> QED
    BY <1>1, <1>2, <1>3 DEF IInv

\* One case per action.
LEMMA StepKeeps == IInv /\ [Next]_vars => IInv'
<1> SUFFICES ASSUME IInv, [Next]_vars PROVE IInv'
    OBVIOUS
<1>1. CASE EndStartup
    BY <1>1, NewRoundKeeps DEF EndStartup
<1>2. CASE Sleep
    BY <1>2, NewRoundKeeps DEF Sleep
<1> QED
    BY <1>1, <1>2, FlushKeeps, WriteKeeps, ReadKeeps, AcceptKeeps, FailKeeps,
       PublishKeeps, NoDataKeeps, DieKeeps, RestartKeeps, PackKeeps, StutterKeeps
    DEF Next

-----------------------------------------------------------------------------
(* What follows.                                                           *)

\* The invariant holds in every reachable state.
THEOREM Inductive == Spec => []IInv
<1>1. Init => IInv
    BY Initially
<1>2. IInv /\ [Next]_vars => IInv'
    BY StepKeeps
<1> QED
    BY <1>1, <1>2, PTL DEF Spec

\* Every variable keeps its type; in particular read_response() never receives
\* more bytes than the reply it waits for has.
THEOREM TypeCorrect == Spec => []TypeOK
<1>1. IInv => TypeOK
    BY DEF IInv, ShapeInv
<1> QED
    BY <1>1, Inductive, PTL

\* What a round of queries accepts was measured after everything published
\* before the round, for every number of queries and of unanswered ones.
THEOREM NoReplyServesTwice == Spec => []RoundIsNews
<1>1. IInv => RoundIsNews
    BY DEF IInv
<1> QED
    BY <1>1, Inductive, PTL

\* A step of the daemon or of the pack is a step of CarryForward or none: a
\* query begins a measurement, and a broadcast moves forward what it changes.
LEMMA StepRefines ==
  IInv /\ IInv' /\ [Next]_vars =>
      [Record!Measure \/ Record!Publish \/ Record!Restart]_(Record!recordVars)
<1> SUFFICES ASSUME IInv, IInv', [Next]_vars
             PROVE  Record!Measure \/ Record!Publish \/ Record!Restart
                        \/ UNCHANGED Record!recordVars
    OBVIOUS
<1> DEFINE rec == [g \in Groups |-> sent[g].q]
<1>0. q \in Nat /\ \A g \in Groups : sent[g].q \in Nat /\ raw[g].q \in Nat
    BY NumbersTyped DEF IInv, ShapeInv, TypeOK
<1>1. CASE Write
  <2>1. rec' = rec /\ q' = q + 1 /\ born' = born
      BY <1>1 DEF Write
  <2> QED
      BY <2>1 DEF Record!Measure
<1>2. CASE Publish
  <2>1. /\ ~startup /\ pc = "end" /\ OkRead /\ sent' = Merged /\ q' = q /\ born' = born
      BY <1>2 DEF Publish
  <2>2. \A g \in Groups : rec'[g] = IF raw[g].q # 0 THEN raw[g].q ELSE rec[g]
      BY <2>1 DEF Merged, Filled
  <2>3. \A g \in Groups : raw[g].q # 0 =>
            raw[g].q > born /\ \A h \in Groups : raw[g].q > rec[h]
      BY <2>1 DEF IInv, RoundIsNews, Filled
  <2>4. PICK f \in Groups : raw[f].q # 0
      BY <2>1 DEF OkRead, Filled
  <2>5. rec' # rec
    <3>1. rec'[f] = raw[f].q /\ raw[f].q > rec[f] /\ rec[f] \in Nat
        BY <1>0, <2>2, <2>3, <2>4
    <3> QED
        BY <1>0, <3>1
  <2>6. rec' \in [Groups -> 0 .. q]
    <3>1. \A g \in Groups : sent'[g].q \in 0 .. q
      <4>1. \A g \in Groups : sent[g].q \in 0 .. q /\ raw[g].q \in 0 .. q
          BY <1>0 DEF IInv, ShapeInv
      <4>2. \A g \in Groups : sent'[g] = raw[g] \/ sent'[g] = sent[g]
          BY <2>1 DEF Merged
      <4> QED
          BY <4>1, <4>2
    <3> QED
        BY <3>1
  <2>7. \A g \in Groups :
            \/ rec'[g] = rec[g]
            \/ rec'[g] > born /\ \A h \in Groups : rec'[g] > rec[h]
      BY <2>2, <2>3
  <2> QED
      BY <2>1, <2>5, <2>6, <2>7 DEF Record!Publish, Record!Newer
<1>3. CASE Restart
  <2>1. q' = q /\ born' = q /\ \A g \in Groups : sent'[g].q = 0
      BY <1>3, NoSource DEF Restart, Startup
  <2>2. rec' = [g \in Groups |-> 0]
      BY <2>1
  <2> QED
      BY <2>1, <2>2 DEF Record!Restart, Record!Zeros
<1>4. CASE \/ Flush \/ Read \/ Accept \/ Fail \/ EndStartup \/ NoData \/ Sleep
           \/ Die \/ Pack \/ UNCHANGED vars
  <2>1. sent' = sent /\ q' = q /\ born' = born
      BY <1>4 DEF Flush, Read, Accept, Fail, NextQuery, EndStartup, NoData, Sleep, Die,
                  Pack, Reply, ReplyInPieces, ReplyException, Lose, Device, vars
  <2> QED
      BY <2>1 DEF Record!recordVars
<1> QED
    BY <1>1, <1>2, <1>3, <1>4 DEF Next

\* What run_daemon() broadcasts of a TWS or GF485 pack keeps the promise of
\* CarryForward: each record moves some group forward and takes none back.
THEOREM CarriesForward == Spec => ImplementsCarryForward
<1>1. Init => Record!RecordInit
  <2> SUFFICES ASSUME Init PROVE Record!RecordInit
      OBVIOUS
  <2>1. \A g \in Groups : sent[g].q = 0
      BY NoSource DEF Init
  <2>2. [g \in Groups |-> sent[g].q] = [g \in Groups |-> 0]
      BY <2>1
  <2> QED
      BY <2>2 DEF Init, Record!RecordInit, Record!Zeros
<1> QED
    BY <1>1, Inductive, StepRefines, PTL
    DEF Spec, ImplementsCarryForward, Record!RecordSpec

-----------------------------------------------------------------------------
(* A query flushed for when nothing older was unanswered.                  *)

Kind    == Head(plan).kind
Whole   == Piece(q, Kind, Awaited, 1, Awaited)
First   == Piece(q, Kind, Awaited, 1, SplitAt)
Second  == Piece(q, Kind, Awaited, SplitAt + 1, Awaited)
Refusal == Piece(q, Kind, Exception, 1, Exception)

\* What has been received, what is on the line, and what the pack has to send:
\* the reply in one piece, in two, of which the second may be lost, or a
\* refusal, or nothing.
OnlyItsReply ==
    \/ got.n = 0 /\ rx = <<>> /\ asked = <<Whole>>
    \/ got.n = 0 /\ rx = <<Whole>> /\ asked = <<>>
    \/ got.n = Awaited /\ rx = <<>> /\ asked = <<>>
    \/ got.n = 0 /\ rx = <<First>> /\ asked = <<Second>>
    \/ got.n = SplitAt /\ rx = <<>> /\ asked = <<Second>>
    \/ got.n = 0 /\ rx = <<First, Second>> /\ asked = <<>>
    \/ got.n = SplitAt /\ rx = <<Second>> /\ asked = <<>>
    \/ got.n = 0 /\ rx = <<First>> /\ asked = <<>>
    \/ got.n = 0 /\ rx = <<Refusal>> /\ asked = <<>>
    \/ got.n \in {0, SplitAt, Exception} /\ rx = <<>> /\ asked = <<>>

CalmInv ==
    /\ calm /\ pc = "write" => rx = <<>> /\ asked = <<>>
    /\ calm /\ pc = "read" =>
           /\ OnlyItsReply
           /\ got.n \in {SplitAt, Awaited} => got.whole /\ got.q = q
           /\ ~port => rx = <<>> /\ asked = <<>>

\* A turn that takes the whole first piece.
LEMMA ReadWholePiece ==
  ASSUME IInv, Read, Head(rx).to - Head(rx).from + 1 <= Awaited - got.n
  PROVE  /\ rx' = Tail(rx) /\ asked' = asked
         /\ got'.n = got.n + (Head(rx).to - Head(rx).from + 1) /\ got'.q = Head(rx).q
         /\ (/\ Head(rx).len = Awaited /\ Head(rx).from = got.n + 1
             /\ got.n > 0 => got.whole /\ got.q = Head(rx).q) => got'.whole
<1> DEFINE p     == Head(rx)
           here  == p.to - p.from + 1
           taken == IF here < Awaited - got.n THEN here ELSE Awaited - got.n
<1>1. here \in Int /\ Awaited - got.n \in Int
  <2>1. rx # <<>> /\ rx \in Seq(Pieces) /\ got \in Buffer /\ pc = "read"
      BY DEF IInv, ShapeInv, Read
  <2>2. p \in Pieces
      BY <2>1, TakePiece
  <2>3. p.to \in Nat /\ p.from \in Nat
      BY <2>2 DEF Pieces
  <2>4. got.n \in Nat
      BY <2>1 DEF Buffer
  <2>5. Awaited \in 7 .. 45
      BY <2>1, CurrentQuery DEF IInv
  <2> QED
      BY <2>3, <2>4, <2>5
<1>2. taken = here
    BY <1>1
<1>3. /\ got' = [n |-> got.n + taken, q |-> p.q, kind |-> p.kind,
                 whole |-> /\ p.len = Awaited /\ p.from = got.n + 1
                           /\ got.n > 0 => got.whole /\ got.q = p.q]
      /\ rx' = IF taken = here THEN Tail(rx)
               ELSE <<[p EXCEPT !.from = @ + taken]>> \o Tail(rx)
      /\ asked' = asked
    BY DEF Read
<1> HIDE DEF taken, here, p
<1>4. /\ got'.n = got.n + here /\ got'.q = p.q
      /\ (/\ p.len = Awaited /\ p.from = got.n + 1
          /\ got.n > 0 => got.whole /\ got.q = p.q) => got'.whole
    BY <1>2, <1>3
<1> QED
    BY <1>2, <1>3, <1>4 DEF here, p

\* Two pieces on the line, one put behind the other.
LEMMA TwoPieces ==
  ASSUME NEW a \in Pieces, NEW b \in Pieces
  PROVE  <<a>> \o <<b>> = <<a, b>>
<1> DEFINE s == <<a>> \o <<b>>
           t == <<a, b>>
<1>1. s \in Seq(Pieces) /\ Len(s) = 2 /\ s[1] = a /\ s[2] = b
    BY PutPiece
<1>2. t \in Seq(Pieces) /\ Len(t) = 2 /\ t[1] = a /\ t[2] = b
    OBVIOUS
<1>3. \A i \in 1 .. 2 : i = 1 \/ i = 2
    OBVIOUS
<1> HIDE DEF s, t
<1>4. s = t
    BY <1>1, <1>2, <1>3, SeqEqual
<1> QED
    BY <1>4 DEF s, t

\* Pieces with equal fields are equal.
LEMMA SamePiece ==
  ASSUME NEW x \in Pieces, NEW y \in Pieces, x.q = y.q, x.kind = y.kind,
         x.len = y.len, x.from = y.from, x.to = y.to
  PROVE  x = y
<1>1. /\ x = [q |-> x.q, kind |-> x.kind, len |-> x.len, from |-> x.from, to |-> x.to]
      /\ y = [q |-> y.q, kind |-> y.kind, len |-> y.len, from |-> y.from, to |-> y.to]
    BY DEF Pieces
<1> QED
    BY <1>1

\* The pieces, in figures.
LEMMA PieceFigures ==
  ASSUME IInv, pc \in {"write", "read"}
  PROVE  /\ Awaited \in 7 .. 45 /\ q \in Nat
         /\ Whole \in Pieces /\ First \in Pieces /\ Second \in Pieces /\ Refusal \in Pieces
         /\ Whole.q = q /\ Whole.len = Awaited /\ Whole.from = 1 /\ Whole.to = Awaited
         /\ First.q = q /\ First.len = Awaited /\ First.from = 1 /\ First.to = 3
         /\ Second.q = q /\ Second.len = Awaited /\ Second.from = 4 /\ Second.to = Awaited
         /\ Refusal.q = q /\ Refusal.from = 1 /\ Refusal.to = 5
<1>1. q \in Nat /\ Awaited \in 7 .. 45 /\ Kind \in Kinds
    BY CurrentQuery DEF IInv, ShapeInv, TypeOK, Kind
<1>2. \A a, b, c \in Nat : b # 0 => Piece(q, Kind, a, b, c) \in Pieces
    BY <1>1 DEF Piece, Pieces
<1>3. /\ Whole \in Pieces /\ First \in Pieces /\ Second \in Pieces /\ Refusal \in Pieces
    BY <1>1, <1>2 DEF Whole, First, Second, Refusal, SplitAt, Exception
<1> QED
    BY <1>1, <1>3 DEF Whole, First, Second, Refusal, Piece, SplitAt, Exception

\* A turn of read_response() in a calm query, for each state of the line.
LEMMA CalmRead == IInv /\ CalmInv /\ Read => CalmInv'
<1> SUFFICES ASSUME IInv, CalmInv, Read, calm PROVE CalmInv'
    BY DEF CalmInv, Read
<1>1. pc = "read" /\ port /\ pc' = "read" /\ port' = port /\ rx # <<>> /\ got.n < Awaited
      /\ got.n \in Nat
    BY DEF Read, IInv, ShapeInv, Buffer
<1>2. OnlyItsReply /\ (got.n \in {3, Awaited} => got.whole /\ got.q = q)
    BY <1>1 DEF CalmInv, SplitAt
<1>3. /\ Awaited \in 7 .. 45 /\ q \in Nat
      /\ Whole \in Pieces /\ First \in Pieces /\ Second \in Pieces /\ Refusal \in Pieces
      /\ Whole.q = q /\ Whole.len = Awaited /\ Whole.from = 1 /\ Whole.to = Awaited
      /\ First.q = q /\ First.len = Awaited /\ First.from = 1 /\ First.to = 3
      /\ Second.q = q /\ Second.len = Awaited /\ Second.from = 4 /\ Second.to = Awaited
      /\ Refusal.q = q /\ Refusal.from = 1 /\ Refusal.to = 5
    BY <1>1, PieceFigures
<1>4. /\ plan' = plan /\ q' = q /\ Awaited' = Awaited
      /\ Whole' = Whole /\ First' = First /\ Second' = Second /\ Refusal' = Refusal
    BY DEF Read, Whole, First, Second, Refusal, Kind, Awaited
<1>5. CASE got.n = 0 /\ rx = <<Whole>> /\ asked = <<>>
  <2>0. Head(rx) = Whole /\ Tail(rx) = <<>>
      BY <1>5
  <2>1. rx' = <<>> /\ asked' = <<>> /\ got'.n = Awaited /\ got'.q = q /\ got'.whole
    <3>0. /\ Head(rx).q = q /\ Head(rx).from = 1 /\ Head(rx).to = Awaited
          /\ got.n = 0 /\ Awaited \in 7 .. 45 /\ Head(rx).len = Awaited
        BY <2>0, <1>3, <1>5
    <3>1. Head(rx).to - Head(rx).from + 1 <= Awaited - got.n
        BY <3>0
    <3>2. /\ rx' = Tail(rx) /\ asked' = asked /\ got'.q = Head(rx).q
          /\ got'.n = got.n + (Head(rx).to - Head(rx).from + 1)
          /\ (/\ Head(rx).len = Awaited /\ Head(rx).from = got.n + 1
              /\ got.n > 0 => got.whole /\ got.q = Head(rx).q) => got'.whole
        BY <3>1, ReadWholePiece
    <3>3. got'.n = Awaited
        BY <3>0, <3>2
    <3>4. got'.q = q /\ got'.whole
        BY <3>0, <3>2
    <3> QED
        BY <2>0, <3>2, <3>3, <3>4, <1>5
  <2> QED
      BY <2>1, <1>1, <1>4 DEF CalmInv, OnlyItsReply
<1>6. CASE got.n = 0 /\ rx = <<First>>
  <2>0. Head(rx) = First /\ Tail(rx) = <<>>
      BY <1>6
  <2>1. rx' = <<>> /\ asked' = asked /\ got'.n = 3 /\ got'.q = q /\ got'.whole
    <3>0. /\ Head(rx).q = q /\ Head(rx).from = 1 /\ Head(rx).to = 3
          /\ got.n = 0 /\ Awaited \in 7 .. 45 /\ Head(rx).len = Awaited
        BY <2>0, <1>3, <1>6
    <3>1. Head(rx).to - Head(rx).from + 1 <= Awaited - got.n
        BY <3>0
    <3>2. /\ rx' = Tail(rx) /\ asked' = asked /\ got'.q = Head(rx).q
          /\ got'.n = got.n + (Head(rx).to - Head(rx).from + 1)
          /\ (/\ Head(rx).len = Awaited /\ Head(rx).from = got.n + 1
              /\ got.n > 0 => got.whole /\ got.q = Head(rx).q) => got'.whole
        BY <3>1, ReadWholePiece
    <3>3. got'.n = 3
        BY <3>0, <3>2
    <3>4. got'.q = q /\ got'.whole
        BY <3>0, <3>2
    <3> QED
        BY <2>0, <3>2, <3>3, <3>4, <1>6
  <2>2. asked = <<Second>> \/ asked = <<>>
      BY <1>2, <1>6 DEF OnlyItsReply
  <2> QED
      BY <2>1, <2>2, <1>1, <1>4 DEF CalmInv, OnlyItsReply, SplitAt
<1>7. CASE got.n = 0 /\ rx = <<First, Second>> /\ asked = <<>>
  <2>0. Head(rx) = First /\ Tail(rx) = <<Second>>
      BY <1>7
  <2>1. rx' = <<Second>> /\ asked' = asked /\ got'.n = 3 /\ got'.q = q /\ got'.whole
    <3>0. /\ Head(rx).q = q /\ Head(rx).from = 1 /\ Head(rx).to = 3
          /\ got.n = 0 /\ Awaited \in 7 .. 45 /\ Head(rx).len = Awaited
        BY <2>0, <1>3, <1>7
    <3>1. Head(rx).to - Head(rx).from + 1 <= Awaited - got.n
        BY <3>0
    <3>2. /\ rx' = Tail(rx) /\ asked' = asked /\ got'.q = Head(rx).q
          /\ got'.n = got.n + (Head(rx).to - Head(rx).from + 1)
          /\ (/\ Head(rx).len = Awaited /\ Head(rx).from = got.n + 1
              /\ got.n > 0 => got.whole /\ got.q = Head(rx).q) => got'.whole
        BY <3>1, ReadWholePiece
    <3>3. got'.n = 3
        BY <3>0, <3>2
    <3>4. got'.q = q /\ got'.whole
        BY <3>0, <3>2
    <3> QED
        BY <2>0, <3>2, <3>3, <3>4, <1>7
  <2> QED
      BY <2>1, <1>1, <1>4, <1>7 DEF CalmInv, OnlyItsReply, SplitAt
<1>8. CASE got.n = SplitAt /\ rx = <<Second>> /\ asked = <<>>
  <2>1. got.n = 3 /\ got.whole /\ got.q = q
      BY <1>2, <1>8 DEF SplitAt
  <2>0. Head(rx) = Second /\ Tail(rx) = <<>>
      BY <1>8
  <2>2. rx' = <<>> /\ asked' = <<>> /\ got'.n = Awaited /\ got'.q = q /\ got'.whole
    <3>0. /\ Head(rx).q = q /\ Head(rx).from = 4 /\ Head(rx).to = Awaited
          /\ got.n = 3 /\ Awaited \in 7 .. 45 /\ Head(rx).len = Awaited
        BY <2>0, <2>1, <1>3, <1>8
    <3>1. Head(rx).to - Head(rx).from + 1 <= Awaited - got.n
        BY <3>0
    <3>2. /\ rx' = Tail(rx) /\ asked' = asked /\ got'.q = Head(rx).q
          /\ got'.n = got.n + (Head(rx).to - Head(rx).from + 1)
          /\ (/\ Head(rx).len = Awaited /\ Head(rx).from = got.n + 1
              /\ got.n > 0 => got.whole /\ got.q = Head(rx).q) => got'.whole
        BY <3>1, ReadWholePiece
    <3>3. got'.n = Awaited
        BY <3>0, <3>2
    <3>4. got'.q = q /\ got'.whole
        BY <2>1, <3>0, <3>2
    <3> QED
        BY <2>0, <3>2, <3>3, <3>4, <1>8
  <2> QED
      BY <2>2, <1>1, <1>4 DEF CalmInv, OnlyItsReply
<1>9. CASE got.n = 0 /\ rx = <<Refusal>> /\ asked = <<>>
  <2>0. Head(rx) = Refusal /\ Tail(rx) = <<>>
      BY <1>9
  <2>1. rx' = <<>> /\ asked' = <<>> /\ got'.n = 5
    <3>0. /\ Head(rx).q = q /\ Head(rx).from = 1 /\ Head(rx).to = 5
          /\ got.n = 0 /\ Awaited \in 7 .. 45
        BY <2>0, <1>3, <1>9
    <3>1. Head(rx).to - Head(rx).from + 1 <= Awaited - got.n
        BY <3>0
    <3>2. /\ rx' = Tail(rx) /\ asked' = asked /\ got'.q = Head(rx).q
          /\ got'.n = got.n + (Head(rx).to - Head(rx).from + 1)
          /\ (/\ Head(rx).len = Awaited /\ Head(rx).from = got.n + 1
              /\ got.n > 0 => got.whole /\ got.q = Head(rx).q) => got'.whole
        BY <3>1, ReadWholePiece
    <3>3. got'.n = 5
        BY <3>0, <3>2
    <3> QED
        BY <2>0, <3>2, <3>3, <1>9
  <2> QED
      BY <2>1, <1>1, <1>3, <1>4 DEF CalmInv, OnlyItsReply, SplitAt, Exception
<1> QED
    BY <1>1, <1>2, <1>5, <1>6, <1>7, <1>8, <1>9 DEF OnlyItsReply


\* A calm query is written to an empty line.
LEMMA CalmWrite == IInv /\ CalmInv /\ Write => CalmInv'
<1> SUFFICES ASSUME IInv, CalmInv, Write, calm PROVE CalmInv'
    BY DEF CalmInv, Write
<1>1. /\ rx = <<>> /\ asked = <<>> /\ rx' = rx /\ plan' = plan /\ port' = port
      /\ q' = q + 1 /\ got' = Nothing /\ pc' = "read"
      /\ asked' = IF port
                  THEN Append(asked, Piece(q + 1, Head(plan).kind, Awaited, 1, Awaited))
                  ELSE asked
    BY DEF CalmInv, Write
<1>2. Whole' = Piece(q + 1, Head(plan).kind, Awaited, 1, Awaited)
    BY <1>1 DEF Whole, Kind, Awaited
<1>3. asked' = IF port THEN <<Whole'>> ELSE <<>>
    BY <1>1, <1>2
<1>4. Awaited' \in 7 .. 45
    BY <1>1, CurrentQuery DEF IInv, Write, Awaited
<1>5. got'.n = 0
    BY <1>1, NothingTyped
<1> QED
    BY <1>1, <1>3, <1>4, <1>5 DEF CalmInv, OnlyItsReply, SplitAt

\* What the pack can send during a calm query is its reply.
LEMMA CalmPack == IInv /\ CalmInv /\ Pack => CalmInv'
<1> SUFFICES ASSUME IInv, CalmInv, Pack PROVE CalmInv'
    OBVIOUS
<1> DEFINE p == Head(asked)
<1>1. PICK head, rest : Device(head, rest) /\
         \/ head = <<p>> /\ rest = <<>>
         \/ p.from = 1 /\ head = <<[p EXCEPT !.to = SplitAt]>>
                       /\ rest = <<[p EXCEPT !.from = SplitAt + 1]>>
         \/ p.from = 1 /\ head = <<[p EXCEPT !.len = Exception, !.to = Exception]>>
                       /\ rest = <<>>
         \/ head = <<>> /\ rest = <<>>
    BY DEF Pack, Reply, ReplyInPieces, ReplyException, Lose
<1>2. /\ asked # <<>> /\ asked' = rest \o Tail(asked)
      /\ rx' = IF port /\ pc # "dead" THEN rx \o head ELSE rx
      /\ UNCHANGED <<pc, plan, port, got, q, calm>>
    BY <1>1 DEF Device
<1>3. calm => pc # "write"
    BY <1>2 DEF CalmInv
<1>4. ASSUME calm, pc = "read" PROVE OnlyItsReply'
  <2>1. port /\ OnlyItsReply
      BY <1>2, <1>4 DEF CalmInv
  <2>2. /\ Whole' = Whole /\ First' = First /\ Second' = Second /\ Refusal' = Refusal
        /\ Awaited' = Awaited
      BY <1>2 DEF Whole, First, Second, Refusal, Kind, Awaited
  <2>3. rx' = rx \o head
      BY <1>2, <1>4, <2>1
  <2>4. CASE got.n = 0 /\ rx = <<>> /\ asked = <<Whole>>
    <3>1. p = Whole /\ Tail(asked) = <<>>
        BY <2>4
    <3>2. asked' = rest /\ rx' = head
      <4>1. /\ \A r : <<r>> \o <<>> = <<r>> /\ <<>> \o <<r>> = <<r>>
            /\ <<>> \o <<>> = <<>>
          OBVIOUS
      <4> QED
          BY <1>1, <1>2, <2>3, <2>4, <3>1, <4>1
    <3>3. /\ [p EXCEPT !.to = SplitAt] = First
          /\ [p EXCEPT !.from = SplitAt + 1] = Second
          /\ [p EXCEPT !.len = Exception, !.to = Exception] = Refusal
      <4> DEFINE f == [Whole EXCEPT !.to = SplitAt]
                 s == [Whole EXCEPT !.from = SplitAt + 1]
                 e == [Whole EXCEPT !.len = Exception, !.to = Exception]
      <4>1. /\ Whole \in Pieces /\ First \in Pieces /\ Second \in Pieces
            /\ Refusal \in Pieces
          BY <1>4, PieceFigures
      <4>2. /\ f \in Pieces /\ f.q = Whole.q /\ f.kind = Whole.kind /\ f.len = Whole.len
            /\ f.from = Whole.from /\ f.to = SplitAt
          BY <4>1 DEF Pieces, SplitAt
      <4>3. /\ s \in Pieces /\ s.q = Whole.q /\ s.kind = Whole.kind /\ s.len = Whole.len
            /\ s.from = SplitAt + 1 /\ s.to = Whole.to
          BY <4>1 DEF Pieces, SplitAt
      <4>4. /\ e \in Pieces /\ e.q = Whole.q /\ e.kind = Whole.kind /\ e.len = Exception
            /\ e.from = Whole.from /\ e.to = Exception
          BY <4>1 DEF Pieces, Exception
      <4> HIDE DEF f, s, e
      <4>5. f = First
          BY <4>1, <4>2, SamePiece DEF Whole, First, Piece
      <4>6. s = Second
          BY <4>1, <4>3, SamePiece DEF Whole, Second, Piece
      <4>7. e = Refusal
          BY <4>1, <4>4, SamePiece DEF Whole, Refusal, Piece
      <4> QED
          BY <3>1, <4>5, <4>6, <4>7 DEF f, s, e
    <3> QED
        BY <1>1, <1>2, <2>2, <2>4, <3>1, <3>2, <3>3 DEF OnlyItsReply
  <2>5. CASE /\ asked = <<Second>>
             /\ \/ got.n = 0 /\ rx = <<First>>
                \/ got.n = SplitAt /\ rx = <<>>
    <3>1. p = Second /\ Tail(asked) = <<>> /\ p.from # 1
      <4>1. Second.from = 4
          BY <1>4, PieceFigures
      <4> QED
          BY <2>5, <4>1
    <3>2. \/ head = <<Second>> /\ rest = <<>>
          \/ head = <<>> /\ rest = <<>>
        BY <1>1, <3>1
    <3>3. asked' = <<>>
        BY <1>2, <3>1, <3>2
    <3>4. rx' \in {rx, rx \o <<Second>>}
      <4>1. <<First>> \o <<>> = <<First>> /\ <<>> \o <<>> = <<>>
          OBVIOUS
      <4> QED
          BY <2>3, <2>5, <3>2, <4>1
    <3>5. <<First>> \o <<Second>> = <<First, Second>> /\ <<>> \o <<Second>> = <<Second>>
      <4>1. First \in Pieces /\ Second \in Pieces
          BY <1>4, PieceFigures
      <4>2. <<First>> \o <<Second>> = <<First, Second>>
          BY <4>1, TwoPieces
      <4>3. <<Second>> \in Seq(Pieces)
          BY <4>1
      <4>4. <<>> \o <<Second>> = <<Second>>
          BY <4>3, ConcatEmptySeq
      <4> QED
          BY <4>2, <4>4
    <3> QED
        BY <1>2, <2>2, <2>5, <3>3, <3>4, <3>5 DEF OnlyItsReply
  <2> QED
      BY <1>2, <2>1, <2>4, <2>5 DEF OnlyItsReply
<1>5. Awaited' = Awaited
    BY <1>2 DEF Awaited
<1>6. calm /\ pc = "read" => port
    BY <1>2 DEF CalmInv
<1> QED
    BY <1>2, <1>3, <1>4, <1>5, <1>6 DEF CalmInv

\* One case per action.
LEMMA CalmStep == IInv /\ CalmInv /\ [Next]_vars => CalmInv'
<1> SUFFICES ASSUME IInv, CalmInv, [Next]_vars PROVE CalmInv'
    OBVIOUS
<1>1. CASE Flush
    BY <1>1 DEF Flush, CalmInv
<1>2. CASE Accept \/ Fail
  <2>1. pc' \in {"flush", "end"}
      BY <1>2, NextQueryKeeps DEF Accept, Fail
  <2> QED
      BY <2>1 DEF CalmInv
<1>3. CASE \/ EndStartup \/ Publish \/ NoData \/ Sleep \/ Die \/ Restart
  <2>1. pc' \notin {"write", "read"}
      BY <1>3 DEF EndStartup, Publish, NoData, Sleep, Die, Restart, NewRound, Startup
  <2> QED
      BY <2>1 DEF CalmInv
<1>4. CASE UNCHANGED vars
    BY <1>4 DEF vars, CalmInv, OnlyItsReply, Whole, First, Second, Refusal, Kind, Awaited
<1> QED
    BY <1>1, <1>2, <1>3, <1>4, CalmWrite, CalmRead, CalmPack DEF Next

\* A query flushed for when nothing older was unanswered takes its own reply or
\* none: after one quiet moment framing and pairing are right again, however
\* wrong they were, although read_response() checks neither.
THEOREM CalmIsPaired == Spec => []CalmQueryGetsItsReply
<1>1. Init => CalmInv
    BY DEF Init, CalmInv
<1>2. IInv /\ CalmInv => CalmQueryGetsItsReply
    BY DEF CalmInv, CalmQueryGetsItsReply
<1> QED
    BY <1>1, <1>2, CalmStep, Inductive, PTL DEF Spec

-----------------------------------------------------------------------------
(* Whose registers fill a field.  A reply is told from others by its       *)
(* length alone, and within a round only the IO state is as long as        *)
(* something else: the replies of read_version_info(), which three queries *)
(* or more lie behind by then.                                             *)

Planned(type) ==
    {StartupPlan[type][i] : i \in 1 .. Len(StartupPlan[type])}
      \cup {RoundPlan[type][i] : i \in 1 .. Len(RoundPlan[type])}

\* The queries of this round written so far.
Begun == Len(RoundPlan[proto]) - Len(plan) + (IF pc = "read" THEN 1 ELSE 0)

\* What a reply to query n may be: a refusal, or of a kind and length that is
\* asked for; in a round those to the queries of the start lie behind it.
Known(n, kind, len) ==
    /\ n <= q
    /\ len # Exception => Query(kind, len) \in Planned(proto)
    /\ ~startup /\ kind \notin Groups => n + Begun <= q

Apart(source, g) ==
    source.kind \notin {g, "none"} => source.at - source.q >= 3

PlanInv ==
    /\ \A i \in 1 .. Len(plan) : plan[i] \in Planned(proto)
    /\ ~startup =>
          /\ Len(plan) <= Len(RoundPlan[proto])
          /\ \A i \in 1 .. Len(plan) :
                plan[i] = RoundPlan[proto][Len(RoundPlan[proto]) - Len(plan) + i]

FilledInv == \A g \in Groups : Apart(sent[g], g) /\ (~startup => Apart(raw[g], g))

RxInv == \A i \in 1 .. Len(rx) : Known(rx[i].q, rx[i].kind, rx[i].len)
AskedInv == \A i \in 1 .. Len(asked) : Known(asked[i].q, asked[i].kind, asked[i].len)
GotInv == Receiving => Known(got.q, got.kind, Awaited)

OriginInv == PlanInv /\ RxInv /\ AskedInv /\ GotInv /\ FilledInv

\* Known, in the next state.
StillKnown(n, kind, len) ==
    /\ n <= q'
    /\ len # Exception => Query(kind, len) \in Planned(proto')
    /\ ~startup' /\ kind \notin Groups => n + Begun' <= q'

\* The plans, spelled out.
LEMMA PlansSpelled ==
  /\ StartupPlan["TWS"] = <<Query("version", 9), Query("soh", 7), Query("cycles", 9)>>
  /\ StartupPlan["GF"] = <<Query("version", 9), Query("soh", 7), Query("cycles", 7)>>
  /\ RoundPlan["TWS"] = <<Query("basic", 35), Query("capacity", 13), Query("io", 9)>>
  /\ RoundPlan["GF"] = <<Query("basic", 45), Query("capacity", 33)>>
  /\ Len(RoundPlan["TWS"]) = 3 /\ Len(RoundPlan["GF"]) = 2
  /\ Planned("TWS") = {Query("version", 9), Query("soh", 7), Query("cycles", 9),
                       Query("basic", 35), Query("capacity", 13), Query("io", 9)}
  /\ Planned("GF") = {Query("version", 9), Query("soh", 7), Query("cycles", 7),
                      Query("basic", 45), Query("capacity", 33)}
<1>1. /\ StartupPlan["TWS"] = <<Query("version", 9), Query("soh", 7), Query("cycles", 9)>>
      /\ StartupPlan["GF"] = <<Query("version", 9), Query("soh", 7), Query("cycles", 7)>>
      /\ RoundPlan["TWS"] = <<Query("basic", 35), Query("capacity", 13), Query("io", 9)>>
      /\ RoundPlan["GF"] = <<Query("basic", 45), Query("capacity", 33)>>
  BY DEF StartupPlan, RoundPlan
<1>2. /\ \A a, b : Len(<<a, b>>) = 2 /\ <<a, b>>[1] = a /\ <<a, b>>[2] = b
      /\ \A a, b, c : /\ Len(<<a, b, c>>) = 3 /\ <<a, b, c>>[1] = a
                      /\ <<a, b, c>>[2] = b /\ <<a, b, c>>[3] = c
  OBVIOUS
<1>3. ASSUME NEW a, NEW b, NEW c
      PROVE  {<<a, b, c>>[i] : i \in 1 .. Len(<<a, b, c>>)} = {a, b, c}
  <2>1. 1 .. 3 = {1, 2, 3}
    OBVIOUS
  <2> QED
    BY <1>2, <2>1
<1>4. ASSUME NEW a, NEW b
      PROVE  {<<a, b>>[i] : i \in 1 .. Len(<<a, b>>)} = {a, b}
  <2>1. 1 .. 2 = {1, 2}
    OBVIOUS
  <2> QED
    BY <1>2, <2>1
<1>5. Planned("TWS") = {Query("version", 9), Query("soh", 7), Query("cycles", 9)}
         \cup {Query("basic", 35), Query("capacity", 13), Query("io", 9)}
  BY <1>1, <1>3 DEF Planned
<1>6. Planned("GF") = {Query("version", 9), Query("soh", 7), Query("cycles", 7)}
         \cup {Query("basic", 45), Query("capacity", 33)}
  BY <1>1, <1>3, <1>4 DEF Planned
<1> QED
  BY <1>1, <1>2, <1>5, <1>6

\* A new plan is a plan.
LEMMA PlansPlanned ==
  ASSUME NEW type \in Protocols
  PROVE  /\ \A i \in 1 .. Len(StartupPlan[type]) : StartupPlan[type][i] \in Planned(type)
         /\ \A i \in 1 .. Len(RoundPlan[type]) : RoundPlan[type][i] \in Planned(type)
         /\ Len(RoundPlan[type]) \in Nat
BY PlansAreQueries DEF Planned

\* In a round only the IO state can be taken from another kind of reply.
LEMMA OnlyIoIsAmbiguous ==
  ASSUME NEW type \in Protocols, NEW i \in 1 .. Len(RoundPlan[type]), NEW kind,
         Query(kind, RoundPlan[type][i].len) \in Planned(type)
  PROVE  /\ RoundPlan[type][i].kind \in Groups
         /\ \/ kind = RoundPlan[type][i].kind
            \/ kind \notin Groups /\ i = 3 /\ Len(RoundPlan[type]) = 3
<1>1. /\ \A a, b : Len(<<a, b>>) = 2 /\ <<a, b>>[1] = a /\ <<a, b>>[2] = b
      /\ \A a, b, c : /\ Len(<<a, b, c>>) = 3 /\ <<a, b, c>>[1] = a
                      /\ <<a, b, c>>[2] = b /\ <<a, b, c>>[3] = c
  OBVIOUS
<1>2. \A k, l, m, n : Query(k, l) = Query(m, n) => k = m /\ l = n
  BY DEF Query
<1>3. CASE type = "TWS"
  <2>1. i \in {1, 2, 3}
    BY <1>3, PlansSpelled
  <2>2. CASE i = 1
    <3>1. RoundPlan[type][i] = Query("basic", 35)
      BY <1>1, <1>3, <2>2, PlansSpelled
    <3>2. RoundPlan[type][i].len = 35 /\ RoundPlan[type][i].kind = "basic"
      BY <3>1 DEF Query
    <3>3. kind = "basic"
      BY <1>2, <1>3, <3>2, PlansSpelled
    <3> QED
      BY <3>2, <3>3 DEF Groups
  <2>3. CASE i = 2
    <3>1. RoundPlan[type][i] = Query("capacity", 13)
      BY <1>1, <1>3, <2>3, PlansSpelled
    <3>2. RoundPlan[type][i].len = 13 /\ RoundPlan[type][i].kind = "capacity"
      BY <3>1 DEF Query
    <3>3. kind = "capacity"
      BY <1>2, <1>3, <3>2, PlansSpelled
    <3> QED
      BY <3>2, <3>3 DEF Groups
  <2>4. CASE i = 3
    <3>1. RoundPlan[type][i] = Query("io", 9)
      BY <1>1, <1>3, <2>4, PlansSpelled
    <3>2. RoundPlan[type][i].len = 9 /\ RoundPlan[type][i].kind = "io"
      BY <3>1 DEF Query
    <3>3. kind \in {"version", "cycles", "io"}
      BY <1>2, <1>3, <3>2, PlansSpelled
    <3> QED
      BY <1>3, <2>4, <3>2, <3>3, PlansSpelled DEF Groups
  <2> QED
    BY <2>1, <2>2, <2>3, <2>4
<1>4. CASE type = "GF"
  <2>1. i \in {1, 2}
    BY <1>4, PlansSpelled
  <2>2. CASE i = 1
    <3>1. RoundPlan[type][i] = Query("basic", 45)
      BY <1>1, <1>4, <2>2, PlansSpelled
    <3>2. RoundPlan[type][i].len = 45 /\ RoundPlan[type][i].kind = "basic"
      BY <3>1 DEF Query
    <3>3. kind = "basic"
      BY <1>2, <1>4, <3>2, PlansSpelled
    <3> QED
      BY <3>2, <3>3 DEF Groups
  <2>3. CASE i = 2
    <3>1. RoundPlan[type][i] = Query("capacity", 33)
      BY <1>1, <1>4, <2>3, PlansSpelled
    <3>2. RoundPlan[type][i].len = 33 /\ RoundPlan[type][i].kind = "capacity"
      BY <3>1 DEF Query
    <3>3. kind = "capacity"
      BY <1>2, <1>4, <3>2, PlansSpelled
    <3> QED
      BY <3>2, <3>3 DEF Groups
  <2> QED
    BY <2>1, <2>2, <2>3
<1> QED
  BY <1>3, <1>4, RoundAssumption DEF RoundAssumption
\* The plan, its length and its head.
LEMMA PlanFigures ==
  ASSUME IInv, PlanInv
  PROVE  /\ proto \in Protocols /\ plan \in Seq(Queries) /\ Len(plan) \in Nat
         /\ Len(RoundPlan[proto]) \in Nat /\ q \in Nat
         /\ plan # <<>> =>
              /\ Head(plan) = plan[1] /\ Len(plan) >= 1 /\ 1 \in 1 .. Len(plan)
              /\ Query(Head(plan).kind, Awaited) = Head(plan)
              /\ Head(plan) \in Planned(proto)
              /\ Tail(plan) \in Seq(Queries) /\ Len(Tail(plan)) = Len(plan) - 1
              /\ \A i \in 1 .. Len(Tail(plan)) :
                    i + 1 \in 1 .. Len(plan) /\ Tail(plan)[i] = plan[i + 1]
<1>1. proto \in Protocols /\ plan \in Seq(Queries) /\ q \in Nat
  BY DEF IInv, ShapeInv, TypeOK, Queries
<1>2. Len(plan) \in Nat /\ Len(RoundPlan[proto]) \in Nat
  BY <1>1, PlansPlanned
<1>3. ASSUME plan # <<>>
      PROVE  /\ Head(plan) = plan[1] /\ Len(plan) >= 1 /\ 1 \in 1 .. Len(plan)
             /\ Head(plan) \in Queries
             /\ Tail(plan) \in Seq(Queries) /\ Len(Tail(plan)) = Len(plan) - 1
             /\ \A i \in 1 .. Len(Tail(plan)) :
                   i + 1 \in 1 .. Len(plan) /\ Tail(plan)[i] = plan[i + 1]
  BY <1>1, <1>3, TakePiece
<1>4. ASSUME plan # <<>>
      PROVE  /\ Query(Head(plan).kind, Awaited) = Head(plan)
             /\ Head(plan) \in Planned(proto)
  BY <1>3, <1>4 DEF Query, Queries, Awaited, PlanInv
<1> QED
  BY <1>1, <1>2, <1>3, <1>4

\* What is known of a reply stays known while the round goes on, and when a new
\* round begins.
LEMMA KnownOn ==
  ASSUME IInv, PlanInv, proto' = proto, q' \in Nat, q' >= q,
         \/ startup' /\ startup
         \/ startup' = startup /\ Begun' - Begun <= q' - q /\ Begun' \in Int
         \/ Begun' = 0
  PROVE  \A n \in Nat : \A kind, len :
            Known(n, kind, len) => StillKnown(n, kind, len)
<1>1. Begun \in Int /\ q \in Nat
  BY PlanFigures DEF Begun
<1> SUFFICES ASSUME NEW n \in Nat, NEW kind, NEW len, Known(n, kind, len)
             PROVE  StillKnown(n, kind, len)
  OBVIOUS
<1>2. n <= q' /\ (len # Exception => Query(kind, len) \in Planned(proto'))
  BY <1>1 DEF Known
<1>3. ASSUME ~startup', kind \notin Groups PROVE n + Begun' <= q'
  BY <1>1, <1>2, <1>3 DEF Known
<1> QED
  BY <1>2, <1>3 DEF StillKnown

\* The same for the whole line, when a step leaves a part of it or moves a reply
\* from the pack to the receive buffer.
LEMMA LineKnown ==
  ASSUME IInv, OriginInv,
         \A n \in Nat : \A kind, len : Known(n, kind, len) => StillKnown(n, kind, len),
         \A i \in 1 .. Len(rx') :
            \/ \E k \in 1 .. Len(rx) : /\ rx'[i].q = rx[k].q /\ rx'[i].kind = rx[k].kind
                                       /\ rx'[i].len = rx[k].len
            \/ \E k \in 1 .. Len(asked) :
                  /\ rx'[i].q = asked[k].q /\ rx'[i].kind = asked[k].kind
                  /\ rx'[i].len \in {asked[k].len, Exception},
         \A i \in 1 .. Len(asked') : \E k \in 1 .. Len(asked) :
            /\ asked'[i].q = asked[k].q /\ asked'[i].kind = asked[k].kind
            /\ asked'[i].len = asked[k].len
  PROVE  RxInv' /\ AskedInv'
<1>1. /\ \A i \in 1 .. Len(rx) : rx[i] \in Pieces
      /\ \A i \in 1 .. Len(asked) : asked[i] \in Pieces
  BY DEF IInv, ShapeInv
<1>2. /\ \A i \in 1 .. Len(rx) : rx[i].q \in Nat
      /\ \A i \in 1 .. Len(asked) : asked[i].q \in Nat
  BY <1>1 DEF Pieces
<1>3. \A n, kind, len : Known(n, kind, len) => Known(n, kind, Exception)
  BY DEF Known
<1>4. \A i \in 1 .. Len(asked) :
         /\ StillKnown(asked[i].q, asked[i].kind, asked[i].len)
         /\ StillKnown(asked[i].q, asked[i].kind, Exception)
  BY <1>2, <1>3 DEF OriginInv, AskedInv
<1>5. \A i \in 1 .. Len(rx) : StillKnown(rx[i].q, rx[i].kind, rx[i].len)
  BY <1>2 DEF OriginInv, RxInv
<1>6. \A i \in 1 .. Len(rx') : StillKnown(rx'[i].q, rx'[i].kind, rx'[i].len)
  BY <1>4, <1>5
<1>7. \A i \in 1 .. Len(asked') :
         StillKnown(asked'[i].q, asked'[i].kind, asked'[i].len)
  BY <1>4
<1>8. RxInv'
  BY <1>6 DEF RxInv, Known, StillKnown
<1>9. AskedInv'
  BY <1>7 DEF AskedInv, Known, StillKnown
<1> QED
  BY <1>8, <1>9
\* A step that leaves the line, the plan and the sources alone.
LEMMA OriginStays ==
  ASSUME IInv, OriginInv, UNCHANGED <<proto, startup, plan, asked, raw, q>>,
         pc' = pc \/ pc' # "read",
         rx' = rx \/ rx' = <<>>,
         Receiving' => Receiving /\ got' = got,
         FilledInv'
  PROVE  OriginInv'
<1>1. PlanInv'
  BY DEF OriginInv, PlanInv
<1>2. /\ Begun \in Int /\ q \in Nat /\ Begun' \in Int /\ q' >= q
      /\ Begun' - Begun <= q' - q
  BY PlanFigures DEF Begun, OriginInv
<1>3. \A n \in Nat : \A kind, len : Known(n, kind, len) => StillKnown(n, kind, len)
  BY <1>2, KnownOn DEF OriginInv
<1>4. /\ \A i \in 1 .. Len(rx') : i \in 1 .. Len(rx) /\ rx'[i] = rx[i]
      /\ \A i \in 1 .. Len(asked') : i \in 1 .. Len(asked) /\ asked'[i] = asked[i]
  <2>1. CASE rx' = rx
    BY <2>1
  <2>2. CASE rx' = <<>>
    <3>1. 1 .. Len(rx') = {}
      BY <2>2
    <3> QED
      BY <3>1
  <2> QED
    BY <2>1, <2>2
<1>5. RxInv' /\ AskedInv'
  BY <1>3, <1>4, LineKnown
<1>6. GotInv'
  <2> SUFFICES ASSUME Receiving' PROVE Known(got.q, got.kind, Awaited)'
    BY DEF GotInv
  <2>1. Receiving /\ got' = got /\ got.q \in Nat
    BY DEF IInv, ShapeInv, Buffer
  <2>2. StillKnown(got.q, got.kind, Awaited)
    BY <1>3, <2>1 DEF OriginInv, GotInv
  <2> QED
    BY <2>1, <2>2 DEF Known, StillKnown, Awaited
<1> QED
  BY <1>1, <1>5, <1>6 DEF OriginInv

\* A request asks for what is planned; in a round that is no start query.
LEMMA OriginWrite == IInv /\ OriginInv /\ Write => OriginInv'
<1> SUFFICES ASSUME IInv, OriginInv, Write PROVE OriginInv'
  OBVIOUS
<1> DEFINE p == Piece(q + 1, Head(plan).kind, Awaited, 1, Awaited)
<1>1. /\ q' = q + 1 /\ got' = Nothing /\ pc = "write" /\ pc' = "read"
      /\ asked' = Append(asked, p) \/ asked' = asked
      /\ UNCHANGED <<proto, startup, plan, raw, sent, rx>>
  BY DEF Write
<1>2. /\ plan # <<>> /\ Head(plan).kind \in Kinds /\ Awaited \in 7 .. 45
  BY CurrentQuery, <1>1 DEF IInv
<1>3. /\ proto \in Protocols /\ q \in Nat /\ Len(plan) \in Nat /\ Len(plan) >= 1
      /\ Len(RoundPlan[proto]) \in Nat
      /\ Query(Head(plan).kind, Awaited) \in Planned(proto) /\ Head(plan) = plan[1]
      /\ 1 \in 1 .. Len(plan)
  BY <1>2, PlanFigures DEF OriginInv
<1>4. PlanInv' /\ FilledInv'
  BY <1>1 DEF OriginInv, PlanInv, FilledInv, Apart
<1>5. ~Receiving'
  BY <1>1, NothingTyped DEF Receiving
<1>6. \A n \in Nat : \A kind, len : Known(n, kind, len) => StillKnown(n, kind, len)
  <2>1. Begun' \in Int /\ Begun' - Begun <= q' - q /\ q' \in Nat /\ q' >= q
    BY <1>1, <1>3 DEF Begun
  <2> QED
    BY <1>1, <2>1, KnownOn DEF OriginInv
<1>7. ~startup => Head(plan).kind \in Groups
  <2> SUFFICES ASSUME ~startup PROVE Head(plan).kind \in Groups
    OBVIOUS
  <2> DEFINE i == Len(RoundPlan[proto]) - Len(plan) + 1
  <2>1. plan[1] = RoundPlan[proto][i] /\ Len(plan) <= Len(RoundPlan[proto])
    BY <1>3 DEF OriginInv, PlanInv
  <2>2. i \in 1 .. Len(RoundPlan[proto])
    BY <1>3, <2>1
  <2>3. Query(Head(plan).kind, RoundPlan[proto][i].len) \in Planned(proto)
    BY <1>3, <2>1 DEF Awaited
  <2>4. Head(plan).kind = RoundPlan[proto][i].kind
    BY <1>3, <2>1
  <2> HIDE DEF i
  <2> QED
    BY <1>3, <2>2, <2>3, <2>4, OnlyIoIsAmbiguous
<1>8. p.q = q + 1 /\ p.kind = Head(plan).kind /\ p.len = Awaited
  BY DEF Piece
<1>9. StillKnown(p.q, p.kind, p.len)
  BY <1>1, <1>3, <1>7, <1>8 DEF StillKnown
<1>10. p \in Pieces
  BY <1>2, <1>3 DEF Piece, Pieces
<1> HIDE DEF p
<1>11. RxInv'
  <2>1. \A i \in 1 .. Len(rx) : rx[i] \in Pieces
    BY DEF IInv, ShapeInv
  <2>2. \A i \in 1 .. Len(rx) : StillKnown(rx[i].q, rx[i].kind, rx[i].len)
    BY <1>6, <2>1 DEF Pieces, OriginInv, RxInv
  <2> QED
    BY <1>1, <2>2 DEF RxInv, Known, StillKnown
<1>12. AskedInv'
  <2>1. asked \in Seq(Pieces) /\ \A i \in 1 .. Len(asked) : asked[i] \in Pieces
    BY DEF IInv, ShapeInv
  <2>2. \A i \in 1 .. Len(asked) : StillKnown(asked[i].q, asked[i].kind, asked[i].len)
    BY <1>6, <2>1 DEF Pieces, OriginInv, AskedInv
  <2>3. \A i \in 1 .. Len(asked') :
           \/ i \in 1 .. Len(asked) /\ asked'[i] = asked[i]
           \/ asked'[i] = p
    <3>1. CASE asked' = asked
      BY <3>1
    <3>2. CASE asked' = Append(asked, p)
      BY <1>10, <2>1, <3>2, PutPiece
    <3> QED
      BY <1>1, <3>1, <3>2
  <2>4. \A i \in 1 .. Len(asked') :
           StillKnown(asked'[i].q, asked'[i].kind, asked'[i].len)
    BY <1>9, <2>2, <2>3
  <2> QED
    BY <2>4 DEF AskedInv, Known, StillKnown
<1> QED
  BY <1>4, <1>5, <1>11, <1>12 DEF OriginInv, GotInv

\* What is received whole is as long as the awaited reply, so no refusal.
LEMMA OriginRead == IInv /\ OriginInv /\ Read => OriginInv'
<1> SUFFICES ASSUME IInv, OriginInv, Read PROVE OriginInv'
  OBVIOUS
<1> DEFINE piece == Head(rx)
           here  == piece.to - piece.from + 1
           taken == IF here < Awaited - got.n THEN here ELSE Awaited - got.n
           left  == [piece EXCEPT !.from = @ + taken]
<1>1. /\ pc = "read" /\ rx # <<>> /\ rx \in Seq(Pieces)
      /\ UNCHANGED <<proto, pc, startup, plan, raw, sent, asked, q>>
      /\ rx' = IF taken = here THEN Tail(rx) ELSE <<left>> \o Tail(rx)
  BY DEF Read, IInv, ShapeInv
<1>2. /\ got'.q = piece.q /\ got'.kind = piece.kind
      /\ got'.whole => piece.len = Awaited
  BY DEF Read
<1>3. /\ piece = rx[1] /\ piece \in Pieces /\ 1 \in 1 .. Len(rx)
      /\ \A i \in 1 .. Len(Tail(rx)) : i + 1 \in 1 .. Len(rx) /\ Tail(rx)[i] = rx[i + 1]
      /\ Tail(rx) \in Seq(Pieces)
  BY <1>1, TakePiece
<1>4. left.q = piece.q /\ left.kind = piece.kind /\ left.len = piece.len
  BY <1>3 DEF Pieces
<1>5. Awaited \in 7 .. 45 /\ Awaited' = Awaited
  BY <1>1, CurrentQuery DEF IInv, Awaited
<1> HIDE DEF taken, here, left, piece
<1>6. \A n \in Nat : \A kind, len : Known(n, kind, len) => StillKnown(n, kind, len)
  <2>1. Begun' \in Int /\ Begun' - Begun <= q' - q /\ q' \in Nat /\ q' >= q
    BY <1>1, PlanFigures DEF Begun, OriginInv
  <2> QED
    BY <1>1, <2>1, KnownOn DEF OriginInv
<1>7. \A i \in 1 .. Len(rx') : \E k \in 1 .. Len(rx) :
         rx'[i].q = rx[k].q /\ rx'[i].kind = rx[k].kind /\ rx'[i].len = rx[k].len
  <2>1. CASE rx' = Tail(rx)
    BY <1>3, <2>1
  <2>2. CASE rx' = <<left>> \o Tail(rx)
    <3>1. /\ (<<left>> \o Tail(rx))[1] = left
          /\ Len(<<left>> \o Tail(rx)) = Len(Tail(rx)) + 1
          /\ \A i \in 2 .. Len(Tail(rx)) + 1 :
                i - 1 \in 1 .. Len(Tail(rx)) /\ (<<left>> \o Tail(rx))[i] = Tail(rx)[i - 1]
      <4>1. left \in Pieces \cup {left} /\ Tail(rx) \in Seq(Pieces \cup {left})
        BY <1>3
      <4> QED
        BY <4>1, PushPiece
    <3>2. Len(Tail(rx)) \in Nat
      BY <1>3
    <3>3. \A i \in 1 .. Len(rx') : i = 1 \/ i \in 2 .. Len(Tail(rx)) + 1
      BY <2>2, <3>1, <3>2
    <3> QED
      BY <1>3, <1>4, <2>2, <3>1, <3>3
  <2> QED
    BY <1>1, <2>1, <2>2
<1>8. RxInv' /\ AskedInv'
  BY <1>1, <1>6, <1>7, LineKnown
<1>9. PlanInv' /\ FilledInv'
  BY <1>1 DEF OriginInv, PlanInv, FilledInv, Apart
<1>10. GotInv'
  <2> SUFFICES ASSUME Receiving' PROVE Known(got.q, got.kind, Awaited)'
    BY DEF GotInv
  <2>1. piece.len = Awaited
    BY <1>2 DEF Receiving
  <2>2. Known(piece.q, piece.kind, piece.len) /\ piece.q \in Nat
    BY <1>3 DEF OriginInv, RxInv, Pieces
  <2>3. StillKnown(got'.q, got'.kind, Awaited')
    BY <1>2, <1>5, <1>6, <2>1, <2>2
  <2> QED
    BY <2>3 DEF Known, StillKnown
<1> QED
  BY <1>8, <1>9, <1>10 DEF OriginInv

\* The end of a query leaves the rest of the plan.
LEMMA PlanNext ==
  ASSUME IInv, OriginInv, pc = "read", NEW ok \in BOOLEAN, NextQuery(ok)
  PROVE  /\ PlanInv' /\ Begun' \in Int /\ pc' # "read"
         /\ ~startup => Begun' = Begun
<1>1. plan # <<>> /\ UNCHANGED <<proto, startup>> /\ pc' # "read"
  BY CurrentQuery DEF IInv, NextQuery
<1>2. /\ Len(plan) \in Nat /\ Len(RoundPlan[proto]) \in Nat
      /\ Len(Tail(plan)) = Len(plan) - 1
      /\ \A i \in 1 .. Len(Tail(plan)) :
            i + 1 \in 1 .. Len(plan) /\ Tail(plan)[i] = plan[i + 1]
  BY <1>1, PlanFigures DEF OriginInv
<1>3. plan' = Tail(plan) \/ (startup /\ plan' = <<>>)
  BY DEF NextQuery
<1>4. CASE plan' = Tail(plan)
  <2>1. \A i \in 1 .. Len(plan') : plan'[i] \in Planned(proto)
    BY <1>2, <1>4 DEF OriginInv, PlanInv
  <2>2. ASSUME ~startup
        PROVE  /\ Len(plan') <= Len(RoundPlan[proto])
               /\ \A i \in 1 .. Len(plan') :
                     plan'[i] = RoundPlan[proto][Len(RoundPlan[proto]) - Len(plan') + i]
    <3>1. /\ Len(plan) <= Len(RoundPlan[proto])
          /\ \A i \in 1 .. Len(plan) :
                plan[i] = RoundPlan[proto][Len(RoundPlan[proto]) - Len(plan) + i]
      BY <2>2 DEF OriginInv, PlanInv
    <3>2. \A i \in 1 .. Len(plan') :
             /\ i + 1 \in 1 .. Len(plan) /\ plan'[i] = plan[i + 1]
             /\ Len(RoundPlan[proto]) - Len(plan') + i
                   = Len(RoundPlan[proto]) - Len(plan) + (i + 1)
      <4>1. \A i \in 1 .. Len(plan') :
               i + 1 \in 1 .. Len(plan) /\ plan'[i] = plan[i + 1]
        BY <1>2, <1>4
      <4>2. Len(plan') = Len(plan) - 1
        BY <1>2, <1>4
      <4> DEFINE r == Len(RoundPlan[proto])
                 n == Len(plan)
                 m == Len(plan')
      <4>3. r \in Nat /\ n \in Nat /\ m = n - 1
        BY <1>2, <4>2
      <4> HIDE DEF r, n, m
      <4>4. \A i \in 1 .. m : r - m + i = r - n + (i + 1)
        BY <4>3
      <4> QED
        BY <4>1, <4>4 DEF r, n, m
    <3>3. \A i \in 1 .. Len(plan') :
             plan'[i] = RoundPlan[proto][Len(RoundPlan[proto]) - Len(plan') + i]
      BY <3>1, <3>2
    <3>4. Len(plan') <= Len(RoundPlan[proto])
      BY <1>2, <1>4, <3>1
    <3> QED
      BY <3>3, <3>4
  <2>3. PlanInv'
    BY <1>1, <2>1, <2>2 DEF PlanInv
  <2>4. Begun' \in Int /\ Begun' = Begun
    BY <1>1, <1>2, <1>4 DEF Begun
  <2> QED
    BY <1>1, <2>3, <2>4
<1>5. CASE startup /\ plan' = <<>>
  <2>1. Len(plan') = 0 /\ 1 .. Len(plan') = {}
    BY <1>5
  <2>2. PlanInv'
    BY <1>1, <1>5, <2>1 DEF PlanInv
  <2>3. Begun' \in Int
    BY <1>1, <1>2, <2>1 DEF Begun
  <2> QED
    BY <1>1, <1>5, <2>2, <2>3
<1> QED
  BY <1>3, <1>4, <1>5

\* A reply of another kind is accepted in a round only for the IO state, three
\* queries or more after it was asked for.
LEMMA OriginQueryEnds == IInv /\ OriginInv /\ (Accept \/ Fail) => OriginInv'
<1> SUFFICES ASSUME IInv, OriginInv, Accept \/ Fail PROVE OriginInv'
  OBVIOUS
<1>1. PICK ok \in BOOLEAN : NextQuery(ok)
  BY DEF Accept, Fail
<1>2. /\ pc = "read" /\ UNCHANGED <<proto, startup, sent, asked, q, rx>>
  BY <1>1 DEF Accept, Fail, NextQuery
<1>3. /\ PlanInv' /\ Begun' \in Int /\ pc' # "read"
      /\ ~startup => Begun' = Begun
  BY <1>1, <1>2, PlanNext
<1>4. q \in Nat /\ Begun \in Int
  BY PlanFigures DEF Begun, OriginInv
<1>5. \A n \in Nat : \A kind, len : Known(n, kind, len) => StillKnown(n, kind, len)
  <2>1. startup' = startup /\ q' = q /\ proto' = proto
    BY <1>2
  <2>2. q' \in Nat /\ q' >= q /\ PlanInv
    BY <1>4, <2>1 DEF OriginInv
  <2>3. CASE startup
    BY <2>1, <2>2, <2>3, KnownOn
  <2>4. CASE ~startup
    <3>1. Begun' - Begun <= q' - q
      BY <1>3, <1>4, <2>1, <2>4
    <3> QED
      BY <1>3, <2>1, <2>2, <3>1, KnownOn
  <2> QED
    BY <2>3, <2>4
<1>6. RxInv' /\ AskedInv'
  BY <1>2, <1>5, LineKnown
<1>7. GotInv'
  BY <1>3 DEF GotInv, Receiving
<1>8. FilledInv'
  <2>1. CASE Fail
    <3>1. raw' = raw
      BY <2>1 DEF Fail
    <3> QED
      BY <1>2, <3>1 DEF OriginInv, FilledInv, Apart
  <2>2. CASE Accept
    <3> DEFINE g == Head(plan).kind
               i == Len(RoundPlan[proto]) - Len(plan) + 1
    <3>1. /\ plan # <<>> /\ Awaited \in 7 .. 45 /\ g \in Kinds
      BY <1>2, CurrentQuery DEF IInv
    <3>2. /\ Receiving /\ got.q \in Nat
          /\ raw' = [raw EXCEPT ![g] = Source(got.q, got.kind, q)]
      BY <2>2, <3>1 DEF Accept, Receiving, IInv, ShapeInv, Buffer
    <3>3. Known(got.q, got.kind, Awaited) /\ Awaited # Exception
      BY <3>1, <3>2 DEF OriginInv, GotInv, Exception
    <3>4. ASSUME ~startup PROVE Apart(Source(got.q, got.kind, q), g)
      <4>1. /\ Head(plan) = plan[1] /\ Len(plan) \in Nat /\ Len(plan) >= 1
            /\ 1 \in 1 .. Len(plan)
            /\ proto \in Protocols /\ Len(RoundPlan[proto]) \in Nat
        BY <3>1, PlanFigures DEF OriginInv
      <4>2. plan[1] = RoundPlan[proto][i] /\ Len(plan) <= Len(RoundPlan[proto])
        BY <3>4, <4>1 DEF OriginInv, PlanInv
      <4>3. i \in 1 .. Len(RoundPlan[proto])
        BY <4>1, <4>2
      <4>4. Query(got.kind, RoundPlan[proto][i].len) \in Planned(proto)
        BY <3>3, <4>1, <4>2 DEF Known, Awaited
      <4>5. Begun = i
        BY <1>2, <4>1 DEF Begun
      <4>6. g = RoundPlan[proto][i].kind
        BY <4>1, <4>2
      <4> HIDE DEF i, g
      <4>7. \/ got.kind = g
            \/ got.kind \notin Groups /\ i = 3
        BY <4>1, <4>3, <4>4, <4>6, OnlyIoIsAmbiguous
      <4>8. got.kind # g => q - got.q >= 3
        BY <1>4, <3>2, <3>3, <3>4, <4>5, <4>7 DEF Known
      <4> QED
        BY <4>8 DEF Apart, Source
    <3>5. raw \in [Kinds -> Sources] /\ Groups \subseteq Kinds
      BY DEF IInv, ShapeInv, TypeOK, Kinds
    <3> HIDE DEF g
    <3>6. \A h \in Groups : raw'[h] = IF h = g THEN Source(got.q, got.kind, q) ELSE raw[h]
      BY <3>1, <3>2, <3>5
    <3> QED
      BY <1>2, <3>4, <3>6 DEF OriginInv, FilledInv, Apart
  <2> QED
    BY <2>1, <2>2
<1> QED
  BY <1>3, <1>6, <1>7, <1>8 DEF OriginInv
\* A round begins with its whole plan, and behind everything asked before.
LEMMA OriginNewRound ==
  ASSUME IInv, OriginInv, NewRound,
         UNCHANGED <<proto, sent, asked, rx, q>>
  PROVE  OriginInv'
<1>1. /\ startup' = FALSE /\ plan' = RoundPlan[proto] /\ pc' = "flush"
      /\ raw' = [k \in Kinds |-> None]
  BY DEF NewRound
<1>2. proto \in Protocols /\ Len(RoundPlan[proto]) \in Nat /\ q \in Nat
  BY PlanFigures DEF OriginInv
<1>3. PlanInv'
  <2>1. \A i \in 1 .. Len(RoundPlan[proto]) :
           /\ RoundPlan[proto][i] \in Planned(proto)
           /\ Len(RoundPlan[proto]) - Len(RoundPlan[proto]) + i = i
    BY <1>2, PlansPlanned
  <2> QED
    BY <1>1, <1>2, <2>1 DEF PlanInv
<1>4. Begun' = 0
  BY <1>1, <1>2 DEF Begun
<1>5. \A n \in Nat : \A kind, len : Known(n, kind, len) => StillKnown(n, kind, len)
  BY <1>2, <1>4, KnownOn DEF OriginInv
<1>6. RxInv' /\ AskedInv'
  BY <1>5, LineKnown
<1>7. GotInv'
  BY <1>1 DEF GotInv, Receiving
<1>8. FilledInv'
  <2>1. \A g \in Groups : raw'[g] = None
    BY <1>1 DEF Kinds
  <2>2. \A g \in Groups : Apart(None, g)
    BY DEF Apart, None, Source
  <2> QED
    BY <2>1, <2>2 DEF OriginInv, FilledInv, Apart
<1> QED
  BY <1>3, <1>6, <1>7, <1>8 DEF OriginInv

\* A restart, like the first start, finds nothing on the line or published.
LEMMA OriginStart ==
  ASSUME proto \in Protocols,
         plan = StartupPlan[proto], startup = TRUE, pc = "flush",
         asked = <<>>, rx = <<>>, sent = [g \in Groups |-> None]
  PROVE  OriginInv
<1>1. PlanInv
  BY PlansPlanned DEF PlanInv
<1>2. RxInv /\ AskedInv /\ GotInv
  BY DEF RxInv, AskedInv, GotInv, Receiving
<1>3. FilledInv
  <2>1. \A g \in Groups : sent[g] = None /\ Apart(None, g)
    BY DEF Apart, None, Source
  <2> QED
    BY <2>1 DEF FilledInv
<1> QED
  BY <1>1, <1>2, <1>3 DEF OriginInv

\* The second half of a reply that is cut is a piece.
LEMMA SecondPiece ==
  ASSUME NEW p \in Pieces
  PROVE  [p EXCEPT !.from = SplitAt + 1] \in Pieces
<1> DEFINE n == SplitAt + 1
<1>1. n \in Nat \ {0}
  BY DEF SplitAt
<1> HIDE DEF n
<1>2. [p EXCEPT !.from = n] \in Pieces
  BY <1>1 DEF Pieces
<1> QED
  BY <1>2 DEF n

\* The pack moves a reply, whole, in pieces or as a refusal.
LEMMA OriginPack == IInv /\ OriginInv /\ Pack => OriginInv'
<1> SUFFICES ASSUME IInv, OriginInv, Pack PROVE OriginInv'
  OBVIOUS
<1> DEFINE p == Head(asked)
<1>1. /\ asked # <<>> /\ asked \in Seq(Pieces) /\ rx \in Seq(Pieces)
      /\ p = asked[1] /\ p \in Pieces /\ 1 \in 1 .. Len(asked)
      /\ Tail(asked) \in Seq(Pieces) /\ Len(Tail(asked)) \in Nat
      /\ \A i \in 1 .. Len(Tail(asked)) :
            i + 1 \in 1 .. Len(asked) /\ Tail(asked)[i] = asked[i + 1]
  <2>1. asked # <<>> /\ asked \in Seq(Pieces) /\ rx \in Seq(Pieces)
    BY DEF IInv, ShapeInv, Pack, Reply, ReplyInPieces, ReplyException, Lose
  <2> QED
    BY <2>1, TakePiece
<1>2. UNCHANGED <<proto, pc, startup, plan, got, raw, sent, q>>
  BY DEF Pack, Reply, ReplyInPieces, ReplyException, Lose, Device
<1> HIDE DEF p
<1>3. /\ rx' = rx \/ \E f \in Pieces :
            /\ rx' = Append(rx, f) /\ f.q = p.q /\ f.kind = p.kind
            /\ f.len \in {p.len, Exception}
      /\ \/ asked' = Tail(asked)
         \/ \E r \in Pieces : /\ asked' = <<r>> \o Tail(asked) /\ r.q = p.q
                              /\ r.kind = p.kind /\ r.len = p.len
  <2>1. \A f \in Pieces : rx \o <<f>> = Append(rx, f)
    BY <1>1, PutPiece
  <2>2. /\ <<>> \o Tail(asked) = Tail(asked) /\ rx \o <<>> = rx
    BY <1>1, ConcatEmptySeq
  <2>3. CASE Reply
    <3>1. Device(<<p>>, <<>>)
      BY <2>3 DEF Reply, p
    <3> QED
      BY <1>1, <2>1, <2>2, <3>1 DEF Device
  <2>4. CASE ReplyInPieces
    <3> DEFINE first == [p EXCEPT !.to = SplitAt]
               second == [p EXCEPT !.from = SplitAt + 1]
    <3>1. Device(<<first>>, <<second>>)
      BY <2>4 DEF ReplyInPieces, p
    <3>2. /\ first \in Pieces /\ first.q = p.q /\ first.kind = p.kind
          /\ first.len = p.len
          /\ second \in Pieces /\ second.q = p.q /\ second.kind = p.kind
          /\ second.len = p.len
      <4>1. /\ first \in Pieces /\ first.q = p.q /\ first.kind = p.kind
            /\ first.len = p.len
        BY <1>1 DEF Pieces, SplitAt
      <4>2. second.from = 4
        BY <1>1 DEF Pieces, SplitAt
      <4>3. second.q = p.q /\ second.kind = p.kind /\ second.len = p.len
        BY <1>1 DEF Pieces, SplitAt
      <4>4. second \in Pieces
        BY <1>1, SecondPiece
      <4> HIDE DEF first, second
      <4> QED
        BY <4>1, <4>3, <4>4
    <3> HIDE DEF first, second
    <3> QED
      BY <2>1, <3>1, <3>2 DEF Device
  <2>5. CASE ReplyException
    <3> DEFINE e == [p EXCEPT !.len = Exception, !.to = Exception]
    <3>1. Device(<<e>>, <<>>)
      BY <2>5 DEF ReplyException, p
    <3>2. e \in Pieces /\ e.q = p.q /\ e.kind = p.kind /\ e.len = Exception
      BY <1>1 DEF Pieces, Exception
    <3> HIDE DEF e
    <3> QED
      BY <2>1, <2>2, <3>1, <3>2 DEF Device
  <2>6. CASE Lose
    <3>1. Device(<<>>, <<>>)
      BY <2>6 DEF Lose
    <3> QED
      BY <2>2, <3>1 DEF Device
  <2> QED
    BY <2>3, <2>4, <2>5, <2>6 DEF Pack
<1>4. \A n \in Nat : \A kind, len : Known(n, kind, len) => StillKnown(n, kind, len)
  <2>1. Begun' \in Int /\ Begun' - Begun <= q' - q /\ q' \in Nat /\ q' >= q
    BY <1>2, PlanFigures DEF Begun, OriginInv
  <2> QED
    BY <1>2, <2>1, KnownOn DEF OriginInv
<1>5. \A i \in 1 .. Len(rx') :
         \/ i \in 1 .. Len(rx) /\ rx'[i] = rx[i]
         \/ /\ rx'[i].q = asked[1].q /\ rx'[i].kind = asked[1].kind
            /\ rx'[i].len \in {asked[1].len, Exception}
  <2>1. CASE rx' = rx
    BY <2>1
  <2>2. ASSUME NEW f \in Pieces, rx' = Append(rx, f), f.q = p.q, f.kind = p.kind,
               f.len \in {p.len, Exception}
        PROVE  <1>5!:
    BY <1>1, <2>2, PutPiece
  <2> QED
    BY <1>3, <2>1, <2>2
<1>6. \A i \in 1 .. Len(asked') : \E k \in 1 .. Len(asked) :
         /\ asked'[i].q = asked[k].q /\ asked'[i].kind = asked[k].kind
         /\ asked'[i].len = asked[k].len
  <2>1. CASE asked' = Tail(asked)
    BY <1>1, <2>1
  <2>2. ASSUME NEW r \in Pieces, asked' = <<r>> \o Tail(asked), r.q = p.q,
               r.kind = p.kind, r.len = p.len
        PROVE  <1>6!:
    <3>1. /\ asked'[1] = r /\ Len(asked') = Len(Tail(asked)) + 1
          /\ \A i \in 2 .. Len(Tail(asked)) + 1 :
                i - 1 \in 1 .. Len(Tail(asked)) /\ asked'[i] = Tail(asked)[i - 1]
      BY <1>1, <2>2, PushPiece
    <3>2. \A i \in 1 .. Len(asked') : i = 1 \/ i \in 2 .. Len(Tail(asked)) + 1
      BY <1>1, <3>1
    <3>3. \A i \in 2 .. Len(Tail(asked)) + 1 : \E k \in 1 .. Len(asked) :
             asked'[i] = asked[k]
      BY <1>1, <3>1
    <3> QED
      BY <1>1, <2>2, <3>1, <3>2, <3>3
  <2> QED
    BY <1>3, <2>1, <2>2
<1>7. RxInv' /\ AskedInv'
  BY <1>1, <1>4, <1>5, <1>6, LineKnown
<1>8. PlanInv' /\ FilledInv' /\ GotInv'
  BY <1>2 DEF OriginInv, PlanInv, FilledInv, Apart, GotInv, Receiving, Known,
     Begun, Awaited
<1> QED
  BY <1>7, <1>8 DEF OriginInv

\* Every step keeps the origins.
LEMMA OriginStep == IInv /\ OriginInv /\ [Next]_vars => OriginInv'
<1> SUFFICES ASSUME IInv, OriginInv, [Next]_vars PROVE OriginInv'
  OBVIOUS
<1>1. CASE Flush
  <2>1. FilledInv'
    BY <1>1 DEF Flush, OriginInv, FilledInv, Apart
  <2> QED
    BY <1>1, <2>1, OriginStays DEF Flush, Receiving
<1>2. CASE EndStartup \/ Sleep
  BY <1>2, OriginNewRound DEF EndStartup, Sleep
<1>3. CASE Publish
  <2>1. \A g \in Groups : sent'[g] = raw[g] \/ sent'[g] = sent[g]
    BY <1>3 DEF Publish, Merged
  <2>2. ~startup /\ UNCHANGED <<startup, raw>>
    BY <1>3 DEF Publish
  <2>3. FilledInv'
    BY <2>1, <2>2 DEF OriginInv, FilledInv, Apart
  <2> QED
    BY <1>3, <2>3, OriginStays DEF Publish, Receiving
<1>4. CASE NoData
  <2>1. FilledInv'
    BY <1>4 DEF NoData, OriginInv, FilledInv, Apart
  <2> QED
    BY <1>4, <2>1, OriginStays DEF NoData, Receiving
<1>5. CASE Die
  <2>1. FilledInv'
    BY <1>5 DEF Die, OriginInv, FilledInv, Apart
  <2> QED
    BY <1>5, <2>1, OriginStays DEF Die, Receiving
<1>6. CASE Restart
  <2>1. proto' = proto /\ proto \in Protocols
    BY <1>6 DEF Restart, Startup, IInv, ShapeInv, TypeOK
  <2>2. /\ plan' = StartupPlan[proto'] /\ startup' = TRUE /\ pc' = "flush"
        /\ asked' = <<>> /\ rx' = <<>> /\ sent' = [g \in Groups |-> None]
        /\ proto' \in Protocols
    BY <1>6, <2>1 DEF Restart, Startup
  <2>3. PlanInv'
    BY <2>2, PlansPlanned DEF PlanInv
  <2>4. RxInv' /\ AskedInv' /\ GotInv'
    BY <2>2 DEF RxInv, AskedInv, GotInv, Receiving
  <2>5. FilledInv'
    <3>1. \A g \in Groups : sent'[g] = None /\ Apart(None, g)
      BY <2>2 DEF Apart, None, Source
    <3> QED
      BY <2>2, <3>1 DEF FilledInv, Apart
  <2> QED
    BY <2>3, <2>4, <2>5 DEF OriginInv
<1>7. CASE UNCHANGED vars
  <2>1. FilledInv'
    BY <1>7 DEF vars, OriginInv, FilledInv, Apart
  <2> QED
    BY <1>7, <2>1, OriginStays DEF vars, Receiving
<1> QED
  BY <1>1, <1>2, <1>3, <1>4, <1>5, <1>6, <1>7, OriginWrite, OriginRead,
     OriginQueryEnds, OriginPack DEF Next

\* A published field holds another field's registers only if the reply it took
\* them from was three queries late or more, for every number of queries, of
\* unanswered ones, and however the pack's replies come.
THEOREM WrongRegisterIsThreeLate == Spec => []WrongRegisterNeedsThreeLate
<1>1. Init => IInv /\ OriginInv
  BY Initially, OriginStart DEF Init
<1>2. IInv /\ OriginInv /\ [Next]_vars => IInv' /\ OriginInv'
  BY StepKeeps, OriginStep
<1>3. OriginInv => WrongRegisterNeedsThreeLate
  BY DEF OriginInv, FilledInv, Apart, WrongRegisterNeedsThreeLate
<1> QED
  BY <1>1, <1>2, <1>3, PTL DEF Spec
=============================================================================

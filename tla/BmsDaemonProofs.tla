--------------------------- MODULE BmsDaemonProofs ---------------------------
(***************************************************************************)
(* The sockets of bms_daemon, for every number of clients, every backlog   *)
(* and buffer size: none leaks, none is used after close(), and a          *)
(* broadcast that erases from the vector it walks still serves each client *)
(* exactly once.                                                           *)
(***************************************************************************)
EXTENDS BmsDaemon, SequenceTheorems, TLAPS

-----------------------------------------------------------------------------
(* The inductive invariant.                                                *)

TypeInv ==
    /\ clients \in Seq(Conns) /\ pending \in Seq(Conns)
    /\ it \in Nat \ {0}
    /\ peer \in [Conns -> {"off", "on", "gone"}]
    /\ served \in [Conns -> Nat]

\* A sequence that names nobody twice.
Distinct(s) == \A i, j \in DOMAIN s : s[i] = s[j] => i = j

Among(c, s) == \E i \in DOMAIN s : s[i] = c

\* NoSocketLeaks, in terms of the two lists.
Accounted ==
    /\ \A c \in Conns : peer[c] # "off" <=> Among(c, clients) \/ Among(c, pending)
    /\ \A c \in Conns : ~(Among(c, clients) /\ Among(c, pending))
    /\ Distinct(clients) /\ Distinct(pending)

IInv == TypeInv /\ Accounted /\ ServedOnce

-----------------------------------------------------------------------------
(* The lists.                                                              *)

\* erase() at k closes the gap and keeps the order.
LEMMA Erase ==
  ASSUME NEW S, NEW s \in Seq(S), NEW k \in 1 .. Len(s)
  PROVE  LET t == SubSeq(s, 1, k - 1) \o SubSeq(s, k + 1, Len(s)) IN
            /\ t \in Seq(S) /\ Len(t) = Len(s) - 1
            /\ \A i \in 1 .. Len(t) : t[i] = IF i < k THEN s[i] ELSE s[i + 1]
<1> DEFINE a == SubSeq(s, 1, k - 1)
           b == SubSeq(s, k + 1, Len(s))
<1>1. Len(s) \in Nat /\ k \in Nat /\ k >= 1 /\ k <= Len(s)
  OBVIOUS
<1>2. /\ a \in Seq(S) /\ Len(a) = k - 1
      /\ \A i \in 1 .. k - 1 : a[i] = s[i]
  <2>1. \A i \in 1 .. k - 1 : s[i] \in S
    BY <1>1
  <2> QED
    BY <1>1, <2>1, SubSeqProperties
<1>3. /\ b \in Seq(S) /\ Len(b) = Len(s) - k
      /\ \A i \in 1 .. Len(s) - k : b[i] = s[k + i]
  <2>1. \A i \in k + 1 .. Len(s) : s[i] \in S
    BY <1>1
  <2>2. /\ b \in Seq(S)
        /\ Len(b) = IF k + 1 <= Len(s) THEN Len(s) - (k + 1) + 1 ELSE 0
        /\ \A i \in 1 .. Len(s) - (k + 1) + 1 : b[i] = s[(k + 1) + i - 1]
    BY <1>1, <2>1, SubSeqProperties
  <2>3. \A i \in 1 .. Len(s) - k :
           i \in 1 .. Len(s) - (k + 1) + 1 /\ (k + 1) + i - 1 = k + i
    BY <1>1
  <2>4. Len(b) = Len(s) - k
    BY <1>1, <2>2
  <2> QED
    BY <2>2, <2>3, <2>4
<1> HIDE DEF a, b
<1>4. /\ a \o b \in Seq(S) /\ Len(a \o b) = Len(s) - 1
      /\ \A i \in 1 .. Len(s) - 1 :
            (a \o b)[i] = IF i <= k - 1 THEN a[i] ELSE b[i - (k - 1)]
  <2>1. /\ a \o b \in Seq(S) /\ Len(a \o b) = Len(a) + Len(b)
        /\ \A i \in 1 .. Len(a) + Len(b) :
              (a \o b)[i] = IF i <= Len(a) THEN a[i] ELSE b[i - Len(a)]
    BY <1>2, <1>3, ConcatProperties
  <2>2. Len(a) + Len(b) = Len(s) - 1
    BY <1>1, <1>2, <1>3
  <2> QED
    BY <1>2, <2>1, <2>2
<1>5. ASSUME NEW i \in 1 .. Len(s) - 1
      PROVE  (a \o b)[i] = IF i < k THEN s[i] ELSE s[i + 1]
  <2>1. CASE i < k
    <3>1. i \in 1 .. k - 1 /\ i <= k - 1
      BY <1>1, <2>1
    <3> QED
      BY <1>2, <1>4, <2>1, <3>1
  <2>2. CASE ~(i < k)
    <3>1. /\ i - (k - 1) \in 1 .. Len(s) - k /\ ~(i <= k - 1)
          /\ k + (i - (k - 1)) = i + 1
      BY <1>1, <2>2
    <3> QED
      BY <1>3, <1>4, <2>2, <3>1
  <2> QED
    BY <2>1, <2>2
<1> QED
  BY <1>4, <1>5 DEF a, b

\* What is left after an erase() names everybody else, once.
LEMMA ErasedIsOut ==
  ASSUME NEW s \in Seq(Conns), Distinct(s), NEW k \in 1 .. Len(s),
         NEW t \in Seq(Conns), Len(t) = Len(s) - 1,
         \A i \in 1 .. Len(t) : t[i] = IF i < k THEN s[i] ELSE s[i + 1]
  PROVE  /\ Distinct(t)
         /\ \A c \in Conns : Among(c, t) <=> Among(c, s) /\ c # s[k]
<1> DEFINE from(i) == IF i < k THEN i ELSE i + 1
<1>1. Len(s) \in Nat /\ Len(t) \in Nat /\ k \in Nat /\ k >= 1 /\ k <= Len(s)
  OBVIOUS
<1>2. DOMAIN s = 1 .. Len(s) /\ DOMAIN t = 1 .. Len(t)
  OBVIOUS
<1>3. \A i \in 1 .. Len(t) :
         from(i) \in 1 .. Len(s) /\ from(i) # k /\ t[i] = s[from(i)]
  BY <1>1
<1>4. \A i, j \in 1 .. Len(t) : from(i) = from(j) => i = j
  BY <1>1
<1>5. \A m \in 1 .. Len(s) : m # k => \E i \in 1 .. Len(t) : from(i) = m
  <2> SUFFICES ASSUME NEW m \in 1 .. Len(s), m # k
               PROVE  \E i \in 1 .. Len(t) : from(i) = m
    OBVIOUS
  <2>1. CASE m < k
    <3>1. m \in 1 .. Len(t) /\ from(m) = m
      BY <1>1, <2>1
    <3> QED
      BY <3>1
  <2>2. CASE ~(m < k)
    <3>1. m - 1 \in 1 .. Len(t) /\ from(m - 1) = m
      BY <1>1, <2>2
    <3> QED
      BY <3>1
  <2> QED
    BY <2>1, <2>2
<1> HIDE DEF from
<1>6. Distinct(t)
  BY <1>2, <1>3, <1>4 DEF Distinct
<1>7. ASSUME NEW c \in Conns
      PROVE  Among(c, t) <=> Among(c, s) /\ c # s[k]
  <2>1. ASSUME Among(c, t) PROVE Among(c, s) /\ c # s[k]
    <3>1. PICK i \in 1 .. Len(t) : t[i] = c
      BY <1>2, <2>1 DEF Among
    <3>2. from(i) \in DOMAIN s /\ from(i) # k /\ s[from(i)] = c
      BY <1>2, <1>3, <3>1
    <3>3. s[k] # c
      BY <1>2, <3>2 DEF Distinct
    <3> QED
      BY <3>2, <3>3 DEF Among
  <2>2. ASSUME Among(c, s), c # s[k] PROVE Among(c, t)
    <3>1. PICK m \in 1 .. Len(s) : s[m] = c
      BY <1>2, <2>2 DEF Among
    <3>2. m # k
      BY <2>2, <3>1
    <3>3. PICK i \in 1 .. Len(t) : from(i) = m
      BY <1>5, <3>2
    <3>4. i \in DOMAIN t /\ t[i] = c
      BY <1>2, <1>3, <3>1, <3>3
    <3> QED
      BY <3>4 DEF Among
  <2> QED
    BY <2>1, <2>2
<1> QED
  BY <1>6, <1>7

\* A newcomer goes to the end.
LEMMA Appended ==
  ASSUME NEW s \in Seq(Conns), Distinct(s), NEW c \in Conns, ~Among(c, s)
  PROVE  /\ Append(s, c) \in Seq(Conns) /\ Distinct(Append(s, c))
         /\ \A d \in Conns : Among(d, Append(s, c)) <=> Among(d, s) \/ d = c
<1> DEFINE t == Append(s, c)
<1>1. Len(s) \in Nat /\ DOMAIN s = 1 .. Len(s)
  OBVIOUS
<1>2. /\ t \in Seq(Conns) /\ Len(t) = Len(s) + 1 /\ t[Len(s) + 1] = c
      /\ \A i \in 1 .. Len(s) : t[i] = s[i]
  BY AppendProperties
<1>3. DOMAIN t = 1 .. Len(s) + 1
  BY <1>2
<1> HIDE DEF t
<1>4. /\ \A i \in DOMAIN t : (i \in DOMAIN s /\ t[i] = s[i]) \/ i = Len(s) + 1
      /\ \A i \in DOMAIN s : i \in DOMAIN t /\ t[i] = s[i]
      /\ Len(s) + 1 \in DOMAIN t
  BY <1>1, <1>2, <1>3
<1>5. Distinct(t)
  BY <1>1, <1>2, <1>4 DEF Distinct, Among
<1>6. \A d \in Conns : Among(d, t) <=> Among(d, s) \/ d = c
  BY <1>2, <1>4 DEF Among
<1> QED
  BY <1>2, <1>5, <1>6 DEF t

\* The first in the queue leaves it.
LEMMA Dequeued ==
  ASSUME NEW s \in Seq(Conns), Distinct(s), s # <<>>
  PROVE  /\ Tail(s) \in Seq(Conns) /\ Head(s) \in Conns /\ Distinct(Tail(s))
         /\ Among(Head(s), s)
         /\ \A d \in Conns : Among(d, Tail(s)) <=> Among(d, s) /\ d # Head(s)
<1>1. /\ Len(s) \in Nat /\ 1 \in 1 .. Len(s) /\ DOMAIN s = 1 .. Len(s)
      /\ Head(s) = s[1] /\ s[1] \in Conns
  OBVIOUS
<1>2. /\ Tail(s) \in Seq(Conns) /\ Len(Tail(s)) = Len(s) - 1
      /\ \A i \in 1 .. Len(Tail(s)) : Tail(s)[i] = s[i + 1]
  BY <1>1, HeadTailProperties
<1>3. \A i \in 1 .. Len(Tail(s)) : Tail(s)[i] = IF i < 1 THEN s[i] ELSE s[i + 1]
  BY <1>2
<1>4. /\ Distinct(Tail(s))
      /\ \A d \in Conns : Among(d, Tail(s)) <=> Among(d, s) /\ d # s[1]
  BY <1>1, <1>2, <1>3, ErasedIsOut
<1> QED
  BY <1>1, <1>2, <1>4 DEF Among

-----------------------------------------------------------------------------
(* One lemma per action that touches a socket.                             *)

\* A record reaches the client at the iterator, and no other.
LEMMA WriteKeeps == IInv /\ Write => IInv'
<1> SUFFICES ASSUME IInv, Write PROVE IInv'
  OBVIOUS
<1> DEFINE c == clients[it]
<1>1. /\ clients \in Seq(Conns) /\ it \in Nat \ {0} /\ Len(clients) \in Nat
      /\ served \in [Conns -> Nat] /\ it <= Len(clients) /\ pc = "send"
      /\ DOMAIN clients = 1 .. Len(clients)
  BY DEF IInv, TypeInv, Write
<1>2. it \in DOMAIN clients /\ c \in Conns
  BY <1>1
<1>3. /\ served' = [served EXCEPT ![c] = @ + 1] /\ it' = it + 1
      /\ UNCHANGED <<pc, clients, pending, peer>>
  BY DEF Write
<1>4. served[c] = 0 /\ \A i \in DOMAIN clients : clients[i] = c => i = it
  BY <1>1, <1>2 DEF IInv, ServedOnce, Accounted, Distinct
<1> HIDE DEF c
<1>5. TypeInv' /\ Accounted'
  BY <1>1, <1>2, <1>3 DEF IInv, TypeInv, Accounted
<1>6. ASSUME NEW i \in DOMAIN clients
      PROVE  served'[clients[i]] = IF i < it' THEN 1 ELSE 0
  <2>1. clients[i] \in Conns /\ i \in Nat
    BY <1>1
  <2>2. CASE i = it
    <3>1. clients[i] = c /\ served'[c] = 1 /\ i < it'
      BY <1>1, <1>2, <1>3, <1>4, <2>2 DEF c
    <3> QED
      BY <3>1
  <2>3. CASE i # it
    <3>1. clients[i] # c
      BY <1>4, <2>3
    <3>2. served'[clients[i]] = served[clients[i]]
      BY <1>1, <1>2, <1>3, <2>1, <3>1
    <3>3. served[clients[i]] = IF i < it THEN 1 ELSE 0
      BY <1>1 DEF IInv, ServedOnce
    <3>4. i < it <=> i < it'
      BY <1>1, <1>3, <2>1, <2>3
    <3> QED
      BY <3>2, <3>3, <3>4
  <2> QED
    BY <2>2, <2>3
<1>7. ServedOnce'
  BY <1>3, <1>6 DEF ServedOnce
<1> QED
  BY <1>5, <1>7 DEF IInv

\* A dead client is closed and erased; the one behind it moves to the iterator
\* and is still to be served.
LEMMA WriteFailsKeeps == IInv /\ WriteFails => IInv'
<1> SUFFICES ASSUME IInv, WriteFails PROVE IInv'
  OBVIOUS
<1> DEFINE c == clients[it]
           t == SubSeq(clients, 1, it - 1) \o SubSeq(clients, it + 1, Len(clients))
<1>1. /\ clients \in Seq(Conns) /\ it \in Nat \ {0} /\ Len(clients) \in Nat
      /\ it <= Len(clients) /\ pc = "send"
      /\ peer \in [Conns -> {"off", "on", "gone"}]
      /\ DOMAIN clients = 1 .. Len(clients)
  BY DEF IInv, TypeInv, WriteFails
<1>2. it \in 1 .. Len(clients) /\ c \in Conns /\ Among(c, clients)
  BY <1>1 DEF Among
<1>3. /\ clients' = t /\ peer' = [peer EXCEPT ![c] = "off"]
      /\ UNCHANGED <<pc, it, pending, served>>
  BY DEF WriteFails
<1>4. /\ t \in Seq(Conns) /\ Len(t) = Len(clients) - 1
      /\ \A i \in 1 .. Len(t) :
            t[i] = IF i < it THEN clients[i] ELSE clients[i + 1]
  BY <1>1, <1>2, Erase
<1> HIDE DEF t, c
<1>5. /\ Distinct(t)
      /\ \A d \in Conns : Among(d, t) <=> Among(d, clients) /\ d # c
  <2>1. Distinct(clients)
    BY DEF IInv, Accounted
  <2> QED
    BY <1>1, <1>2, <1>4, <2>1, ErasedIsOut DEF c
<1>6. TypeInv'
  BY <1>1, <1>2, <1>3, <1>4 DEF IInv, TypeInv
<1>7. Accounted'
  <2>1. ~Among(c, pending)
    BY <1>2 DEF IInv, Accounted
  <2>2. \A d \in Conns : peer'[d] = IF d = c THEN "off" ELSE peer[d]
    BY <1>1, <1>2, <1>3
  <2> QED
    BY <1>3, <1>5, <2>1, <2>2 DEF IInv, Accounted
<1>8. ASSUME NEW i \in DOMAIN t
      PROVE  served[t[i]] = IF i < it THEN 1 ELSE 0
  <2>1. i \in 1 .. Len(t) /\ Len(t) \in Nat /\ i \in Nat
    BY <1>4
  <2>2. CASE i < it
    <3>1. t[i] = clients[i] /\ i \in DOMAIN clients
      BY <1>1, <1>4, <2>1, <2>2
    <3> QED
      BY <1>1, <2>2, <3>1 DEF IInv, ServedOnce
  <2>3. CASE ~(i < it)
    <3>1. t[i] = clients[i + 1] /\ i + 1 \in DOMAIN clients /\ ~(i + 1 < it)
      BY <1>1, <1>4, <2>1, <2>3
    <3> QED
      BY <1>1, <2>3, <3>1 DEF IInv, ServedOnce
  <2> QED
    BY <2>2, <2>3
<1>9. ServedOnce'
  BY <1>3, <1>8 DEF ServedOnce
<1> QED
  BY <1>6, <1>7, <1>9 DEF IInv

\* accept() moves a connection from the kernel's queue to the vector.
LEMMA AcceptKeeps == IInv /\ Accept => IInv'
<1> SUFFICES ASSUME IInv, Accept PROVE IInv'
  OBVIOUS
<1>1. /\ clients \in Seq(Conns) /\ pending \in Seq(Conns)
      /\ UNCHANGED <<it, peer, served>> /\ pc' = "pause"
      /\ Distinct(clients) /\ Distinct(pending)
  BY DEF IInv, TypeInv, Accounted, Accept
<1>2. ServedOnce'
  BY <1>1 DEF ServedOnce
<1>3. CASE pending = <<>>
  BY <1>1, <1>2, <1>3 DEF Accept, IInv, TypeInv, Accounted
<1>4. CASE pending # <<>>
  <2> DEFINE c == Head(pending)
  <2>1. clients' = Append(clients, c) /\ pending' = Tail(pending)
    BY <1>4 DEF Accept
  <2>2. /\ Tail(pending) \in Seq(Conns) /\ c \in Conns
        /\ Distinct(Tail(pending)) /\ Among(c, pending)
        /\ \A d \in Conns :
              Among(d, Tail(pending)) <=> Among(d, pending) /\ d # c
    BY <1>1, <1>4, Dequeued
  <2> HIDE DEF c
  <2>3. ~Among(c, clients)
    BY <2>2 DEF IInv, Accounted
  <2>4. /\ Append(clients, c) \in Seq(Conns) /\ Distinct(Append(clients, c))
        /\ \A d \in Conns :
              Among(d, Append(clients, c)) <=> Among(d, clients) \/ d = c
    BY <1>1, <2>2, <2>3, Appended
  <2>5. TypeInv'
    BY <1>1, <2>1, <2>2, <2>4 DEF IInv, TypeInv
  <2>6. Accounted'
    BY <1>1, <2>1, <2>2, <2>4 DEF IInv, Accounted
  <2> QED
    BY <1>2, <2>5, <2>6 DEF IInv
<1> QED
  BY <1>3, <1>4

\* A connection enters the queue once.
LEMMA ConnectKeeps ==
  ASSUME IInv, NEW c \in Conns, Connect(c)
  PROVE  IInv'
<1>1. /\ pending \in Seq(Conns) /\ Distinct(pending)
      /\ peer \in [Conns -> {"off", "on", "gone"}] /\ peer[c] = "off"
      /\ peer' = [peer EXCEPT ![c] = "on"] /\ pending' = Append(pending, c)
      /\ UNCHANGED <<pc, clients, it, served>>
  BY DEF IInv, TypeInv, Accounted, Connect, loopVars
<1>2. ~Among(c, pending) /\ ~Among(c, clients)
  BY <1>1 DEF IInv, Accounted
<1>3. /\ Append(pending, c) \in Seq(Conns) /\ Distinct(Append(pending, c))
      /\ \A d \in Conns :
            Among(d, Append(pending, c)) <=> Among(d, pending) \/ d = c
  BY <1>1, <1>2, Appended
<1>4. \A d \in Conns : peer'[d] = IF d = c THEN "on" ELSE peer[d]
  BY <1>1
<1>5. TypeInv'
  BY <1>1, <1>3 DEF IInv, TypeInv
<1>6. Accounted'
  BY <1>1, <1>2, <1>3, <1>4 DEF IInv, Accounted
<1>7. ServedOnce'
  BY <1>1 DEF IInv, ServedOnce
<1> QED
  BY <1>5, <1>6, <1>7 DEF IInv

\* The end of the process closes everything.
LEMMA ShutdownKeeps == IInv /\ Shutdown => IInv'
<1> SUFFICES ASSUME IInv, Shutdown PROVE IInv'
  OBVIOUS
<1>1. /\ clients' = <<>> /\ pending' = <<>> /\ it' = 1 /\ pc' = "dead"
      /\ peer' = [c \in Conns |-> "off"] /\ served' = served
  BY DEF Shutdown
<1>2. <<>> \in Seq(Conns) /\ DOMAIN <<>> = {}
  OBVIOUS
<1>3. TypeInv'
  BY <1>1, <1>2 DEF IInv, TypeInv
<1>4. Accounted' /\ ServedOnce'
  BY <1>1, <1>2 DEF Accounted, ServedOnce, Distinct, Among
<1> QED
  BY <1>3, <1>4 DEF IInv

\* What leaves the lists alone, and nobody's connection ends or begins.
LEMMA OthersKeep ==
  ASSUME IInv, UNCHANGED <<clients, pending>>, it' \in Nat \ {0},
         served' \in [Conns -> Nat],
         peer' \in [Conns -> {"off", "on", "gone"}],
         \A c \in Conns : peer'[c] = "off" <=> peer[c] = "off",
         \/ pc' # "send"
         \/ UNCHANGED <<it, served>> /\ pc = "send"
         \/ it' = 1 /\ served' = Nobody
  PROVE  IInv'
<1>1. TypeInv' /\ Accounted'
  BY DEF IInv, TypeInv, Accounted
<1>2. ServedOnce'
  <2>1. CASE pc' # "send"
    BY <2>1 DEF ServedOnce
  <2>2. CASE UNCHANGED <<it, served>> /\ pc = "send"
    BY <2>2 DEF IInv, ServedOnce
  <2>3. CASE it' = 1 /\ served' = Nobody
    <3>1. \A i \in DOMAIN clients : clients[i] \in Conns /\ ~(i < 1)
      BY DEF IInv, TypeInv
    <3> QED
      BY <2>3, <3>1 DEF ServedOnce, Nobody
  <2> QED
    BY <2>1, <2>2, <2>3
<1> QED
  BY <1>1, <1>2 DEF IInv

\* The invariant is inductive.
LEMMA NextKeeps == IInv /\ [Next]_vars => IInv'
<1> SUFFICES ASSUME IInv, [Next]_vars PROVE IInv'
  OBVIOUS
<1>1. /\ it \in Nat \ {0} /\ served \in [Conns -> Nat]
      /\ peer \in [Conns -> {"off", "on", "gone"}]
      /\ 1 \in Nat \ {0} /\ Nobody \in [Conns -> Nat]
  BY DEF IInv, TypeInv, Nobody
<1>2. CASE UNCHANGED <<clients, pending, it, served, peer, pc>>
  BY <1>1, <1>2, OthersKeep
<1>3. CASE pc' # "send" /\ UNCHANGED <<clients, pending, it, served, peer>>
  BY <1>1, <1>3, OthersKeep
<1>4. CASE Open \/ Nap \/ Setup \/ ReadFails \/ Reopen \/ Pause
  BY <1>3, <1>4 DEF Open, Nap, Setup, ReadFails, Reopen, Pause, peerVars
<1>5. CASE ReadOk
  BY <1>1, <1>5, OthersKeep DEF ReadOk, peerVars
<1>6. CASE SendDone
  BY <1>1, <1>6, OthersKeep DEF SendDone, peerVars
<1>7. CASE Restart
  BY <1>1, <1>7, OthersKeep DEF Restart, peerVars
<1>8. CASE Terminate \/ Plug \/ PackToggles \/ UNCHANGED vars
  BY <1>2, <1>8 DEF Terminate, Plug, PackToggles, vars, loopVars, peerVars
<1>9. ASSUME NEW c \in Conns, PeerReads(c) PROVE IInv'
  BY <1>2, <1>9 DEF PeerReads, loopVars
<1>10. ASSUME NEW c \in Conns, Leave(c) PROVE IInv'
  <2>1. /\ peer[c] = "on" /\ peer' = [peer EXCEPT ![c] = "gone"]
        /\ UNCHANGED <<clients, pending, it, served, pc>>
    BY <1>10 DEF Leave, loopVars
  <2>2. /\ peer' \in [Conns -> {"off", "on", "gone"}]
        /\ \A d \in Conns : peer'[d] = "off" <=> peer[d] = "off"
    BY <1>1, <2>1
  <2> QED
    BY <1>1, <2>1, <2>2, OthersKeep
<1> QED
  BY <1>4, <1>5, <1>6, <1>7, <1>8, <1>9, <1>10, WriteKeeps, WriteFailsKeeps,
     AcceptKeeps, ConnectKeeps, ShutdownKeeps DEF Next, DaemonStep

\* The daemon starts with no socket.
LEMMA Initially == Init => IInv
<1> SUFFICES ASSUME Init PROVE IInv
  OBVIOUS
<1>1. <<>> \in Seq(Conns) /\ DOMAIN <<>> = {}
  OBVIOUS
<1>2. TypeInv
  BY <1>1 DEF Init, TypeInv, Nobody
<1>3. Accounted /\ ServedOnce
  BY <1>1 DEF Init, Accounted, ServedOnce, Distinct, Among
<1> QED
  BY <1>2, <1>3 DEF IInv

-----------------------------------------------------------------------------
(* The results.                                                            *)

\* The invariant holds in every reachable state.
THEOREM Inductive == Spec => []IInv
BY Initially, NextKeeps, PTL DEF Spec

\* The sockets of the vector and of the listen queue are exactly the
\* connections that exist, each once, through every unplugging, SIGTERM and
\* restart of run_daemon().
THEOREM SocketsAccounted == Spec => []NoSocketLeaks
<1>1. IInv => NoSocketLeaks
  BY DEF IInv, Accounted, NoSocketLeaks, Distinct, Among, Listed, Queued
<1> QED
  BY <1>1, Inductive, PTL

\* A broadcast that erases dead clients on its way writes its record once to
\* every other, for any number of them.
THEOREM BroadcastIsExact == Spec => []ServedOnce
<1>1. IInv => ServedOnce
  BY DEF IInv
<1> QED
  BY <1>1, Inductive, PTL
=============================================================================

-------------------------- MODULE PollTimingProofs --------------------------
(***************************************************************************)
(* For every timing within BudgetAssumption and NoticeAssumption a single  *)
(* missed round never makes the clients' data stale, and three always do.  *)
(***************************************************************************)
EXTENDS PollTiming, TLAPS

\* The longest a loop can wait for its next query, and the longest query.
Loop  == Select + Pause
Reply == PreWrite + Timeout

\* How old the record can be when the current loop began to wait: nothing
\* after a published round, one loop and one failed query after a miss.
Base == IF missed = 0 THEN 0 ELSE Loop + Reply

\* The age at each point of the loop, as long as at most one round was missed.
AgeBound ==
    missed <= 1 =>
        /\ at = "accept"   => age <= Base
        /\ at = "pause"    => age <= Base + Select
        /\ at = "query"    => age <= Base + Loop
        /\ at \in {"failed", "backfill"} => age <= Base + Loop + Reply
        /\ at = "publish"  => age <= Base + Loop + 2 * Reply

TypeInv ==
    /\ at \in {"query", "backfill", "publish", "failed", "accept", "pause"}
    /\ published \in BOOLEAN
    /\ age \in Nat /\ missed \in Nat /\ failures \in Nat

\* The reopening sleep cannot fall on the first miss, because failures never
\* run ahead of the misses.
IInv == TypeInv /\ failures <= missed /\ AgeBound

\* Init establishes the invariant: the first query starts at age 0.
LEMMA InitIInv == Init => IInv
<1> SUFFICES ASSUME Init PROVE IInv
  OBVIOUS
<1>1. TypeInv
  BY DEF Init, TypeInv
<1>2. Base = 0
  BY DEF Init, Base
<1>3. Loop \in Nat /\ Reply \in Nat
  BY TimingAssumption DEF Loop, Reply
<1>4. AgeBound
  BY <1>2, <1>3, TimingAssumption DEF Init, AgeBound
<1> QED
  BY <1>1, <1>4 DEF Init, IInv

\* Each stage of the loop adds its time to the age and keeps the bound.
LEMMA NextIInv == IInv /\ [Next]_vars => IInv'
<1> SUFFICES ASSUME IInv, [Next]_vars PROVE IInv'
  OBVIOUS
<1> USE TimingAssumption, BudgetAssumption
    DEF IInv, TypeInv, AgeBound, Base, Loop, Reply
<1>1. CASE Query
  <2>1. PICK d \in ReplyTimes : age' = age + PreWrite + d
    BY <1>1 DEF Query
  <2>2. d \in Nat /\ d <= Timeout
    OBVIOUS
  <2> QED
    BY <1>1, <2>1, <2>2 DEF Query
<1>2. CASE Backfill
  <2>1. PICK d \in ReplyTimes : age' = age + PreWrite + d
    BY <1>2 DEF Backfill
  <2>2. d \in Nat /\ d <= Timeout
    OBVIOUS
  <2> QED
    BY <1>2, <2>1, <2>2 DEF Backfill
<1>3. CASE Publish
  BY <1>3 DEF Publish
<1>4. CASE Fail
  BY <1>4 DEF Fail
<1>5. CASE Accept
  <2>1. PICK d \in AcceptTimes : age' = age + d
    BY <1>5 DEF Accept
  <2>2. d \in Nat /\ d <= Select
    OBVIOUS
  <2> QED
    BY <1>5, <2>1, <2>2 DEF Accept
<1>6. CASE Sleep
  BY <1>6 DEF Sleep
<1>7. CASE UNCHANGED vars
  BY <1>7 DEF vars
<1> QED
  BY <1>1, <1>2, <1>3, <1>4, <1>5, <1>6, <1>7 DEF Next

\* One missed round is tolerated whatever the timeouts and pauses are, as
\* long as two loops and three queries fit into the staleness limit.
THEOREM OneMissIsTolerated == Spec => []OneMissTolerated
<1>1. IInv => OneMissTolerated
  BY TimingAssumption, BudgetAssumption
  DEF IInv, TypeInv, AgeBound, Base, Loop, Reply, OneMissTolerated, CurrentAt
<1> QED
  BY <1>1, InitIInv, NextIInv, PTL DEF Spec

-----------------------------------------------------------------------------
(* The other direction.                                                    *)

\* What a missed round takes at least.
Missing == Pause + PreWrite

\* The least age after the rounds missed so far, up to the third.
Floor == IF missed = 0 THEN 0
         ELSE IF missed = 1 THEN Missing
         ELSE IF missed = 2 THEN 2 * Missing ELSE 3 * Missing

AgeFloor ==
    published =>
        /\ at \in {"accept", "pause"} => age >= Floor
        /\ at = "query" => age >= Floor + Pause
        /\ at \in {"failed", "backfill", "publish"} => age >= Floor + Missing

\* Each stage of the loop keeps the least age: a miss adds no more to it than
\* the loop has taken.
LEMMA FloorNext == TypeInv /\ AgeFloor /\ [Next]_vars => AgeFloor'
<1> SUFFICES ASSUME TypeInv, AgeFloor, [Next]_vars PROVE AgeFloor'
  OBVIOUS
<1> USE TimingAssumption DEF TypeInv, AgeFloor, Floor, Missing
<1>1. CASE Query
  <2>1. PICK d \in ReplyTimes : age' = age + PreWrite + d
    BY <1>1 DEF Query
  <2>2. d \in Nat
    OBVIOUS
  <2> QED
    BY <1>1, <2>1, <2>2 DEF Query
<1>2. CASE Backfill
  <2>1. PICK d \in ReplyTimes : age' = age + PreWrite + d
    BY <1>2 DEF Backfill
  <2>2. d \in Nat
    OBVIOUS
  <2> QED
    BY <1>2, <2>1, <2>2 DEF Backfill
<1>3. CASE Publish
  BY <1>3 DEF Publish
<1>4. CASE Fail
  <2>1. age' >= age /\ at = "failed" /\ at' = "accept" /\ missed' = missed + 1
        /\ published' = published /\ age' \in Nat
    BY <1>4 DEF Fail
  <2> QED
    BY <2>1
<1>5. CASE Accept
  <2>1. PICK d \in AcceptTimes : age' = age + d
    BY <1>5 DEF Accept
  <2>2. d \in Nat
    OBVIOUS
  <2> QED
    BY <1>5, <2>1, <2>2 DEF Accept
<1>6. CASE Sleep
  BY <1>6 DEF Sleep
<1>7. CASE UNCHANGED vars
  BY <1>7 DEF vars
<1> QED
  BY <1>1, <1>2, <1>3, <1>4, <1>5, <1>6, <1>7 DEF Next

\* Three missed rounds are noticed by every client, for every choice of pauses
\* with NoticeAssumption, however quickly the rounds fail.
THEOREM ThreeMissesAreSeen == Spec => []ThreeMissesSeen
<1>1. Init => IInv /\ AgeFloor
  BY InitIInv DEF Init, AgeFloor
<1>2. IInv /\ AgeFloor /\ [Next]_vars => IInv' /\ AgeFloor'
  BY NextIInv, FloorNext DEF IInv
<1>3. IInv /\ AgeFloor => ThreeMissesSeen
  BY TimingAssumption, NoticeAssumption
  DEF IInv, TypeInv, AgeFloor, Floor, Missing, ThreeMissesSeen
<1> QED
  BY <1>1, <1>2, <1>3, PTL DEF Spec
=============================================================================

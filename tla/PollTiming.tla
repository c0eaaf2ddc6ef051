----------------------------- MODULE PollTiming -----------------------------
(***************************************************************************)
(* The time budget between bms_daemon's SCUD485 polling loop (run_daemon() *)
(* with ScudBmsProtocol::read_all()) and the client's staleness limit      *)
(* (kDataStaleMs).  Everything is in milliseconds; a step adds the time it *)
(* takes to the age of the record the clients hold.  What the kernel and   *)
(* the scheduler add on the way to the client is the constant Lag.         *)
(***************************************************************************)
EXTENDS Integers

CONSTANTS
    PreWrite,     \* usleep() between flush and write in send_query()
    Timeout,      \* timeout_ms_ of one query
    Select,       \* longest wait for a new client
    Pause,        \* sleep at the end of a loop
    Reopen,       \* sleep between close_port() and open()
    FailLimit,    \* failed reads in a row before the port is reopened
    Lag,          \* from the daemon's write() to the client's stamp, at most
    StaleMs,      \* kDataStaleMs
    ReplyTimes,   \* how long one query may take: a subset of 0 .. Timeout
    AcceptTimes,  \* how long select() may take: a subset of 0 .. Select
    MaxMissed     \* bound on the rounds missed in a row

ASSUME TimingAssumption ==
    /\ PreWrite \in Nat /\ Timeout \in Nat /\ Select \in Nat
    /\ Pause \in Nat /\ Reopen \in Nat
    /\ FailLimit \in Nat /\ MaxMissed \in Nat
    /\ Lag \in Nat /\ StaleMs \in Nat
    /\ ReplyTimes \subseteq 0 .. Timeout
    /\ AcceptTimes \subseteq 0 .. Select

\* Two loops and three queries, at their slowest, fit into the limit: with the
\* defaults 2 * 1010 + 3 * 310 leaves 50 ms of the 3000 for Lag.
ASSUME BudgetAssumption ==
    /\ 2 * (Select + Pause) + 3 * (PreWrite + Timeout) + Lag <= StaleMs
    /\ FailLimit > 1

\* Four pauses and three queries, at their quickest, exceed it: 4030 ms, with
\* the defaults, are more than 3000 and Lag.
ASSUME NoticeAssumption == 4 * Pause + 3 * PreWrite > StaleMs + Lag

VARIABLES
    at,         \* where run_daemon() is
    published,  \* a record has been written to the clients
    age,        \* milliseconds since the last record, or since the start
    missed,     \* history: rounds without a record since then
    failures    \* failure_count

vars == <<at, published, age, missed, failures>>

Init ==
    /\ at = "query" /\ published = FALSE
    /\ age = 0 /\ missed = 0 /\ failures = 0

\* The 0x61 query: no target frame (a timeout, or a link error at once), a
\* whole snapshot, or one without the cell extremes.
Query ==
    /\ at = "query"
    /\ \E d \in ReplyTimes : age' = age + PreWrite + d
    /\ at' \in {"failed", "publish", "backfill"}
    /\ at' = "failed" => missed < MaxMissed
    /\ UNCHANGED <<published, missed, failures>>

\* Mutant: a 0x31 query that times out is tried a second time.
BackfillRetries ==
    /\ at = "backfill"
    /\ \E d, e \in ReplyTimes : age' = age + 2 * PreWrite + d + e
    /\ at' = "publish"
    /\ UNCHANGED <<published, missed, failures>>

\* The 0x31 query for the extremes; failing it does not fail the round.
Backfill ==
    /\ at = "backfill"
    /\ \E d \in ReplyTimes : age' = age + PreWrite + d
    /\ at' = "publish"
    /\ UNCHANGED <<published, missed, failures>>

Publish ==
    /\ at = "publish"
    /\ published' = TRUE
    /\ age' = 0 /\ missed' = 0 /\ failures' = 0
    /\ at' = "accept"

Fail ==
    /\ at = "failed"
    /\ missed' = missed + 1
    /\ IF failures + 1 >= FailLimit
       THEN failures' = 0 /\ age' = age + Reopen
       ELSE failures' = failures + 1 /\ age' = age
    /\ at' = "accept"
    /\ UNCHANGED published

Accept ==
    /\ at = "accept"
    /\ \E d \in AcceptTimes : age' = age + d
    /\ at' = "pause"
    /\ UNCHANGED <<published, missed, failures>>

\* Mutant: a round that failed is repeated at once.
SleepIfPublished ==
    /\ at = "pause"
    /\ age' = IF missed = 0 THEN age + Pause ELSE age
    /\ at' = "query"
    /\ UNCHANGED <<published, missed, failures>>

Sleep ==
    /\ at = "pause"
    /\ age' = age + Pause
    /\ at' = "query"
    /\ UNCHANGED <<published, missed, failures>>

Next == Query \/ Backfill \/ Publish \/ Fail \/ Accept \/ Sleep

Spec == Init /\ [][Next]_vars

-----------------------------------------------------------------------------
(* Properties.                                                             *)

\* A client stamps a record Lag late at worst, so its data stays current as
\* long as the daemon's own age plus Lag is within the limit.
CurrentAt == age + Lag <= StaleMs

\* One missed round never makes a client's data stale, however slowly the
\* queries around it are answered.
OneMissTolerated == published /\ missed <= 1 => CurrentAt

\* The comment at kDataStaleMs, which says that three records must be missed
\* before the driver calls the bus dead, in its sound direction: when a round
\* starts after three misses, every client has seen its data go stale, even one
\* that stamped it Lag late.
ThreeMissesSeen ==
    published /\ missed >= 3 /\ at = "query" => age - Lag > StaleMs
=============================================================================

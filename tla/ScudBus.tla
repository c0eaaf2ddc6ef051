------------------------------- MODULE ScudBus -------------------------------
(***************************************************************************)
(* The transactions of ScudBmsProtocol on the RS-485 bus                   *)
(* (src/drivers/scud485/scud_bms_driver.cpp: send_query(), read_frame(),   *)
(* read_version_info(), read_all()).                                       *)
(*                                                                         *)
(* A query flushes the receive buffer, pauses 10 ms, writes a command and  *)
(* takes the first frame of that command that arrives before its deadline. *)
(* Frames carry no sequence number, so a reply that missed the deadline of *)
(* its own query may be taken by a later one.  The pack answers in order,  *)
(* late or never.  Queries are numbered by the history variable q; what a  *)
(* reply says was measured after its query was written.                    *)
(***************************************************************************)
EXTENDS Integers, Sequences

CONSTANTS
    MaxQueries,  \* bound on the queries of one run of the daemon
    MaxLate      \* bound on the queries the pack has not answered yet

ASSUME BusAssumption == MaxQueries \in Nat /\ MaxLate \in Nat

VARIABLES
    pc,        \* the step of the transaction; "return" and "failed" are its results
    version,   \* the transaction is read_version_info(), at startup
    asked,     \* queries the pack has received and not answered
    rx,        \* replies in the serial receive buffer
    q,         \* history: number of the last query written
    first,     \* history: number of this transaction's 0x61 query
    calm,      \* history: it was written with nothing asked and nothing in rx
    base,      \* the query whose reply filled the record, 0 for none
    cells,     \* the 0x31 query whose reply filled the cell extremes, 0 for none
    record     \* the last record published, as [base, cells]

vars == <<pc, version, asked, rx, q, first, calm, base, cells, record>>

CMD_USER_INFO       == "0x61"
CMD_BATTERY_SUMMARY == "0x31"
Frames == [cmd : {CMD_USER_INFO, CMD_BATTERY_SUMMARY}, q : Nat]
NoRecord == [base |-> 0, cells |-> 0]

Init ==
    /\ pc = "idle" /\ version = TRUE
    /\ asked = <<>> /\ rx = <<>>
    /\ q = 0 /\ first = 0 /\ calm = TRUE
    /\ base = 0 /\ cells = 0 /\ record = NoRecord

-----------------------------------------------------------------------------
\* send_query(): flush first, then 10 ms in which a reply may still arrive.
Flush(next) ==
    /\ rx' = <<>>
    /\ pc' = next
    /\ UNCHANGED <<version, asked, q, record>>

Write(cmd, next) ==
    /\ q < MaxQueries /\ Len(asked) < MaxLate
    /\ q' = q + 1
    /\ asked' = Append(asked, [cmd |-> cmd, q |-> q + 1])
    /\ pc' = next
    /\ UNCHANGED <<version, rx, base, cells, record>>

\* read_frame() drops, in place, frames of another command.
Skip(cmd) ==
    /\ rx # <<>> /\ Head(rx).cmd # cmd
    /\ rx' = Tail(rx)
    /\ UNCHANGED <<pc, version, asked, q, first, calm, base, cells, record>>

\* The status structure of a transaction is new.
Begin ==
    /\ pc = "idle"
    /\ Flush("write61")
    /\ base' = 0 /\ cells' = 0
    /\ UNCHANGED <<first, calm>>

WriteUserInfo ==
    /\ pc = "write61"
    /\ Write(CMD_USER_INFO, "read61")
    /\ first' = q + 1
    /\ calm' = (asked = <<>> /\ rx = <<>>)

SkipInUserInfo == pc = "read61" /\ Skip(CMD_USER_INFO)

\* The first 0x61 frame is taken.  read_all() assigns the extremes it brings,
\* and goes on to the cell voltages if they are left out; read_version_info()
\* is done.
TakeUserInfo ==
    /\ pc = "read61" /\ rx # <<>> /\ Head(rx).cmd = CMD_USER_INFO
    /\ base' = Head(rx).q
    /\ cells' = IF version THEN cells ELSE 0
    /\ rx' = Tail(rx)
    /\ pc' \in IF version THEN {"return"} ELSE {"return", "backfill"}
    /\ UNCHANGED <<version, asked, q, first, calm, record>>

\* Mutant: the result of query_0x61() is not looked at.
UserInfoTimeoutIgnored ==
    /\ pc = "read61"
    /\ pc' \in IF version THEN {"return"} ELSE {"return", "backfill"}
    /\ UNCHANGED <<version, asked, rx, q, first, calm, base, cells, record>>

\* No target frame before the deadline: the status is left untouched.
UserInfoTimeout ==
    /\ pc = "read61"
    /\ pc' = "failed"
    /\ UNCHANGED <<version, asked, rx, q, first, calm, base, cells, record>>

BeginBackfill ==
    /\ pc = "backfill"
    /\ Flush("write31")
    /\ UNCHANGED <<first, calm, base, cells>>

WriteSummary ==
    /\ pc = "write31"
    /\ Write(CMD_BATTERY_SUMMARY, "read31")
    /\ UNCHANGED <<first, calm>>

SkipInSummary == pc = "read31" /\ Skip(CMD_BATTERY_SUMMARY)

TakeSummary ==
    /\ pc = "read31" /\ rx # <<>> /\ Head(rx).cmd = CMD_BATTERY_SUMMARY
    /\ cells' = Head(rx).q
    /\ rx' = Tail(rx)
    /\ pc' = "return"
    /\ UNCHANGED <<version, asked, q, first, calm, base, record>>

\* A failing 0x31 skips only the backfill.
SummaryTimeout ==
    /\ pc = "read31"
    /\ pc' = "return"
    /\ UNCHANGED <<version, asked, rx, q, first, calm, base, cells, record>>

\* The transaction ends; what a read_all() that succeeded has filled is published.
Return ==
    /\ pc \in {"return", "failed"}
    /\ record' = IF pc = "return" /\ ~version THEN [base |-> base, cells |-> cells]
                                              ELSE record
    /\ version' = FALSE
    /\ pc' = "idle"
    /\ UNCHANGED <<asked, rx, q, first, calm, base, cells>>

\* The daemon dies, at any point, and systemd starts it again; the wait before
\* ExecStart outlives any reply.
Restart ==
    /\ pc' = "idle" /\ version' = TRUE
    /\ asked' = <<>> /\ rx' = <<>>
    /\ q' = 0 /\ first' = 0 /\ calm' = TRUE
    /\ base' = 0 /\ cells' = 0 /\ record' = NoRecord

-----------------------------------------------------------------------------
(* The pack and the line.                                                  *)

Reply ==
    /\ asked # <<>>
    /\ rx' = Append(rx, Head(asked))
    /\ asked' = Tail(asked)
    /\ UNCHANGED <<pc, version, q, first, calm, base, cells, record>>

\* A query or its reply is lost, or damaged so that no frame is accepted.
Lose ==
    /\ asked # <<>>
    /\ asked' = Tail(asked)
    /\ UNCHANGED <<pc, version, rx, q, first, calm, base, cells, record>>

Next ==
    \/ Begin \/ WriteUserInfo \/ SkipInUserInfo \/ TakeUserInfo
    \/ UserInfoTimeout \/ BeginBackfill \/ WriteSummary \/ SkipInSummary
    \/ TakeSummary \/ SummaryTimeout \/ Return \/ Restart
    \/ Reply \/ Lose

Spec == Init /\ [][Next]_vars

-----------------------------------------------------------------------------
(* Properties.                                                             *)

\* Every record is measured after the one before it, however late the replies
\* are: no reply is used twice, none overtakes another, and nothing is published
\* that no reply has filled.
EachRecordIsNew ==
    pc = "return" /\ ~version => base > record.base

\* The cell extremes of a record are measured after the rest of it, even when
\* both were taken from replies to an older round.
CellsFollowBase == cells # 0 => base # 0 /\ cells > base

\* What a transaction returns can only be older than it if, when its query was
\* written, an earlier one was still unanswered or its reply had just come in.
StaleOnlyIfLate == pc = "return" /\ calm => base = first

\* "A record on the wire always vouches for every field it carries ... and
\* never mixes in values from an older round" (README, Data Freshness).
NothingFromAnOlderRound ==
    pc = "return" /\ ~version => base >= first
=============================================================================

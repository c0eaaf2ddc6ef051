----------------------------- MODULE ModbusRound -----------------------------
(***************************************************************************)
(* TWS and GF485 packs behind run_daemon(): the Modbus transactions of     *)
(* tws/protocol.cpp and gf485/protocol.cpp, and the branch of the polling  *)
(* loop that carries the fields of a failed query forward.                 *)
(*                                                                         *)
(* A query flushes the receive buffer, writes a request, and reads as many *)
(* bytes as the awaited reply has.  A reply names neither its request nor  *)
(* its registers, only its length, and the length is what is checked,      *)
(* together with the CRC.  The pack answers in order, late, in two pieces, *)
(* with an exception, or never.  Queries are numbered by the history q.    *)
(***************************************************************************)
EXTENDS Integers, Sequences

CONSTANTS
    Protocols,    \* the pack types considered, among "TWS" and "GF"
    MaxQueries,   \* bound on the queries of a behaviour
    MaxLate,      \* bound on the queries the pack has not answered yet
    ReopenAfter   \* rounds without an answer before the port is reopened, 5

ASSUME RoundAssumption ==
    /\ Protocols \subseteq {"TWS", "GF"} /\ Protocols # {}
    /\ MaxQueries \in Nat /\ MaxLate \in Nat /\ ReopenAfter \in Nat \ {0}

VARIABLES
    proto,     \* the type of the pack
    pc,        \* the step of the daemon
    startup,   \* the transaction is read_version_info(), before the loop
    plan,      \* the queries the transaction has left, the current one first
    port,      \* the serial port is open
    got,       \* what read_response() has received so far
    raw,       \* static_info or raw_data: the reply that filled each group
    sent,      \* status_to_send: the reply that filled each group
    failures,  \* failure_count
    asked,     \* replies the pack has still to send
    rx,        \* pieces of replies in the serial receive buffer
    q,         \* history: number of the last query written
    born,      \* history: its value when the daemon started
    calm       \* history: at its flush no earlier query was unanswered

vars == <<proto, pc, startup, plan, port, got, raw, sent, failures,
                asked, rx, q, born, calm>>

Groups == {"basic", "capacity", "io"}
Kinds  == Groups \cup {"version", "soh", "cycles"}

\* The requests, and the bytes read_response() is told to wait for.
Query(kind, len) == [kind |-> kind, len |-> len]
StartupPlan == [TWS |-> <<Query("version", 9), Query("soh", 7), Query("cycles", 9)>>,
                GF  |-> <<Query("version", 9), Query("soh", 7), Query("cycles", 7)>>]

\* Mutant: the request for the capacity asks for two registers only.
RoundPlanNarrow ==
    [TWS |-> <<Query("basic", 35), Query("capacity", 9), Query("io", 9)>>,
     GF  |-> <<Query("basic", 45), Query("capacity", 33)>>]

\* The GF pack has no IO state: its read_io_state() returns false at once.
RoundPlan == [TWS |-> <<Query("basic", 35), Query("capacity", 13), Query("io", 9)>>,
              GF  |-> <<Query("basic", 45), Query("capacity", 33)>>]

\* Who filled a group: the reply to query q, taken by query at.
Source(reply, kind, at) == [q |-> reply, kind |-> kind, at |-> at]
None == Source(0, "none", 0)
Indeterminate == Source(0, "indeterminate", 0)
Sources == [q : Nat, kind : Kinds \cup {"none", "indeterminate"}, at : Nat]

\* Bytes from .. to of the reply to query q, which has len bytes in all.
Piece(query, kind, len, from, to) ==
    [q |-> query, kind |-> kind, len |-> len, from |-> from, to |-> to]
SplitAt == 3    \* where a reply that comes in two pieces is cut
Exception == 5  \* the length of an exception reply

\* read_response()'s buffer: n bytes, and whether they are a reply's first n.
Nothing == [n |-> 0, q |-> 0, kind |-> "none", whole |-> TRUE]

Awaited == Head(plan).len
Filled(kind) == raw[kind].q # 0
OkRead == \E g \in Groups : Filled(g)

Startup(type) ==
    /\ proto' = type /\ startup' = TRUE /\ pc' = "flush"
    /\ plan' = StartupPlan[type] /\ port' = TRUE
    /\ got' = Nothing /\ raw' = [k \in Kinds |-> Indeterminate]
    /\ sent' = [g \in Groups |-> None] /\ failures' = 0
    /\ asked' = <<>> /\ rx' = <<>> /\ calm' = TRUE

Init ==
    /\ proto \in Protocols /\ startup = TRUE /\ pc = "flush"
    /\ plan = StartupPlan[proto] /\ port = TRUE
    /\ got = Nothing /\ raw = [k \in Kinds |-> Indeterminate]
    /\ sent = [g \in Groups |-> None] /\ failures = 0
    /\ asked = <<>> /\ rx = <<>> /\ q = 0 /\ born = 0 /\ calm = TRUE

-----------------------------------------------------------------------------
(* One query.                                                              *)

\* Mutant: the receive buffer is not flushed.
FlushNothing ==
    /\ pc = "flush"
    /\ calm' = (asked = <<>>)
    /\ pc' = "write"
    /\ UNCHANGED <<proto, startup, plan, port, got, raw, sent, failures, asked,
                   rx, q, born>>

\* A closed port is not flushed; what it had received is gone anyway.
Flush ==
    /\ pc = "flush"
    /\ rx' = <<>>
    /\ calm' = (asked = <<>>)
    /\ pc' = "write"
    /\ UNCHANGED <<proto, startup, plan, port, got, raw, sent, failures, asked, q,
                   born>>

\* send_read_request(): the result of the write is ignored.
Write ==
    /\ pc = "write"
    /\ q < MaxQueries /\ Len(asked) < MaxLate
    /\ q' = q + 1
    /\ asked' = IF port
                THEN Append(asked, Piece(q + 1, Head(plan).kind, Awaited, 1, Awaited))
                ELSE asked
    /\ got' = Nothing
    /\ pc' = "read"
    /\ UNCHANGED <<proto, startup, plan, port, raw, sent, failures, rx, born,
                   calm>>

\* Mutant: read() is offered the whole buffer again at each turn.
ReadOverruns ==
    /\ pc = "read" /\ port /\ got.n < Awaited /\ rx # <<>>
    /\ LET piece == Head(rx)
           here  == piece.to - piece.from + 1
           taken == IF here < Awaited THEN here ELSE Awaited
       IN  /\ got' = [n |-> got.n + taken, q |-> piece.q, kind |-> piece.kind,
                      whole |-> /\ piece.len = Awaited /\ piece.from = got.n + 1
                                /\ got.n > 0 => got.whole /\ got.q = piece.q]
           /\ rx' = IF taken = here THEN Tail(rx)
                    ELSE <<[piece EXCEPT !.from = @ + taken]>> \o Tail(rx)
    /\ UNCHANGED <<proto, pc, startup, plan, port, raw, sent, failures, asked,
                   q, born, calm>>

\* One turn of read_response(): at most the bytes that are still missing.
Read ==
    /\ pc = "read" /\ port /\ got.n < Awaited /\ rx # <<>>
    /\ LET piece == Head(rx)
           here  == piece.to - piece.from + 1
           taken == IF here < Awaited - got.n THEN here ELSE Awaited - got.n
       IN  /\ got' = [n |-> got.n + taken, q |-> piece.q, kind |-> piece.kind,
                      whole |-> /\ piece.len = Awaited /\ piece.from = got.n + 1
                                /\ got.n > 0 => got.whole /\ got.q = piece.q]
           /\ rx' = IF taken = here THEN Tail(rx)
                    ELSE <<[piece EXCEPT !.from = @ + taken]>> \o Tail(rx)
    /\ UNCHANGED <<proto, pc, startup, plan, port, raw, sent, failures, asked,
                   q, born, calm>>

\* The query is over; a failed version query ends read_version_info().
NextQuery(ok) ==
    /\ plan' = IF startup /\ Head(plan).kind = "version" /\ ~ok
               THEN <<>> ELSE Tail(plan)
    /\ pc' = IF plan' = <<>> THEN "end" ELSE "flush"
    /\ UNCHANGED <<proto, startup, port, got, sent, failures, asked, q, born,
                   calm>>

\* Full length and a right CRC, which only the bytes of one reply have.
Accept ==
    /\ pc = "read" /\ got.n = Awaited /\ got.whole
    /\ raw' = [raw EXCEPT ![Head(plan).kind] = Source(got.q, got.kind, q)]
    /\ NextQuery(TRUE)
    /\ UNCHANGED rx

\* Full length and a wrong CRC; poll() runs out; the port fails or is closed.
Fail ==
    /\ pc = "read"
    /\ \/ got.n = Awaited /\ ~got.whole
       \/ got.n < Awaited
    /\ NextQuery(FALSE)
    /\ UNCHANGED <<raw, rx>>

-----------------------------------------------------------------------------
(* The polling loop.                                                       *)

\* read_version_info() is over: its result is logged, and the loop begins.
NewRound ==
    /\ startup' = FALSE
    /\ plan' = RoundPlan[proto]
    /\ raw' = [k \in Kinds |-> None]
    /\ pc' = "flush"

EndStartup ==
    /\ pc = "end" /\ startup
    /\ NewRound
    /\ UNCHANGED <<proto, port, got, sent, failures, asked, rx, q, born, calm>>

\* Mutant: one successful query copies all of raw_data.
MergedWhole == [g \in Groups |-> raw[g]]

\* Each group is copied if its query succeeded, and left alone otherwise.
Merged == [g \in Groups |-> IF Filled(g) THEN raw[g] ELSE sent[g]]

Publish ==
    /\ pc = "end" /\ ~startup /\ OkRead
    /\ sent' = Merged
    /\ failures' = 0
    /\ pc' = "accept"
    /\ UNCHANGED <<proto, startup, plan, port, got, raw, asked, rx, q, born, calm>>

\* The port is closed and, after a second, opened again, which may fail.
NoData ==
    /\ pc = "end" /\ ~startup /\ ~OkRead
    /\ pc' = "accept"
    /\ \/ /\ failures + 1 < ReopenAfter
          /\ failures' = failures + 1
          /\ UNCHANGED <<port, rx>>
       \/ /\ failures + 1 >= ReopenAfter
          /\ failures' = 0
          /\ port' \in BOOLEAN
          /\ rx' = <<>>
    /\ UNCHANGED <<proto, startup, plan, got, raw, sent, asked, q, born, calm>>

\* Mutant: raw_data is declared outside the loop.
SleepKeepsRaw ==
    /\ pc = "accept"
    /\ plan' = RoundPlan[proto]
    /\ pc' = "flush"
    /\ UNCHANGED <<proto, startup, port, got, raw, sent, failures, asked, rx, q,
                   born, calm>>

\* accept(), the sleep of one second, and the head of the loop.
Sleep ==
    /\ pc = "accept"
    /\ NewRound
    /\ UNCHANGED <<proto, port, got, sent, failures, asked, rx, q, born, calm>>

Die ==
    /\ pc # "dead"
    /\ pc' = "dead"
    /\ UNCHANGED <<proto, startup, plan, port, got, raw, sent, failures, asked,
                   rx, q, born, calm>>

\* systemd: the 15 s until the first query outlive any reply.
Restart ==
    /\ pc = "dead"
    /\ Startup(proto)
    /\ born' = q
    /\ UNCHANGED q

-----------------------------------------------------------------------------
(* The pack and the line.                                                  *)

Device(head, rest) ==
    /\ asked # <<>>
    /\ asked' = rest \o Tail(asked)
    /\ rx' = IF port /\ pc # "dead" THEN rx \o head ELSE rx
    /\ UNCHANGED <<proto, pc, startup, plan, port, got, raw, sent, failures, q,
                   born, calm>>

Reply == asked # <<>> /\ Device(<<Head(asked)>>, <<>>)

ReplyInPieces ==
    /\ asked # <<>> /\ Head(asked).from = 1
    /\ Device(<<[Head(asked) EXCEPT !.to = SplitAt]>>,
              <<[Head(asked) EXCEPT !.from = SplitAt + 1]>>)

ReplyException ==
    /\ asked # <<>> /\ Head(asked).from = 1
    /\ Device(<<[Head(asked) EXCEPT !.len = Exception, !.to = Exception]>>, <<>>)

Lose == asked # <<>> /\ Device(<<>>, <<>>)

Pack == Reply \/ ReplyInPieces \/ ReplyException \/ Lose

Next ==
    \/ Flush \/ Write \/ Read \/ Accept \/ Fail \/ EndStartup
    \/ Publish \/ NoData \/ Sleep \/ Die \/ Restart \/ Pack

Spec == Init /\ [][Next]_vars

-----------------------------------------------------------------------------
(* Properties.                                                             *)

TypeOK ==
    /\ proto \in Protocols
    /\ pc \in {"flush", "write", "read", "end", "accept", "dead"}
    /\ startup \in BOOLEAN /\ port \in BOOLEAN /\ calm \in BOOLEAN
    /\ plan \in Seq([kind : Kinds, len : 7 .. 45])
    /\ pc \in {"flush", "write", "read"} => plan # <<>>
    /\ got.n \in Nat
    /\ pc = "read" => got.n <= Awaited
    /\ raw \in [Kinds -> Sources] /\ sent \in [Groups -> Sources]
    /\ failures \in 0 .. ReopenAfter - 1
    /\ q \in Nat /\ Len(asked) <= MaxLate

\* Every round is measured after everything that was published before it, and
\* its groups one after the other: no reply serves twice, however late it is.
RoundIsNews ==
    ~startup /\ pc \in {"flush", "write", "read", "end"} =>
        \A g \in Groups : Filled(g) =>
            raw[g].q > born /\ \A h \in Groups : raw[g].q > sent[h].q

\* The broadcast keeps the promise of CarryForward.
Record == INSTANCE CarryForward WITH
    rec <- [g \in Groups |-> sent[g].q], now <- q
ImplementsCarryForward == Record!RecordSpec

\* A query that was flushed for when nothing older was unanswered takes its own
\* reply or none: whatever went wrong before, framing and pairing are restored.
CalmQueryGetsItsReply ==
    pc = "read" /\ calm /\ got.n = Awaited => got.whole /\ got.q = q

\* A published field comes from another field's registers only if that reply
\* was three queries late, which takes three timeouts in a row or more.
WrongRegisterNeedsThreeLate ==
    \A g \in Groups :
        sent[g].kind \notin {g, "none"} => sent[g].at - sent[g].q >= 3
=============================================================================

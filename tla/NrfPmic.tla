------------------------------- MODULE NrfPmic -------------------------------
(***************************************************************************)
(* NrfPmicDriver (nrf_pmic_driver.cpp): its poll thread and a caller share *)
(* one serial port, the input that comes from it and status_, without a    *)
(* lock.  The board answers a command with lines of text; each line is two *)
(* fragments, its head, which bears the prefix parse_response() looks for, *)
(* and its tail, which ends it.                                            *)
(*                                                                         *)
(* Lines are numbered by the history variable lines.  A call of            *)
(* send_and_read() is shared if the other thread was busy at some time     *)
(* during it, and calm if nothing was outstanding when it began.           *)
(***************************************************************************)
EXTENDS Integers, Sequences

CONSTANTS
    MaxLines,   \* bound on the lines the board sends
    MaxInput    \* bound on the fragments sent and not yet read

ASSUME PmicAssumption == MaxLines \in Nat \ {0} /\ MaxInput \in Nat

VARIABLES
    alive,     \* no exception or fault has ended the process
    running,   \* running_
    setup,     \* the commands the constructor has still to send
    thread,    \* what each thread does
    turn,      \* the command the poll thread has sent last
    heard,     \* whether it has heard a line since, which is what resp tells
    calm,      \* history: whether nothing was outstanding when it was sent
    out,       \* fragments the board has still to send
    rx,        \* fragments in the serial receive buffer
    cut,       \* history: the board has stopped in the middle of a line
    lines,     \* history: number of the last line the board prepared
    status,    \* status_.bms, of two fields: the line each was read from
    cached     \* cached_, likewise

vars == <<alive, running, setup, thread, turn, heard, calm,
          out, rx, cut, lines, status, cached>>
polled == <<turn, heard, calm>>

Threads  == {"poller", "caller"}
Commands == {"GETBMS", "STATUS", "VERSION", "POWER"}

\* The lines a command is answered with.  "text" stands for those whose value
\* is kept as a string, "other" for those without a prefix that is looked for.
Answer(cmd) ==
    CASE cmd = "GETBMS"  -> <<"bms">>
      [] cmd = "STATUS"  -> <<"text", "bms">>
      [] cmd = "VERSION" -> <<"text">>
      [] cmd = "POWER"   -> <<"other">>

Fragment(id, kind, part) == [id |-> id, kind |-> kind, part |-> part]
Line(id, kind) == <<Fragment(id, kind, "head"), Fragment(id, kind, "tail")>>

AnswerLines(cmd) ==
    [i \in 1 .. 2 * Len(Answer(cmd)) |->
        LET n == (i + 1) \div 2 IN Line(lines + n, Answer(cmd)[n])[i - 2 * (n - 1)]]

Thread(at) == [at |-> at, line |-> <<>>, shared |-> FALSE]
Busy(t) == thread[t].at \in {"poll", "read", "parse", "soc", "copy", "copied"}
Other(t) == IF t = "poller" THEN "caller" ELSE "poller"

Init ==
    /\ alive = TRUE /\ running = FALSE
    /\ setup = <<"STATUS", "GETBMS", "VERSION">>
    /\ thread = [poller |-> Thread("unborn"), caller |-> Thread("idle")]
    /\ turn = "STATUS" /\ heard = FALSE /\ calm = FALSE
    /\ out = <<>> /\ rx = <<>> /\ cut = FALSE /\ lines = 0
    /\ status = [volt |-> 0, soc |-> 0, shared |-> FALSE]
    /\ cached = [volt |-> 0, soc |-> 0, shared |-> FALSE]

-----------------------------------------------------------------------------
(* send_and_read().                                                        *)

\* send_cmd().  The board may have no room for the command, or not answer it.
Send(t, cmd) ==
    /\ thread' = [thread EXCEPT
            ![t] = [Thread("poll") EXCEPT !.shared = Busy(Other(t))],
            ![Other(t)].shared = @ \/ Busy(Other(t))]
    /\ \/ /\ lines + Len(Answer(cmd)) <= MaxLines
          /\ Len(out) + Len(rx) + 2 * Len(Answer(cmd)) <= MaxInput
          /\ out' = out \o AnswerLines(cmd)
          /\ lines' = lines + Len(Answer(cmd))
       \/ UNCHANGED <<out, lines>>
    /\ UNCHANGED <<alive, running, rx, cut, status, cached>>

\* A write that fails or is cut short ends the call.
SendFails(t) ==
    /\ thread' = [thread EXCEPT ![t] = Thread("idle")]
    /\ UNCHANGED <<alive, running, out, rx, cut, lines, status, cached>>

\* The loop of read_line() calls is over.  The poll loop copies status_.bms if
\* its AT+GETBMS? heard any line at all.
Returned(t) ==
    IF t = "poller" /\ turn = "GETBMS" /\ heard
    THEN [thread[t] EXCEPT !.at = "copy", !.line = <<>>]
    ELSE Thread("idle")

\* poll() reports input.
Poll(t) ==
    /\ alive /\ thread[t].at = "poll" /\ rx # <<>>
    /\ thread' = [thread EXCEPT ![t].at = "read"]
    /\ UNCHANGED <<alive, running, setup, polled, out, rx, cut, lines, status, cached>>

\* The time is up, which is looked at before poll() is asked again: what has
\* been read of a line is forgotten.
Timeout(t) ==
    /\ alive /\ thread[t].at = "poll"
    /\ rx = <<>> \/ thread[t].line # <<>>
    /\ thread' = [thread EXCEPT ![t] = Returned(t)]
    /\ UNCHANGED <<alive, running, setup, polled, out, rx, cut, lines, status, cached>>

\* read() finds nothing: the other thread was faster, or the port is gone.
ReadNothing(t) ==
    /\ alive /\ thread[t].at = "read" /\ rx = <<>>
    /\ thread' = [thread EXCEPT ![t] = Returned(t)]
    /\ UNCHANGED <<alive, running, setup, polled, out, rx, cut, lines, status, cached>>

\* Mutant: what one read() returns is taken for one line.
ReadIsALine(t) ==
    /\ alive /\ thread[t].at = "read" /\ rx # <<>>
    /\ thread' = [thread EXCEPT ![t].line = rx, ![t].at = "parse"]
    /\ rx' = <<>>
    /\ UNCHANGED <<alive, running, setup, polled, out, cut, lines, status, cached>>

\* read() takes all there is; what follows the first end of line is dropped.
Read(t) ==
    /\ alive /\ thread[t].at = "read" /\ rx # <<>>
    /\ \/ /\ \A i \in DOMAIN rx : rx[i].part = "head"
          /\ thread' = [thread EXCEPT ![t].line = @ \o rx, ![t].at = "poll"]
       \/ \E end \in DOMAIN rx :
          /\ rx[end].part = "tail" /\ \A i \in 1 .. end - 1 : rx[i].part = "head"
          /\ thread' = [thread EXCEPT ![t].line = @ \o SubSeq(rx, 1, end),
                                      ![t].at = "parse"]
    /\ rx' = <<>>
    /\ UNCHANGED <<alive, running, setup, polled, out, cut, lines, status, cached>>

-----------------------------------------------------------------------------
(* parse_response().                                                       *)

Prefix(line) == IF Head(line).part = "head" THEN Head(line).kind ELSE "none"
Whole(line)  == line = Line(Head(line).id, Head(line).kind)

Heard(t) ==
    /\ thread' = [thread EXCEPT ![t].at = "poll", ![t].line = <<>>]
    /\ heard' = (heard \/ t = "poller")
    /\ UNCHANGED <<turn, calm>>

\* Mutant: the record is cleared before a line is parsed into it.
ParseOtherClears(t) ==
    /\ alive /\ thread[t].at = "parse"
    /\ Prefix(thread[t].line) \in {"other", "none"}
    /\ status' = [volt |-> 0, soc |-> 0, shared |-> FALSE]
    /\ Heard(t)
    /\ UNCHANGED <<alive, running, setup, out, rx, cut, lines, cached>>

\* A line that starts with no known prefix counts as an answer all the same.
\* The other prefixes fill fields nobody reads here; of them "+ADC:" ends the
\* process where stoi() finds no digits in a cut line.
ParseOther(t) ==
    /\ alive /\ thread[t].at = "parse"
    /\ \/ Prefix(thread[t].line) \in {"other", "none"} /\ Heard(t) /\ UNCHANGED alive
       \/ /\ Prefix(thread[t].line) = "other" /\ ~Whole(thread[t].line)
          /\ alive' = FALSE /\ UNCHANGED <<thread, polled>>
    /\ UNCHANGED <<running, setup, out, rx, cut, lines, status, cached>>

\* The constructor's memset() has zeroed the strings too; where that is not an
\* empty string, the first assignment of a short text writes through a null
\* pointer, and only a long one is survived.
ParseText(t) ==
    /\ alive /\ thread[t].at = "parse" /\ Prefix(thread[t].line) = "text"
    /\ \/ Heard(t) /\ UNCHANGED alive
       \/ alive' = FALSE /\ UNCHANGED <<thread, polled>>
    /\ UNCHANGED <<running, setup, out, rx, cut, lines, status, cached>>

\* The fields are written one after the other, without the lock.  stod()
\* throws where a cut line has no digits.
ParseVolt(t) ==
    /\ alive /\ thread[t].at = "parse" /\ Prefix(thread[t].line) = "bms"
    /\ \/ /\ status' = [status EXCEPT !.volt = Head(thread[t].line).id,
                                      !.shared = @ \/ thread[t].shared]
          /\ thread' = [thread EXCEPT ![t].at = "soc"]
          /\ UNCHANGED alive
       \/ /\ ~Whole(thread[t].line)
          /\ alive' = FALSE
          /\ UNCHANGED <<status, thread>>
    /\ UNCHANGED <<running, setup, polled, out, rx, cut, lines, cached>>

ParseSoc(t) ==
    /\ alive /\ thread[t].at = "soc"
    /\ status' = [status EXCEPT !.soc = thread[t].line[Len(thread[t].line)].id,
                                !.shared = thread[t].shared]
    /\ Heard(t)
    /\ UNCHANGED <<alive, running, setup, out, rx, cut, lines, cached>>

-----------------------------------------------------------------------------
(* poll_loop(), the constructor, the callers and the destructor.           *)

\* Mutant: resp is declared outside the loop and never emptied.
PollerBeginsHeard(cmd) ==
    /\ alive /\ thread["poller"].at = "idle" /\ cmd # turn
    /\ cmd = "GETBMS" => running
    /\ Send("poller", cmd) \/ SendFails("poller")
    /\ turn' = cmd
    /\ calm' = (cmd = "GETBMS" /\ out = <<>> /\ rx = <<>>)
    /\ UNCHANGED <<setup, heard>>

\* Mutant: the loop does not look at running_.
PollerBeginsAlways(cmd) ==
    /\ alive /\ thread["poller"].at = "idle" /\ cmd # turn
    /\ Send("poller", cmd) \/ SendFails("poller")
    /\ turn' = cmd /\ heard' = FALSE
    /\ calm' = (cmd = "GETBMS" /\ out = <<>> /\ rx = <<>>)
    /\ UNCHANGED setup

\* running_ is looked at once per turn, before AT+GETBMS?.
PollerBegins(cmd) ==
    /\ alive /\ thread["poller"].at = "idle" /\ cmd # turn
    /\ cmd = "GETBMS" => running
    /\ Send("poller", cmd) \/ SendFails("poller")
    /\ turn' = cmd /\ heard' = FALSE
    /\ calm' = (cmd = "GETBMS" /\ out = <<>> /\ rx = <<>>)
    /\ UNCHANGED setup

PollerEnds ==
    /\ alive /\ thread["poller"].at = "idle"
    /\ turn = "STATUS" /\ ~running
    /\ thread' = [thread EXCEPT !["poller"].at = "done"]
    /\ UNCHANGED <<alive, running, setup, polled, out, rx, cut, lines, status, cached>>

\* Mutant: the cache takes the voltage only.
CopySocForgotten ==
    /\ alive /\ thread["poller"].at = "copied"
    /\ cached' = [cached EXCEPT !.shared = status.shared \/ thread["poller"].shared]
    /\ thread' = [thread EXCEPT !["poller"] = Thread("idle")]
    /\ UNCHANGED <<alive, running, setup, polled, out, rx, cut, lines, status>>

\* The lock taken here excludes the getters, not parse_response().
CopyVolt ==
    /\ alive /\ thread["poller"].at = "copy"
    /\ cached' = [cached EXCEPT !.volt = status.volt,
                                !.shared = status.shared \/ thread["poller"].shared]
    /\ thread' = [thread EXCEPT !["poller"].at = "copied"]
    /\ UNCHANGED <<alive, running, setup, polled, out, rx, cut, lines, status>>

CopySoc ==
    /\ alive /\ thread["poller"].at = "copied"
    /\ cached' = [cached EXCEPT !.soc = status.soc,
                                !.shared = @ \/ status.shared
                                             \/ thread["poller"].shared]
    /\ thread' = [thread EXCEPT !["poller"] = Thread("idle")]
    /\ UNCHANGED <<alive, running, setup, polled, out, rx, cut, lines, status>>

Construct ==
    /\ alive /\ thread["caller"].at = "idle" /\ setup # <<>>
    /\ Send("caller", Head(setup)) \/ SendFails("caller")
    /\ setup' = Tail(setup)
    /\ UNCHANGED polled

StartPoller ==
    /\ alive /\ thread["caller"].at = "idle"
    /\ setup = <<>> /\ thread["poller"].at = "unborn"
    /\ running' = TRUE
    /\ thread' = [thread EXCEPT !["poller"].at = "idle"]
    /\ UNCHANGED <<alive, setup, polled, out, rx, cut, lines, status, cached>>

\* set_power*(), estop(), query_*(), refresh_*(): one command each.
CallerBegins(cmd) ==
    /\ alive /\ thread["caller"].at = "idle" /\ running
    /\ Send("caller", cmd) \/ SendFails("caller")
    /\ UNCHANGED <<setup, polled>>

Destroy ==
    /\ alive /\ thread["caller"].at = "idle" /\ running
    /\ running' = FALSE
    /\ thread' = [thread EXCEPT !["caller"].at = "join"]
    /\ UNCHANGED <<alive, setup, polled, out, rx, cut, lines, status, cached>>

Join ==
    /\ alive /\ thread["caller"].at = "join" /\ thread["poller"].at = "done"
    /\ thread' = [thread EXCEPT !["caller"].at = "done"]
    /\ UNCHANGED <<alive, running, setup, polled, out, rx, cut, lines, status, cached>>

\* The board's next fragment reaches the port, or all it had to say is lost.
Board ==
    /\ out # <<>>
    /\ \/ out' = Tail(out) /\ rx' = Append(rx, Head(out)) /\ UNCHANGED cut
       \/ out' = <<>> /\ cut' = (cut \/ Head(out).part = "tail") /\ UNCHANGED rx
    /\ UNCHANGED <<alive, running, setup, thread, polled, lines, status, cached>>

Receive(t) == Poll(t) \/ Timeout(t) \/ ReadNothing(t) \/ Read(t)
Parse(t) == ParseOther(t) \/ ParseText(t) \/ ParseVolt(t) \/ ParseSoc(t)
Poller == (\E cmd \in {"GETBMS", "STATUS"} : PollerBegins(cmd)) \/ PollerEnds \/ CopyVolt \/ CopySoc

Next ==
    \/ \E t \in Threads : Receive(t) \/ Parse(t)
    \/ Poller
    \/ Construct \/ StartPoller \/ Destroy \/ Join
    \/ \E cmd \in Commands : CallerBegins(cmd)
    \/ Board

Spec == Init /\ [][Next]_vars

\* The poll thread is scheduled, and the destructor's join() returns once it is
\* over.  Nothing is asked of the board, of the callers or of the time.
FairSpec ==
    /\ Spec
    /\ WF_vars(Receive("poller") \/ Parse("poller")) /\ WF_vars(Poller)
    /\ WF_vars(Join)

-----------------------------------------------------------------------------
(* Properties.                                                             *)

\* A line that parse_response() recognises is one the board sent, whole, unless
\* both threads were reading or the board stopped in the middle of one: timeouts
\* and dropped input cut lines, but what is left is never joined to another.
WholeLinesUnlessShared ==
    \A t \in Threads :
        thread[t].at \in {"parse", "soc"} /\ Prefix(thread[t].line) # "none"
        /\ ~thread[t].shared /\ ~cut => Whole(thread[t].line)

\* Voltage and charge of the cache are those of one report, unless a caller's
\* command met the poll thread's while they were parsed or copied.
OneReportUnlessShared ==
    thread["poller"].at # "copied" /\ ~cached.shared /\ ~cut => cached.volt = cached.soc

\* A poll that nobody disturbed and that was answered leaves its own report in
\* the cache, which is at that moment the last line the board has sent.
UndisturbedPollIsCached ==
    thread["poller"].at = "copied"
    /\ calm /\ ~thread["poller"].shared => cached.volt = lines

\* A report never replaces a newer one in the cache, unless both threads read.
CacheMovesForward ==
    [][~cached'.shared => cached'.volt >= cached.volt]_vars

\* The destructor's join() returns, whatever the poll thread was doing, unless
\* the process ends first.
DestructorReturns ==
    thread["caller"].at = "join" ~> ~alive \/ thread["caller"].at = "done"
=============================================================================

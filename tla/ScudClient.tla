----------------------------- MODULE ScudClient -----------------------------
(***************************************************************************)
(* The SCUD485 client driver (src/drivers/scud485/scud_bms_driver.cpp,     *)
(* class ScudBmsDriver): a reader thread that keeps a socket to the daemon *)
(* and caches whole BatteryStatus records, and the threads of the robot    *)
(* process that ask is_connected() and is_power_on() while it works.       *)
(*                                                                         *)
(* The daemon is seen from its client only: it writes records to the       *)
(* socket, may be killed at any point, on SIGTERM may leave a short write  *)
(* behind before it closes, and accepts nobody while another client keeps  *)
(* it in a blocked write().  A record is two fragments, so that a short    *)
(* read, a short write or a lost byte count shows.                         *)
(***************************************************************************)
EXTENDS Integers, Sequences

CONSTANTS
    Callers,     \* threads that query the driver
    StaleAfter,  \* kDataStaleMs, in ticks
    MaxLag,      \* ticks within which the reader takes what is readable
    MaxNow,      \* bound of the clock
    BufCap       \* fragments the socket buffer holds

ASSUME ClientAssumption ==
    /\ StaleAfter \in Nat /\ MaxLag \in Nat /\ MaxNow \in Nat
    /\ BufCap \in Nat \ {0, 1}

VARIABLES
    now,        \* CLOCK_MONOTONIC
    daemon,     \* "down", "up", "stuck" in a write() to another client, or
                \* "dying" (it has seen SIGTERM)
    conn,       \* the reader's socket: "none", "open", or "hup"
    stream,     \* fragments written by the daemon and not read yet
    reader,     \* where the reader thread is in reader_loop()
    wire,       \* the bytes of the record being assembled; got = Len(wire)
    running,    \* running_
    connected,  \* connected_
    lastRx,     \* last_rx_us_; -1 is "nothing received yet"
    cached,     \* cached_; <<>> stands for the zeroed initial record
    call,       \* call[c]: the getter c is in
    earned,     \* history: this session has stored a record
    justified   \* history: TRUE was right at some instant of c's call

daemonVars == <<daemon, conn, stream>>
readerVars == <<reader, wire, connected, lastRx, cached>>
history    == <<earned, justified>>
vars == <<now, daemonVars, readerVars, running, call, history>>

-----------------------------------------------------------------------------
(* Records and calls.                                                      *)

Fragment   == [at : Nat, power : BOOLEAN, part : {1, 2}]
Part(at, power, k) == [at |-> at, power |-> power, part |-> k]

\* power_on is the last byte of BatteryStatus.
Power(rec) == rec # <<>> /\ rec[2].power

Frame(op, pc, rx) == [op |-> op, pc |-> pc, rx |-> rx]
Idle == Frame("none", "idle", -1)
Call == [op : {"none", "connected", "power"},
         pc : {"idle", "loadRx", "readClock", "readPower", "yes", "no"},
         rx : Nat \cup {-1}]

\* c is inside the critical section of is_power_on(), holding data_mutex_.
HoldsShared(c) ==
    call[c].op = "power" /\ call[c].pc \in {"loadRx", "readClock", "readPower"}

Pending(c) == call[c].pc \in {"loadRx", "readClock", "readPower"}

TypeOK ==
    /\ now \in Nat
    /\ daemon \in {"down", "up", "stuck", "dying"}
    /\ conn \in {"none", "open", "hup"}
    /\ stream \in Seq(Fragment)
    /\ reader \in {"top", "connect", "sleep", "poll", "read", "store", "stamp",
                   "drop", "forget", "joined"}
    /\ wire \in Seq(Fragment) /\ Len(wire) <= 2
    /\ running \in BOOLEAN
    /\ connected \in BOOLEAN
    /\ lastRx \in Nat \cup {-1}
    /\ cached \in Seq(Fragment)
    /\ call \in [Callers -> Call]
    /\ earned \in BOOLEAN
    /\ justified \in [Callers -> BOOLEAN]

-----------------------------------------------------------------------------
(* What the abstract specification sees of the driver.                     *)

Seen == IF earned THEN [at |-> cached[1].at, power |-> cached[2].power]
                  ELSE [at |-> -1, power |-> FALSE]

Query(c) == IF Pending(c) THEN call[c].op
            ELSE IF call[c].pc = "idle" THEN "none" ELSE call[c].pc

Fresh == INSTANCE Freshness WITH
            Window <- StaleAfter + MaxLag, link <- connected, seen <- Seen,
            query <- [c \in Callers |-> Query(c)], could <- justified

-----------------------------------------------------------------------------
Init ==
    /\ now = 0
    /\ daemon = "down" /\ conn = "none" /\ stream = <<>>
    /\ reader = "top" /\ wire = <<>> /\ running = TRUE
    /\ connected = FALSE /\ lastRx = -1 /\ cached = <<>>
    /\ call = [c \in Callers |-> Idle]
    /\ earned = FALSE
    /\ justified = [c \in Callers |-> FALSE]

\* Every step lets the pending calls witness the state it leads to.
Witness == justified' = [c \in Callers |->
              /\ Pending(c)'
              /\ justified[c] \/ Fresh!Holds(call[c].op)']

(* Time and the daemon.                                                    *)

\* Scheduling assumption: a fragment that is readable, or in the reader's
\* hands, does not get older than MaxLag before it is stamped.
Prompt(s) == \A i \in DOMAIN s : now < s[i].at + MaxLag

Tick ==
    /\ now < MaxNow
    /\ Prompt(stream) /\ Prompt(wire)
    /\ reader = "stamp" => Prompt(cached)
    /\ now' = now + 1
    /\ UNCHANGED <<daemonVars, readerVars, running, call, earned>>

DaemonUp ==
    /\ daemon = "down"
    /\ daemon' = "up"
    /\ UNCHANGED <<now, conn, stream, readerVars, running, call, earned>>

\* One round's write() of a whole record to this client.
DaemonWrite ==
    /\ daemon = "up" /\ conn = "open"
    /\ Len(stream) + 2 <= BufCap
    /\ \E power \in BOOLEAN :
          stream' = stream \o <<Part(now, power, 1), Part(now, power, 2)>>
    /\ UNCHANGED <<now, daemon, conn, readerVars, running, call, earned>>

\* SIGTERM interrupts a blocked write(): the count is short but not negative,
\* and the daemon leaves its loop without writing again.
ShortWrite ==
    /\ daemon = "up" /\ conn = "open"
    /\ Len(stream) < BufCap
    /\ \E power \in BOOLEAN : stream' = Append(stream, Part(now, power, 1))
    /\ daemon' = "dying"
    /\ UNCHANGED <<now, conn, readerVars, running, call, earned>>

\* Another client that does not read blocks the broadcast, and lets it go on.
\* Only from connect() can this be told from a daemon with nothing to write.
Stall ==
    /\ daemon = "up" /\ reader = "connect"
    /\ daemon' = "stuck"
    /\ UNCHANGED <<now, conn, stream, readerVars, running, call, earned>>

Resume ==
    /\ daemon = "stuck"
    /\ daemon' = "up"
    /\ UNCHANGED <<now, conn, stream, readerVars, running, call, earned>>

\* The end of run_daemon(), or a crash: every client socket is closed.
DaemonExit ==
    /\ daemon # "down"
    /\ daemon' = "down"
    /\ conn' = IF conn = "open" THEN "hup" ELSE conn
    /\ UNCHANGED <<now, stream, readerVars, running, call, earned>>

-----------------------------------------------------------------------------
(* The reader thread: reader_loop(), try_connect(), disconnect().          *)

\* Mutant: the loop does not look at running_ while the socket is up.
SocketHeldForever ==
    /\ reader = "top" /\ conn # "none"
    /\ reader' = "poll"
    /\ UNCHANGED <<now, daemonVars, wire, connected, lastRx, cached, running,
                   call, earned>>

SocketHeld ==
    /\ reader = "top" /\ running /\ conn # "none"
    /\ reader' = "poll"
    /\ UNCHANGED <<now, daemonVars, wire, connected, lastRx, cached, running,
                   call, earned>>

TryConnect ==
    /\ reader = "top" /\ running /\ conn = "none"
    /\ reader' = "connect"
    /\ UNCHANGED <<now, daemonVars, wire, connected, lastRx, cached, running,
                   call, earned>>

\* connect() blocks: it gets a place in the daemon's listen queue at once, or
\* waits for the daemon to accept others.
Connected ==
    /\ reader = "connect" /\ daemon # "down"
    /\ conn' = "open" /\ stream' = <<>>
    /\ connected' = TRUE
    /\ reader' = "poll"
    /\ UNCHANGED <<now, daemon, wire, lastRx, cached, running, call, earned>>

ConnectFails ==
    /\ reader = "connect" /\ daemon = "down"
    /\ reader' = "sleep"
    /\ UNCHANGED <<now, daemonVars, wire, connected, lastRx, cached, running,
                   call, earned>>

Wake ==
    /\ reader = "sleep"
    /\ reader' = "top"
    /\ UNCHANGED <<now, daemonVars, wire, connected, lastRx, cached, running,
                   call, earned>>

\* Mutant: a silent socket is polled again whatever has been received.
PollTimeoutWaits ==
    /\ reader = "poll" /\ conn = "open" /\ stream = <<>>
    /\ reader' = "top"
    /\ UNCHANGED <<now, daemonVars, wire, connected, lastRx, cached, running,
                   call, earned>>

\* poll() sees nothing for 500 ms.  A record left half assembled then means
\* the stream is misaligned: drop the socket.
PollTimeout ==
    /\ reader = "poll" /\ conn = "open" /\ stream = <<>>
    /\ IF wire # <<>>
       THEN reader' = "drop" /\ wire' = <<>>
       ELSE reader' = "top" /\ wire' = wire
    /\ UNCHANGED <<now, daemonVars, connected, lastRx, cached, running, call,
                   earned>>

\* Mutant: got is not reset when the daemon hangs up.
PollGoneKeepsGot ==
    /\ reader = "poll" /\ conn = "hup"
    /\ reader' = "drop"
    /\ UNCHANGED <<now, daemonVars, wire, connected, lastRx, cached, running,
                   call, earned>>

\* POLLHUP or POLLERR wins over data that is still readable.
PollGone ==
    /\ reader = "poll" /\ conn = "hup"
    /\ reader' = "drop" /\ wire' = <<>>
    /\ UNCHANGED <<now, daemonVars, connected, lastRx, cached, running, call,
                   earned>>

PollReady ==
    /\ reader = "poll" /\ conn = "open" /\ stream # <<>>
    /\ reader' = "read"
    /\ UNCHANGED <<now, daemonVars, wire, connected, lastRx, cached, running,
                   call, earned>>

\* Mutant: read() asks for a whole record, whatever has been received.
ReadOverruns ==
    /\ reader = "read" /\ stream # <<>>
    /\ \E n \in 1 .. 2 :
          /\ n <= Len(stream)
          /\ wire' = wire \o SubSeq(stream, 1, n)
          /\ stream' = SubSeq(stream, n + 1, Len(stream))
    /\ reader' = IF Len(wire') < 2 THEN "top" ELSE "store"
    /\ UNCHANGED <<now, daemon, conn, connected, lastRx, cached, running,
                   call, earned>>

\* read() returns at least one fragment and at most what the record lacks.
Read ==
    /\ reader = "read" /\ stream # <<>>
    /\ \E n \in 1 .. 2 - Len(wire) :
          /\ n <= Len(stream)
          /\ wire' = wire \o SubSeq(stream, 1, n)
          /\ stream' = SubSeq(stream, n + 1, Len(stream))
    /\ reader' = IF Len(wire') < 2 THEN "top" ELSE "store"
    /\ UNCHANGED <<now, daemon, conn, connected, lastRx, cached, running,
                   call, earned>>

\* poll() or read() fails, or read() finds the end of the stream.
IoFails ==
    /\ reader \in {"poll", "read"}
    /\ reader' = "drop" /\ wire' = <<>>
    /\ UNCHANGED <<now, daemonVars, connected, lastRx, cached, running, call,
                   earned>>

\* cached_ = wire, under the exclusive lock.
Store ==
    /\ reader = "store"
    /\ \A c \in Callers : ~HoldsShared(c)
    /\ cached' = wire /\ wire' = <<>>
    /\ earned' = TRUE
    /\ reader' = "stamp"
    /\ UNCHANGED <<now, daemonVars, connected, lastRx, running, call>>

\* last_rx_us_ = monotonic_us(), after the lock is released.
Stamp ==
    /\ reader = "stamp"
    /\ lastRx' = now
    /\ reader' = "top"
    /\ UNCHANGED <<now, daemonVars, wire, connected, cached, running, call,
                   earned>>

\* disconnect(), first half: the socket is closed, connected_ = false.
Drop ==
    /\ reader = "drop"
    /\ conn' = "none" /\ stream' = <<>>
    /\ connected' = FALSE
    /\ reader' = "forget"
    /\ UNCHANGED <<now, daemon, wire, lastRx, cached, running, call, earned>>

\* Mutant: disconnect() leaves last_rx_us_ alone.
ForgetNothing ==
    /\ reader = "forget"
    /\ earned' = FALSE
    /\ reader' = "top"
    /\ UNCHANGED <<now, daemonVars, wire, connected, lastRx, cached, running,
                   call>>

\* disconnect(), second half: the age of this session's data is forgotten.
Forget ==
    /\ reader = "forget"
    /\ lastRx' = -1
    /\ earned' = FALSE
    /\ reader' = "top"
    /\ UNCHANGED <<now, daemonVars, wire, connected, cached, running, call>>

\* The destructor: the owner stops calling, clears running_, joins the reader
\* once it is back at the loop's head, and disconnects.
Destroy ==
    /\ running /\ \A c \in Callers : call[c].pc = "idle"
    /\ running' = FALSE
    /\ UNCHANGED <<now, daemonVars, readerVars, call, earned>>

Join ==
    /\ reader = "top" /\ ~running
    /\ reader' = IF conn = "none" THEN "joined" ELSE "drop"
    /\ wire' = <<>>
    /\ UNCHANGED <<now, daemonVars, connected, lastRx, cached, running, call,
                   earned>>

-----------------------------------------------------------------------------
(* The callers: is_connected() and is_power_on().                          *)

\* c's next step leaves it with this frame.
Goto(c, frame) ==
    /\ call' = [call EXCEPT ![c] = frame]
    /\ UNCHANGED <<now, daemonVars, readerVars, running, earned>>

\* is_connected() loads connected_ first; FALSE ends the call.
CallConnected(c) ==
    /\ call[c].pc = "idle" /\ running
    /\ Goto(c, Frame("connected", IF connected THEN "loadRx" ELSE "no", -1))

\* is_power_on() takes data_mutex_ shared.
CallPower(c) ==
    /\ call[c].pc = "idle" /\ running
    /\ Goto(c, Frame("power", "loadRx", -1))

\* get_data_age_ms() loads last_rx_us_ before it reads the clock.
LoadRx(c) ==
    /\ call[c].pc = "loadRx"
    /\ Goto(c, Frame(call[c].op, "readClock", lastRx))

\* Mutant: an unknown age is compared like any other.
DataCurrentUnchecked(rx) == now - rx <= StaleAfter

\* is_data_current(): an unknown age counts as not current.
DataCurrent(rx) == rx # -1 /\ now - rx <= StaleAfter

ReadClock(c) ==
    /\ call[c].pc = "readClock"
    /\ Goto(c, Frame(call[c].op,
                     IF ~DataCurrent(call[c].rx) THEN "no"
                     ELSE IF call[c].op = "power" THEN "readPower" ELSE "yes",
                     call[c].rx))

\* cached_.power_on, read under the lock taken at the start of the call.
ReadPower(c) ==
    /\ call[c].pc = "readPower"
    /\ Goto(c, Frame("power", IF Power(cached) THEN "yes" ELSE "no", -1))

Return(c) ==
    /\ call[c].pc \in {"yes", "no"}
    /\ Goto(c, Idle)

-----------------------------------------------------------------------------
ReaderStep ==
    \/ SocketHeld \/ TryConnect \/ Connected \/ ConnectFails \/ Wake
    \/ PollTimeout \/ PollGone \/ PollReady \/ Read \/ IoFails
    \/ Store \/ Stamp \/ Drop \/ Forget \/ Join

CallerStep(c) ==
    \/ CallConnected(c) \/ CallPower(c) \/ LoadRx(c) \/ ReadClock(c)
    \/ ReadPower(c) \/ Return(c)

DaemonStep ==
    DaemonUp \/ DaemonWrite \/ ShortWrite \/ Stall \/ Resume \/ DaemonExit

Next ==
    /\ \/ Tick \/ DaemonStep \/ ReaderStep \/ Destroy
       \/ \E c \in Callers : CallerStep(c)
    /\ Witness

Spec == Init /\ [][Next]_vars

\* The reader thread and the callers' threads are scheduled.  The exclusive
\* lock is granted if the shared holders leave it free again and again (the
\* C library hands the lock to a waiting writer when the last reader leaves).
\* connect() returns if again and again the daemon accepts or is gone (other
\* clients keep their sockets, and do not take every place that falls free);
\* of a daemon that does neither, nothing is asked.
Fairness ==
    /\ WF_vars(reader # "connect" /\ ReaderStep /\ Witness)
    /\ SF_vars(daemon \in {"up", "down"} /\ (Connected \/ ConnectFails) /\ Witness)
    /\ SF_vars(Store /\ Witness)
    /\ \A c \in Callers :
          WF_vars((LoadRx(c) \/ ReadClock(c) \/ ReadPower(c)) /\ Witness)

FairSpec == Spec /\ Fairness

-----------------------------------------------------------------------------
(* Properties.                                                             *)

\* The record the getters read was published in one piece: never the tail of
\* one record behind the head of another, whatever short reads, short writes
\* and reconnections came before.
CacheNeverTorn ==
    cached # <<>> =>
        \E at \in 0 .. now, power \in BOOLEAN :
            cached = <<Part(at, power, 1), Part(at, power, 2)>>

\* A session has a receive time only if it stored a record itself, and that
\* record was published at most MaxLag before: no age survives a teardown.
FreshnessEarned ==
    lastRx # -1 => earned /\ lastRx <= cached[1].at + MaxLag

\* Every answer TRUE of is_connected() and is_power_on() was right at some
\* instant of the call, across reconnections and racing stores.
AnswersEarned == Fresh!Spec

\* A record half received does not stay half received: the reader completes
\* it or gives the socket up.
PartialNeverLingers == wire # <<>> ~> wire = <<>>

\* No client keeps the daemon in a write() for ever, neither in its loop nor on
\* its way out.
DaemonMovesOn == daemon \in {"stuck", "dying"} ~> daemon \in {"up", "down"}

\* The destructor's join() returns, wherever the reader thread is, a connect()
\* that waits for the listen queue included, as long as the daemon moves on.
DestructorReturns == DaemonMovesOn => (~running ~> reader = "joined")
=============================================================================

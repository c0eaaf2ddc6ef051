------------------------------ MODULE BmsDaemon ------------------------------
(***************************************************************************)
(* bms_daemon serving SCUD485 records (src/bms_daemon.cpp, run_daemon()):  *)
(* one thread that polls the pack, broadcasts each record to every client  *)
(* with a blocking write(), accepts at most one client per loop, reopens   *)
(* the serial port after FailLimit failed reads, and leaves its loop on    *)
(* SIGTERM; systemd starts it again.                                       *)
(*                                                                         *)
(* Around it: the USB adapter, which can be unplugged (the descriptor the  *)
(* daemon holds is then dead for good), the pack, which can fall silent,   *)
(* and client processes, which connect, read, and leave.                   *)
(***************************************************************************)
EXTENDS Integers, Sequences

CONSTANTS
    Conns,      \* connections clients can hold, stale ones included
    Readers,    \* the connections whose client keeps reading
    Backlog,    \* the argument of listen()
    BufCap,     \* records a socket buffer holds before write() blocks
    FailLimit   \* failed reads in a row before the port is reopened

ASSUME DaemonAssumption ==
    /\ Readers \subseteq Conns
    /\ Backlog \in Nat /\ BufCap \in Nat \ {0} /\ FailLimit \in Nat \ {0}

VARIABLES
    pc,        \* where run_daemon() is; "dead" between two processes
    running,   \* g_running
    fd,        \* the serial descriptor: "closed", "good", or "dead"
    failures,  \* failure_count
    clients,   \* the vector of accepted sockets
    it,        \* the broadcast loop's iterator into it
    adapter,   \* the USB adapter is plugged in
    pack,      \* the pack answers
    pending,   \* connections the kernel holds in the listen queue
    peer,      \* peer[c]: "off", "on", or "gone" (closed, not yet noticed)
    buf,       \* buf[c]: records in the socket that the client has not read
    served     \* history: records written to c in this round

loopVars == <<pc, running, failures, clients, it>>
peerVars == <<pending, peer, buf>>
vars == <<loopVars, fd, adapter, pack, peerVars, served>>

Listening == pc \in {"loop", "send", "reopen", "accept", "pause"}
Listed(c) == \E i \in DOMAIN clients : clients[i] = c
Queued(c) == \E i \in DOMAIN pending : pending[i] = c
Nobody    == [c \in Conns |-> 0]

Init ==
    /\ pc = "open" /\ running = TRUE
    /\ fd = "closed" /\ failures = 0
    /\ clients = <<>> /\ it = 1
    /\ adapter \in BOOLEAN /\ pack \in BOOLEAN
    /\ pending = <<>>
    /\ peer = [c \in Conns |-> "off"] /\ buf = Nobody
    /\ served = Nobody

-----------------------------------------------------------------------------
(* The daemon.                                                             *)

\* SerialPort::open(): it works exactly when the adapter is there.
Opened == IF adapter THEN "good" ELSE "closed"

\* Mutant: the waiting loop does not look at g_running.
OpenWaits ==
    /\ pc = "open"
    /\ fd' = Opened /\ pc' = IF adapter THEN "setup" ELSE "nap"
    /\ UNCHANGED <<running, failures, clients, it, adapter, pack, peerVars,
                   served>>

Open ==
    /\ pc = "open"
    /\ IF running
       THEN fd' = Opened /\ pc' = IF adapter THEN "setup" ELSE "nap"
       ELSE fd' = "closed" /\ pc' = "dead"
    /\ UNCHANGED <<running, failures, clients, it, adapter, pack, peerVars,
                   served>>

Nap ==
    /\ pc = "nap"
    /\ pc' = "open"
    /\ UNCHANGED <<running, failures, clients, it, fd, adapter, pack, peerVars,
                   served>>

\* The version read changes no state; then socket(), bind(), listen().
Setup ==
    /\ pc = "setup"
    /\ IF running THEN pc' = "loop" /\ fd' = fd
                  ELSE pc' = "dead" /\ fd' = "closed"
    /\ UNCHANGED <<running, failures, clients, it, adapter, pack, peerVars,
                   served>>

Answers == fd = "good" /\ pack

ReadOk ==
    /\ pc = "loop" /\ running /\ Answers
    /\ failures' = 0
    /\ it' = 1 /\ served' = Nobody
    /\ pc' = "send"
    /\ UNCHANGED <<running, clients, fd, adapter, pack, peerVars>>

\* Silence, or an error from a closed or dead descriptor.
ReadFails ==
    /\ pc = "loop" /\ running /\ ~Answers
    /\ IF failures + 1 < FailLimit
       THEN failures' = failures + 1 /\ pc' = "accept" /\ fd' = fd
       ELSE failures' = failures /\ pc' = "reopen" /\ fd' = "closed"
    /\ UNCHANGED <<running, clients, it, adapter, pack, peerVars, served>>

\* Mutant: the port is closed and not opened again.
ReopenForgotten ==
    /\ pc = "reopen"
    /\ failures' = 0
    /\ pc' = "accept"
    /\ UNCHANGED <<running, clients, it, fd, adapter, pack, peerVars, served>>

\* The port stays closed for a second; the result of open() is ignored.
Reopen ==
    /\ pc = "reopen"
    /\ fd' = Opened /\ failures' = 0
    /\ pc' = "accept"
    /\ UNCHANGED <<running, clients, it, adapter, pack, peerVars, served>>

\* write() to a client that is there: it waits while the socket is full.
Write ==
    /\ pc = "send" /\ it <= Len(clients)
    /\ LET c == clients[it] IN
          /\ peer[c] = "on" /\ buf[c] < BufCap
          /\ buf' = [buf EXCEPT ![c] = @ + 1]
          /\ served' = [served EXCEPT ![c] = @ + 1]
    /\ it' = it + 1
    /\ UNCHANGED <<pc, running, failures, clients, fd, adapter, pack, pending,
                   peer>>

\* Mutant: the iterator is advanced after erase() too.
WriteFailsSkips ==
    /\ pc = "send" /\ it <= Len(clients)
    /\ LET c == clients[it] IN
          /\ peer[c] = "gone"
          /\ peer' = [peer EXCEPT ![c] = "off"]
          /\ buf' = [buf EXCEPT ![c] = 0]
    /\ clients' = SubSeq(clients, 1, it - 1)
                  \o SubSeq(clients, it + 1, Len(clients))
    /\ it' = it + 1
    /\ UNCHANGED <<pc, running, failures, fd, adapter, pack, pending, served>>

\* Mutant: the socket is closed and stays in the vector.
WriteFailsCloses ==
    /\ pc = "send" /\ it <= Len(clients)
    /\ LET c == clients[it] IN
          /\ peer[c] = "gone"
          /\ peer' = [peer EXCEPT ![c] = "off"]
          /\ buf' = [buf EXCEPT ![c] = 0]
    /\ it' = it + 1
    /\ UNCHANGED <<pc, running, failures, clients, fd, adapter, pack, pending,
                   served>>

\* Mutant: the error is ignored.
WriteFailsIgnored ==
    /\ pc = "send" /\ it <= Len(clients)
    /\ peer[clients[it]] = "gone"
    /\ it' = it + 1
    /\ UNCHANGED <<pc, running, failures, clients, fd, adapter, pack, peerVars,
                   served>>

\* write() to a client that has left fails: close() and erase().
WriteFails ==
    /\ pc = "send" /\ it <= Len(clients)
    /\ LET c == clients[it] IN
          /\ peer[c] = "gone"
          /\ peer' = [peer EXCEPT ![c] = "off"]
          /\ buf' = [buf EXCEPT ![c] = 0]
    /\ clients' = SubSeq(clients, 1, it - 1)
                  \o SubSeq(clients, it + 1, Len(clients))
    /\ UNCHANGED <<pc, running, failures, it, fd, adapter, pack, pending,
                   served>>

SendDone ==
    /\ pc = "send" /\ it > Len(clients)
    /\ it' = 1
    /\ pc' = "accept"
    /\ UNCHANGED <<running, failures, clients, fd, adapter, pack, peerVars,
                   served>>

\* Mutant: the accepted socket is not added to the vector.
AcceptForgets ==
    /\ pc = "accept"
    /\ pending' = IF pending = <<>> THEN pending ELSE Tail(pending)
    /\ pc' = "pause"
    /\ UNCHANGED <<running, failures, clients, it, fd, adapter, pack, peer, buf,
                   served>>

\* select() with 10 ms, then at most one accept().
Accept ==
    /\ pc = "accept"
    /\ IF pending = <<>> THEN UNCHANGED <<clients, pending>>
       ELSE clients' = Append(clients, Head(pending)) /\ pending' = Tail(pending)
    /\ pc' = "pause"
    /\ UNCHANGED <<running, failures, it, fd, adapter, pack, peer, buf, served>>

Pause ==
    /\ pc = "pause"
    /\ pc' = "loop"
    /\ UNCHANGED <<running, failures, clients, it, fd, adapter, pack, peerVars,
                   served>>

\* The end of the loop: every client and the listen queue are closed.
Shutdown ==
    /\ pc = "loop" /\ ~running
    /\ clients' = <<>> /\ pending' = <<>> /\ it' = 1
    /\ peer' = [c \in Conns |-> "off"] /\ buf' = Nobody
    /\ fd' = "closed"
    /\ pc' = "dead"
    /\ UNCHANGED <<running, failures, adapter, pack, served>>

\* systemd's Restart=always.
Restart ==
    /\ pc = "dead"
    /\ pc' = "open" /\ running' = TRUE
    /\ failures' = 0 /\ served' = Nobody
    /\ UNCHANGED <<clients, it, fd, adapter, pack, peerVars>>

-----------------------------------------------------------------------------
(* Everything around it.                                                   *)

Terminate ==
    /\ pc # "dead" /\ running
    /\ running' = FALSE
    /\ UNCHANGED <<pc, failures, clients, it, fd, adapter, pack, peerVars,
                   served>>

Plug ==
    /\ adapter' = ~adapter
    /\ fd' = IF adapter /\ fd = "good" THEN "dead" ELSE fd
    /\ UNCHANGED <<loopVars, pack, peerVars, served>>

PackToggles ==
    /\ pack' = ~pack
    /\ UNCHANGED <<loopVars, fd, adapter, peerVars, served>>

Connect(c) ==
    /\ Listening /\ peer[c] = "off" /\ Len(pending) <= Backlog
    /\ peer' = [peer EXCEPT ![c] = "on"]
    /\ pending' = Append(pending, c)
    /\ UNCHANGED <<loopVars, fd, adapter, pack, buf, served>>

PeerReads(c) ==
    /\ peer[c] = "on" /\ buf[c] > 0
    /\ buf' = [buf EXCEPT ![c] = @ - 1]
    /\ UNCHANGED <<loopVars, fd, adapter, pack, pending, peer, served>>

Leave(c) ==
    /\ peer[c] = "on"
    /\ peer' = [peer EXCEPT ![c] = "gone"]
    /\ buf' = [buf EXCEPT ![c] = 0]
    /\ UNCHANGED <<loopVars, fd, adapter, pack, pending, served>>

-----------------------------------------------------------------------------
DaemonStep ==
    \/ Open \/ Nap \/ Setup \/ ReadOk \/ ReadFails \/ Reopen
    \/ Write \/ WriteFails \/ SendDone \/ Accept \/ Pause \/ Shutdown

Next ==
    \/ DaemonStep \/ Restart \/ Terminate \/ Plug \/ PackToggles
    \/ \E c \in Conns : Connect(c) \/ PeerReads(c) \/ Leave(c)

Spec == Init /\ [][Next]_vars

\* The daemon's thread is scheduled, systemd restarts it, and the Readers
\* keep reading.  Nothing makes the adapter, the pack or a client appear.
FairSpec ==
    /\ Spec
    /\ WF_vars(DaemonStep) /\ WF_vars(Restart)
    /\ \A c \in Readers : WF_vars(PeerReads(c))

-----------------------------------------------------------------------------
(* Properties.                                                             *)

\* A broadcast writes each client's record exactly once, although clients are
\* erased from the vector it walks: those behind the iterator have theirs,
\* those ahead do not.
ServedOnce ==
    pc = "send" =>
        \A i \in DOMAIN clients :
            served[clients[i]] = IF i < it THEN 1 ELSE 0

\* The sockets the daemon and the kernel hold are exactly the connections
\* that exist, each of them once: none leaks, none is used after close().
NoSocketLeaks ==
    /\ \A c \in Conns : peer[c] # "off" <=> Listed(c) \/ Queued(c)
    /\ \A c \in Conns : ~(Listed(c) /\ Queued(c))
    /\ \A i, j \in DOMAIN clients : clients[i] = clients[j] => i = j
    /\ \A i, j \in DOMAIN pending : pending[i] = pending[j] => i = j

Healthy == adapter /\ pack /\ running

\* The self-healing reconnection: once the adapter and the pack are back for
\* good, every client that stays and reads is fed again and again, whatever was
\* unplugged in between: it leaves the listen queue, and no other client keeps
\* the records from it.
FedForever ==
    <>[]Healthy =>
        \A c \in Readers : []<>(buf[c] > 0 \/ peer[c] # "on")

\* Then the socket of a client that has left is closed eventually.
DeadClientsReaped ==
    <>[]Healthy => \A c \in Conns : []<>(peer[c] # "gone")

\* SIGTERM ends the process, wherever it hits.
StopsOnTerm == ~running ~> pc = "dead"
=============================================================================

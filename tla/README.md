# Verification of bms_daemon and its drivers

TLA+ models of the battery management daemon, its protocols and its client
drivers, the TLC runs that check them, and TLAPS proofs of the results that
hold for every value of the constants. `PROJECT.json` maps each definition to
the source lines it models.

    tlc -config ScudClient.cfg ScudClient        # one run; see the table below
    tlapm ScudClientProofs.tla                   # one proof module

## 1. The system

A battery pack hangs on a serial bus, a CAN bus or a power board. The process
`bms_daemon`, started by systemd, polls the pack and broadcasts a packed
`BatteryStatus` record to every client of a Unix stream socket. A robot process
links a *client driver*: a reader thread that keeps a connection to the daemon
and caches the last record, and getters that the robot's threads call. CAN and
nRF packs are read in the robot process itself, without a daemon. A Python
script replaces the pack's firmware over the same serial port.

    pack <--RS-485--> SerialPort <- Protocol <- run_daemon ==socket==> ScudBmsDriver <- callers
    pack <--CAN-----> SocketCAN  -> GfCanBmsDriver <- callers, run_can_daemon
    board <-UART----> NrfPmicDriver (poll thread + callers)
    pack <--RS-485--> bms_ota.py

| component | state | operations | interacts through |
|---|---|---|---|
| `run_daemon` (`bms_daemon.cpp`) | `g_running`, client vector, `failure_count`, last record | open, poll, broadcast, accept, reopen, shut down | serial port, client sockets, SIGTERM, systemd |
| SCUD485 transactions (`ScudBmsProtocol`) | receive buffer; none of its own between calls | `send_query`, `query_0x61/0x31`, `read_all`, `read_version_info` | serial bytes |
| SCUD485 parser (`read_frame`) | stage, payload, CRC bytes | one step per byte | serial bytes, deadline |
| SCUD485 client (`ScudBmsDriver`) | socket, `running_`, `connected_`, `last_rx_us_`, `cached_`, the reader's `wire`/`got` | `reader_loop`, `try_connect`, `disconnect`, getters, destructor | socket to the daemon, `data_mutex_`, atomics |
| TWS / GF485 protocol | none between calls | Modbus requests, 2 to 4 per round | serial bytes |
| TWS / GF485 client | socket, `cached_` | as SCUD485, without accumulation or freshness | socket, lock |
| `SocketCAN` | callback table, receiver thread | register, remove, dispatch, close | CAN socket, `callback_mutex_` |
| `GfCanBmsDriver` | `cached_` | one parser per frame id | callbacks, lock |
| `NrfPmicDriver` | `status_`, `cached_`, poll thread | AT commands | UART, shared by two threads |
| `bms_ota.py` | receive buffer, packet index | request, metadata, blocks, verification, all with retries | serial bytes |
| systemd units | process alive or not | `Restart=always` after 5 s, 10 s before start | process exit |
| `SerialPort` | descriptor | open, close, flush, raw read and write | the adapter, which can be unplugged |
| factory, Python binding | none | | |

What is hard here: the socket is a byte stream without framing, so a short read
or write misaligns it; the reader thread and the callers share four variables
under one lock and three atomics; frames carry no sequence number, so a late
reply is indistinguishable from the awaited one; the staleness limit is set
against a sum of sleeps and timeouts; the daemon is one thread with blocking
writes; processes and adapters come and go. `PROJECT.json` lists the hazards
line by line.

What makes each component correct:

- *client*: the cached record was published in one piece; an answer TRUE was
  true at some instant of the call; a reconnection starts without an age; the
  reader gets on, and the destructor returns, unless the daemon never accepts;
- *transactions*: no reply is used twice or out of order; a record holds its
  own round's values;
- *parser*: what is accepted is a whole frame with a right CRC; a frame that
  arrives is found, unless a damaged one of its kind has taken it for its own;
- *daemon*: each broadcast serves each client once; no socket leaks; after any
  failure, service resumes; SIGTERM ends it;
- *timing*: one missed round is tolerated, a dead bus is noticed;
- *TWS/GF*: no field goes back in time or is filled from another one's
  registers; a quiet line restores the pairing of requests and replies;
- *CAN*: the callback table names no driver that is gone, and all of one that
  nobody has disturbed; `work_state` is the merge of the newest frames;
- *nRF*: a report reaches the cache whole and never replaces a newer one;
- *update*: every block is written once and in order, and success is reported
  only if the pack holds the whole image and, where the version before could be
  read, runs another one.

## 2. Modules

| module | models |
|---|---|
| `Freshness` | what `is_connected()` and `is_power_on()` promise (abstract) |
| `ScudClient` | `ScudBmsDriver` with its daemon and callers; implements `Freshness` |
| `ScudClientProofs` | its invariants, and that refinement, proved |
| `PollTiming`, `PollTimingProofs` | the time budget of polling loop and staleness limit |
| `BmsDaemon`, `BmsDaemonProofs` | `run_daemon` (snapshot branch), systemd, adapter, clients |
| `ScudBus` | SCUD485 transactions with late and lost replies |
| `ScudFrame`, `ScudFrameMC` | `read_frame` byte by byte |
| `ScudProtocolProofs` | the order of records, the framing and both checksums, proved |
| `CarryForward` | what the records of a TWS or GF485 pack promise (abstract) |
| `ModbusRound`, `ModbusRoundProofs` | TWS and GF485 transactions, and the branch of `run_daemon` that carries fields forward; implements `CarryForward` |
| `Crc16`, `Crc16Check` | both checksums against polynomial division |
| `CanDispatch`, `CanDispatchProofs` | `SocketCAN`, `GfCanBmsDriver`, `run_can_daemon` |
| `NrfPmic`, `NrfPmicProofs` | `NrfPmicDriver`: two threads on one port |
| `OtaTransfer`, `OtaTransferProofs` | `bms_ota.py` against a bootloader |

A module whose behaviour is another one's environment repeats of it only what
can be observed: `ScudClient` sees of the daemon its writes and its end,
`BmsDaemon` sees of a transaction that it succeeds or fails and of a client that
it reads or leaves. What is left to do: to give `BmsDaemon` the
carried record of `ModbusRound`, which would add that a client connected for long
enough has seen each field.

### ScudClient

`reader` is the point of `reader_loop()` the thread is at; each action runs to
the next point at which another thread can be observed: a system call, the
lock, or one access to an atomic. `disconnect()` is two actions (`Drop`,
`Forget`) because `connected_` and `last_rx_us_` are stored one after the
other; storing a record is two (`Store`, `Stamp`) because the time is taken
after the lock is released. `wire` is the record under assembly (`got` is its
length), `stream` what the socket holds. A record is two fragments, so that a
short read or write leaves half a record; more fragments would only add
positions at which to cut. A fragment carries the tick of its publication and
the power bit.

The callers run `is_connected()` and `is_power_on()` one load at a time; a
frame `call[c]` holds the call, the point it is at and the receive time it has
loaded. `is_power_on()` holds `data_mutex_` shared from its first to its last
step (`HoldsShared`), and `Store` needs it free.

The daemon is seen from the client only: it writes whole records, may be killed
anywhere, and may leave half a record behind when a signal interrupts a write
(`ShortWrite`). `conn` is "hup" once the daemon closed its end. `poll()` and
`read()` may also fail (`IoFails`).

`connect()` blocks (`TryConnect`, then `Connected` or `ConnectFails`): a listen
queue with room, or a daemon that is gone, ends it at once, but while the queue is
full it waits for the daemon to accept. In between the daemon may sit in a
`write()` to another client (`Stall`, `Resume`), and then nothing obliges
`connect()` to return.

*Assumption* `DaemonMovesOn`: a daemon that sits in such a write gets out of it
some day, or ends. It is the antecedent of `DestructorReturns`, because it is not
the driver's to guarantee: if another client stops reading for good (the run
`bms_daemon_stalled`) and five connections fill the queue, the reader thread stays
in `connect()`, where no `running_` reaches it, and `join()` never returns. Without
the antecedent TLC shows this behaviour.

`earned` and `justified` are history variables: the session stored a record
itself; TRUE was right at some instant of the call in progress. Through the
mapping in `Fresh == INSTANCE Freshness WITH ...` the driver's session, record
and calls are those of `Freshness`, in which "yes" needs a witness.

*Assumption* `MaxLag`: a record that is readable is stamped within `MaxLag`
ticks. Without it no bound on the age since publication exists, because the
driver stamps the time of receipt. It is a scheduling assumption, made by the
guard of `Tick`, and appears in the results as `Window <- StaleAfter + MaxLag`
and in `FreshnessEarned`.

### PollTiming

One variable, `age`, adds up what each stage of the loop takes, in
milliseconds: 10 ms before each query, up to 300 ms for it, up to 10 ms for
`select()`, 1 s at the end of the loop, 1 s when the port is reopened.
`BudgetAssumption` says that two loops and three queries fit into the limit; the
defaults leave 50 ms of it for `Lag`. `NoticeAssumption` says that four pauses
and three queries exceed it, at their quickest: with the defaults 4030 ms against
3000 ms and `Lag`. A blocked broadcast is outside this model (it has its own
finding).

### BmsDaemon

`pc` follows `run_daemon()`; a broadcast is one step per client, with the
iterator `it`. `peer`, `buf` and `pending` are the kernel's side of each
connection: "gone" is a client that has closed and that the daemon has not
noticed. `Write` blocks while a client's buffer is full, and
`WriteFails` closes and erases. A dead adapter leaves the descriptor "dead"
until it is closed. `signal()` installs the handler with restart semantics, so
SIGTERM does not end a blocked write. That a write to a closed socket fails
instead of killing the process relies on systemd's `IgnoreSIGPIPE`, which is on
by default and which `bms.service` leaves on: the code does not ignore SIGPIPE.
Failing `socket()`, `bind()` or `listen()` end the process as SIGTERM does and
are not modelled separately.

### ScudBus

Queries are numbered by a history variable; a reply bears the number of its
query, which the code cannot see. `Flush`, the pause and the write are separate
because a late reply may arrive between them. The pack answers in order, late
or never. A frame of the wrong command is dropped (`Skip`), the first of the
right command is taken. The steps "return" and "failed" are what `read_all()`
returns, TRUE or FALSE, and that alone decides whether `Return` publishes; a 0x31
query that fails does not make it FALSE. `Restart` is the daemon's death at any point; the 15 s
until the next query outlive any reply.

### ScudFrame, Crc16

One action per stage of the `switch`; `Resync` is where the scan resumes.
`Lines` are the byte sequences one query may see. `ExpectLen` is 2 instead of 28
and 38: the automaton compares the length with one number only. The branch for a
length of 0 is unreachable with these lengths. The checksum is a parameter,
`Checksum`: nothing about the automaton depends on which one it is. The run gives
it the value `Crc16Ccitt`. `ChecksumAssumption` says that it has two bytes, as a
`uint16_t` does.

In `Crc16` a word is the set of its bits that are 1, so that an exclusive or is a
symmetric difference and a shift moves elements. `Crc16Step` is the loop body of
`crc16_ccitt()` with its 16-bit truncations, `ModbusStep` that of
`calculate_crc()` with its two tables, which TWS and GF485 have both. The
references, `Remainder` and `ReflectedRemainder`, are the textbook divisions of
polynomials over GF(2), one bit at a time, and share nothing with them.
`Crc16Check` runs code and references side by side over a message that arrives
byte by byte; `TablesAssumption` states of each of the 256 table entries that it is
what the division leaves of its index.

### ModbusRound, CarryForward

A query is four steps: the flush, the write, `read_response()` turn by turn, and
the verdict. The flush and the pieces of a reply are separate because a flush
may fall into the middle of one. A reply carries its query's number and kind,
which the code cannot see: it compares the length, and the CRC, which only the
bytes of one reply have (`whole`). A reply of another kind but the same length is
taken, as in the code: version, cycles and IO state of TWS have 9 bytes.
`read_version_info()` is a plan of its own before the loop; its result is only
logged, from a record that is not initialised (`Indeterminate`).

A group is what one query fills: `basic` (voltage, current, ...), `capacity`,
`io`. `sent` is `status_to_send`, `raw` is `raw_data`, and `Merged` copies what
succeeded. `CarryForward` says what comes of it without queries and replies: a
record moves some group forward and none back, and a restarted daemon begins
with zeros, which it does broadcast for the groups that keep failing. The copy of
cell extremes at `bms_daemon.cpp:143` is never taken by these two packs, whose
`read_io_state()` does not set them, and is left out.

### CanDispatch

The receiver's look at the table (`Fetch`) and the call (`Call`) are two steps,
since the lock is released in between. Constructors and destructors take one step
per id; no two of them overlap, because the daemon has one thread and Python's
interpreter lock keeps the others apart, which is also what keeps the unlocked
map of `SocketCAN::get_instance()` whole. A call into a driver that is gone is
undefined: `intact` may become FALSE, and then nothing is claimed any more. The
receiver gets there if it had fetched the call before the destructor removed the
id; the code does nothing against it, and no property says that it cannot happen.

A driver's constructor may throw, if there is no such interface: then nothing has
changed, and `run_can_daemon()`, which does not catch, ends (`DaemonStartFails`).
A driver made over another one takes all its entries, and the end of either one
removes both's; `UnmovedIsServed` is what remains to the daemon's driver: every id
until another driver comes or goes.

Of the fourteen frame ids there are the three that share `work_state`, and one for
those whose fields are assigned whole. Of `work_state` there is one bit of each
part, and the third bit of the MOS state, which is shifted out of the `uint16_t`.

### NrfPmic

Each thread is at a point of `send_and_read()`, `read_line()` or
`parse_response()`; the port's input, `status_` and what the board has still to
say are shared. A line is two fragments: its head, with the prefix that decides
what the line is, and its tail, with its end. `Read` takes all input and drops
what is behind the first end of line, `Timeout` forgets half a line, and a number
that was cut may make `stod()` or, in an ADC reply, `stoi()` throw, which ends the
process (`alive`): nothing catches, and no property says that it lives. So may the
first text assigned to a string that `memset()` has zeroed. `shared` marks a call
during which the other thread was busy too; what is claimed of lines and records
is claimed of the others.

### OtaTransfer

One action writes a frame, one reads the answer or its deadline, for each phase
of `run()`; `attempt` and `pkt` are the loop variables. `MetadataVerdict`,
`PacketDone`, `KeepWaiting` and `Report` are the decisions on an answer, in the
order of the code. `rx` is the serial input followed by `rx_buffer`, which are
flushed together where the code flushes either. `SkipLate` is the branch for a
late answer of another command. `Rerun` is the script killed at any point (or
finished) and started again by hand; `IoError` is its `except` clause.

The pack is external and is what the script takes it for: it handles commands
in order, asks for the block after the last one written, may still be writing
when it answers, may be busy, fail, stay silent, erase for several rounds, or
remember a partial image; with the whole image it restarts, into the new
application or back into the old one. It does not lose power during the
transfer, and it does not erase an image it holds complete.

*Assumption*: `BootWait`'s guard says that the 10 s sleep outlives whatever the
pack had left to take, write and answer. Without it answers of a killed run
would be taken for those of the next: there is nothing else to tell them apart,
as the mutant `BootAtOnce` shows. `faults` counts, during the transfer, frames
lost, busy and error answers, and deadlines that pass over an answer still on
its way. `SurvivesTwoFaults` excepts a pack that has restarted, because the
last acknowledgement can always be lost.

## 3. Runs

| run | shows | bounds |
|---|---|---|
| `scud_client` | record integrity, freshness, refinement of `Freshness`, progress | 1 caller, clock to 3, 3 fragments in the socket |
| `poll_timing_budget` | one miss tolerated, three noticed | the defaults of the code, in ms; replies after 0, 100 or 300 ms; 6 misses in a row |
| `ota_transfer` | index and bootloader in step, honest success, retries that suffice, termination | 3 blocks, 4 frames outstanding at a deadline, 2 runs |
| `bms_daemon` | exactly-once broadcast, no leak, recovery, termination | 3 connections, queue of 2, 1 record per buffer, reopening after 2 failures |
| `bms_daemon_stalled` | *violated*: one silent client starves the other | 2 connections, 1 reader |
| `scud_bus_order` | replies used once and in order | 6 queries, 3 unanswered |
| `scud_bus_round` | *violated*: an older round's reply is published | the same |
| `modbus_round` | replies used once, fields never go back or wander, refinement of `CarryForward` | both packs, 7 queries, 4 unanswered, reopening after 2 failures |
| `crc16` | both checksums are what they are meant to be | any first byte, 11 bytes after it, messages of up to 3 |
| `scud_frame_noise` | accepted frames are whole, only covered ones are missed | any two of 17 noises, with or without a frame behind them |
| `can_dispatch` | the table names the living, an undisturbed driver is served, `work_state` is exact, the daemon ends | 2 drivers, 4 frames, 2 reads without a voltage |
| `nrf_pmic` | what two threads on one port can and cannot spoil, the destructor returns | 3 lines, 4 fragments sent and not read |

Why the bounds are enough.
*Update*: three blocks are a first, a middle and a last one, and a killed run can
leave the pack two ahead of the next run; four frames outstanding exceed the
three attempts of a block. The attempt limits are those of the code.
*Client*: staleness needs two ticks past the limit, a second session one more
record; three fragments in the socket and one in the reader's hands are two
records, so that every read can end inside or across a record. Callers do not
write anything the reader or another caller reads, except the shared lock, so
one caller meets every interleaving that the safety properties speak of.
*Daemon*: with three connections one can be erased in front of, at, and behind
another; one record per buffer makes writes block at once; two failures
separate "not yet" from "reopen".
*Bus*: six queries are three rounds with backfill; three unanswered ones let a
reply be late by a round and a half.
*Modbus*: seven queries are the three at the start, a whole round, and one query of
the next; four unanswered ones let a reply be late by more than the round, which
is when it can meet a request of its own length.
*CRC*: either register is a linear function of the message, so single bits and
their sums decide it; the bytes contain each single bit, and every first byte
takes every entry of the tables. That longer messages add nothing is proved.
*Frames*: every noise leaves the automaton in a different stage when the next
piece begins.
*CAN*: two drivers suffice to take each other's entries, and one can follow the
other; four frames are the three of `work_state` and one that is out of order.
*nRF*: three lines are a report of the caller's command and two of the poll
thread's; four fragments let a whole line wait behind another one.

Where a run allows deadlock, the message has reached its bound (`crc16`), the
script has ended and is not run again (`ota_transfer`), or the process has ended
or come to harm (`can_dispatch`, `nrf_pmic`); everywhere else deadlock is checked.

**Fairness.** `ScudClient`: the reader thread and the callers' threads are
scheduled (WF), and the exclusive lock is granted if the shared holders leave it
free again and again (SF on `Store`): the C library hands the lock to a waiting
writer when the last reader leaves. With two or more callers whose calls overlap
for ever the lock may never be free, and nothing is claimed. The daemon is
under no fairness: it may stay away, or silent, for ever. `connect()` is the one
step of the reader that waits for the daemon: it returns if the daemon is, again and
again, up and not in a write, or gone (SF), since each loop then accepts one of those
who wait. A daemon that stays in a write is excluded by the antecedent
`DaemonMovesOn` of `DestructorReturns`, not by fairness.
`BmsDaemon`: the daemon's thread is scheduled, systemd restarts it, and clients
in `Readers` read what they are sent; nothing makes the adapter, the pack or a
client come back, so the liveness properties assume `<>[]Healthy`.

`OtaTransfer`: the script's reads return at their deadline, and commands do not
stay on the wire (they are taken or lost); a run may end early on an I/O error
but need not.
`CanDispatch`: the threads are scheduled; the receiver finds its socket empty
again and again (SF), which is when it looks at `receiving_`; and whoever else
has a driver on the interface lets go of it some day (SF), without which the
socket is not closed.
`NrfPmic`: the poll thread is scheduled, and `join()` returns when it is over.
Nothing is asked of the board or the callers, and nothing is claimed of a command's
end: a board that never stops talking keeps `send_and_read()` reading.

**Disagreements found** (each a violated run, quoted in `PROJECT.json`):

1. A client that stops reading blocks the daemon for everyone
   (`bms_daemon.cpp:167`; README: "multiple clients ... simultaneously"), and may
   block the destructor of a driver that is in `connect()` (see ScudClient).
2. A record may hold an older round's values (README: "never mixes in values
   from an older round"): a reply later than its deadline is taken by the next
   query. `StaleOnlyIfLate` shows that this is the only way.

**Also seen**, without a run:

- A SCUD485 frame cut behind its length byte hides the next one, which the
  comment on `read_frame` excludes and `OnlyCoveredIsMissed` excepts; at one query
  per second it costs one round.
- The comment at `kDataStaleMs` speaks of three missed records; two misses, at
  the slowest, are already stale. `ThreeMissesSeen` is its sound direction.
- The comment on `crc16_ccitt` names polynomial 0x1201; it is 0x1021.
- README: "a 50ms delay between commands". There is none between the last query
  at the start and the first of the loop.
- `BMS_11` has three MOS bits, of which the `uint16_t` holds two; `BMS_10` clears
  what `BMS_11` has set; `BMS_1` can set bits of the upper byte but not clear them.
  `WorkStateIsLatest` is what holds nevertheless.
- A `select()` that fails ends the CAN receiver without notice, and
  `is_connected()` of the CAN driver, as that of the nRF driver, never turns
  FALSE while the object lives.
- GF485 asks at its start for health and cycles in replies of one length, so that
  a late one is logged as the other.

## 4. Proofs

`ScudClientProofs` proves, for every set of callers, buffer size, lag and
staleness limit (`ClientAssumption`), that `TypeOK`, `CacheNeverTorn` and
`FreshnessEarned` are invariants. None is inductive: that the cache is whole
depends on what is half assembled, and that on what is still in the socket.
The invariant `IInv` adds

- `SessionInv`: socket, `connected_` and the reader's position agree, and a
  reader without a socket holds no bytes and no age, except halfway through
  `disconnect()`;
- `WireInv`: what is in the reader's hands starts at a record boundary;
- `StreamInv`: the socket continues it fragment by fragment, so that any
  split of any read keeps the boundary;
- `WholeInv`: a daemon that can still write has written whole records only, so
  that its next record continues the stream (only the last write of a process
  is short);
- `LagInv`: fragments are not older than `MaxLag` before they are stamped;
- `CacheInv`: the cache holds a whole record or the initial zeros.

`ReadInv` is the heart: one `read()`, however it is cut, keeps the boundary.
The proof of the step has one case per action.

The second part proves that `ScudClient` implements `Freshness`. A TRUE is
put together from loads of different moments, and the invariant has to know at
each of them what the call has already witnessed: with `connected_` seen and a
receive time loaded, that the data were current at some instant of the call, or
that the time is too old to say yes (`ConnectedInv`); with the lock held, that the
record to be read is the one the age was taken of (`PowerInv`). Halfway through
`disconnect()` the age outlives its session, and `ConnectedInv` is what keeps it
harmless. `OrderInv` (cache, hands and socket hold records in the order of their
publication) makes a newer record replace an older one in the abstract state.

`PollTimingProofs` proves that one missed round is tolerated for every choice of
pauses and timeouts with `BudgetAssumption`; `AgeBound` gives the largest age at
each stage, and `failures <= missed` keeps the reopening pause out of the first
miss. With `NoticeAssumption`, `AgeFloor` gives the least age, and three misses
are always noticed.

`BmsDaemonProofs` proves `NoSocketLeaks` and `ServedOnce` for any number of
clients, any backlog and any buffer. `Accounted` says that the client vector and
the listen queue name nobody twice and nobody together, and `ServedOnce` rests on
it: a write marks one element only because no other is the same descriptor.
`Erase` is the lemma about `clients.erase(it)`: what was behind the iterator is
under it afterwards.

`ScudProtocolProofs` proves, of `ScudBus`, the three order properties for any number
of queries and any lateness. Replies on their way are in the order of their queries and are all
`Ahead` of everything taken so far, in the round, in its extremes and in the
record; `RoundInv` says what a round has at each step (a `read_all()` that succeeds has
taken a reply), and that what a calm round meets is its own, which `TakesItsOwn`
carries to its end. Of `ScudFrame` it proves `AcceptedIsAFrame`, for every set of
lines of bytes, every command below FE, every length and every checksum. The scan
keeps no record of where its frame began, so the invariant says at each stage what
stands before the byte just taken: the heads (`Heads`), then the whole header and
the part of the payload collected so far (`Contents`). That it holds wherever the
scan resumes is what the fall-backs of each stage have to be right for. The other
direction is `OnlyCoveredIsMissed`, also for every line: a target frame that has come
by is accepted, unless it begins inside what an earlier header of the same command and
length takes for its payload and checksum. `FollowInv` says where each target that has
begun is: covered by such a header, or just as many bytes into the scan as have been
taken of it (`Following`). When its first byte comes the scan is either behind a
header that covers it or at a stage that falls back to the heads (`FollowStart`), and
each further byte leads one byte on (`FollowStep`): another FE keeps the scan where it
is, so that no run of them does harm.

Its third part proves `IsXmodem` and `IsModbus` for messages of any length. One turn
of the code's loop does what eight steps of the division do, from every state of the
register, and that is shown bit by bit. `XmodemStep` writes out the sixteen bits both
leave: there the truncations and the two masks of `crc16_ccitt()` have to be right.
For `calculate_crc()`, `UpperByteMoves` says that the upper byte of the register only
moves down during the eight steps and adds nothing of its own, so that the turn is the
look-up of the lower byte and the exclusive or with the upper one (`ModbusTurn`). What
the table holds for that byte is `TablesAssumption`. It is not a hypothesis about the
surroundings but a formula without parameters over the 512 literals of the source,
which TLC computes in the run `crc16`.

`ModbusRoundProofs` proves `TypeOK`, `RoundIsNews`, `CalmQueryGetsItsReply`,
`WrongRegisterNeedsThreeLate` and the refinement of `CarryForward`, for both packs.
Only a reply taken from its first byte can be accepted, so of the pieces on the line
those count that begin a reply: their numbers grow along it and are `Ahead` of all that was used. After a flush in
a calm moment the line is in one of ten states until the query ends, which the
invariant lists. `OriginInv` traces every reply on the line, in the buffer and
behind a field to the query it answers: it is of a kind and length that the plans
ask for (`Planned`), and in a round the replies to the queries of
`read_version_info()` are as many queries old as the round has written. Only the IO
state is as long as one of those (`OnlyIoIsAmbiguous`), and it is the third and last
query of its round.

`CanDispatchProofs` proves `NoDanglingEntry` and `UnmovedIsServed` for any set of
drivers: `LivesOK` says how far each has come with its ids, `ServedSoFar` that what
Own has registered stays so while nobody else comes or goes. `TypeOK` and `WorkStateIsLatest`
rest on `WorkInv`: a frame is handed over before the next is read, so the one handed
over is newer than all that Own has heard, and the three parts of `work_state` are
each what the last frame that writes them said, unless one that clears them came
since.

`NrfPmicProofs` proves the four safety properties of `NrfPmic` for any number of
lines and any input. `SharingInv` says that two threads that are busy at a time
both know it, so that at most one is alone (`Company`), and only of that one
anything is claimed. `PairInv` follows each head with its tail from the board over
the line into the hands of that thread, which is why what a timeout or the end of a
`read()` cuts is never joined to another line; `OrderInv` keeps the reports in
order on the way, and with it no thread that is alone parses one older than the
cache (`ForwardInv`). `ReportInv` holds the record together between
`parse_response()` and the two halves of the copy, and `CalmInv` lists the eight
places where the report of an undisturbed poll can be. The steps of each thread are
one lemma each, and what a command puts on the line is `AnswerTyped` and `OutGrows`.

`OtaTransferProofs` proves `TypeOK` and `InStep` for images of any size and any
number of runs. That an answer is true when it is read does not follow from the
answer: it may be old. The invariant says why it is: before the transfer no
frame about blocks is on the line (`AskingInv`); during it every answer promises
at most what is written (`BlocksInv`), and metadata still on its way precedes
every block (`MetadataInv`), so that the erase it may cause comes before there is
anything to lose. `SuccessIsWhole` rests on `OutcomeInv`: a pack that runs the new
application stays with it and its answers about the version never go back
(`VersionInv`), an answer "up to date" is true when it is read (`UpToDateInv`), and
the verification begins behind the last block (`VerifyInv`). `SurvivesTwoFaults`
needs a count: the attempts that have failed are charged to the first faults, the
answers on the line that will fail one to later faults in their order, so that no
fault pays twice (`ChargeInv`); an attempt that is still waiting either has something
on its way that can end it well (`Hope`) or a fault of its own. From the request on
no jump is on its way (`JumpInv`), so a pack that has restarted into its application
stays there.
`RunsAreFinite` is the safety half of `RunEnds`: each step of the script takes a turn
(`TurnsFrom` counts what the loops may still write and read) or an answer off the line,
and each step of the pack takes a command, ends a write or restarts. `Work` adds these
up with weights that make every such step reduce it, so that a run cannot go on for
ever reading late or repeated answers; what is left to fairness is that steps happen.

Only model-checked, and why:

- the contents of the two CRC tables, `TablesAssumption`: 256 entries to compute,
  which TLC does completely;
- every liveness property, which is beyond the prover: `FedForever`,
  `DeadClientsReaped`, `StopsOnTerm`, `PartialNeverLingers`, `DestructorReturns` of
  both drivers, `DaemonExits`, and `RunEnds` but for the bound of `RunsAreFinite`.

## 5. Not modelled

- The client drivers of TWS and GF485: the reader loop of `ScudBmsDriver` without
  accumulation, freshness and the reset at a disconnect. What could be checked of
  them is what `ScudClient` checks of the harder one; what they lack, they do not
  promise.
- What nothing in the repository calls: `read_serial_number()`,
  `set_discharge_output()`, `write_multiple_registers()`, `clear_callbacks()`.
- Of `main()`: the parsing of the arguments, which picks one loop, and the nRF
  loop, which prints `status()` every two seconds.
- Two daemons on one socket path: the service file starts one.
- More than one caller of the nRF driver at a time: the caller's thread stands for
  whoever has the turn, and two of them meet as poll thread and caller do.
- Of the update: the byte scan of `read_response()`, its checksum, the checks
  of the image file, and the echo of the image's identity in each answer, which
  does not change from one run to the next.
- The numeric getters of the clients: each copies one field under the lock; no
  document promises that two of them agree.
- A failing `clock_gettime()`: the driver then reports an unknown age, which
  counts as not current.
- The scaling of protocol fields into engineering units (some of which a pack
  never fills: the cycles of TWS are broadcast as 0), logging, termios settings,
  installation scripts, the factory and the Python binding: no state that behaves
  over time.

----------------------------- MODULE CanDispatch -----------------------------
(***************************************************************************)
(* SocketCAN (socket_can.cpp), GfCanBmsDriver (gfcan_bms_driver.cpp) and   *)
(* run_can_daemon() (bms_daemon.cpp): one receiver thread per interface    *)
(* hands each frame to the callback its id is registered with.  The        *)
(* callback is looked up under a lock and called without it, and the one   *)
(* table of an interface serves every driver on it.                        *)
(*                                                                         *)
(* Own is the driver of run_can_daemon(), which ends by itself when the    *)
(* pack has told it no voltage; the others are what else the process may   *)
(* have on the interface.  Of the sixteen bits of work_state one is kept   *)
(* of each group: 0 of the error byte, 8 of the pack state, 14 of the MOS  *)
(* state; 16 is the bit of the MOS state a uint16_t has no room for.       *)
(***************************************************************************)
EXTENDS Integers, Sequences

CONSTANTS
    Drivers,     \* the GfCanBmsDriver objects on the interface
    Own,         \* the one run_can_daemon() makes
    MaxFrames,   \* bound on the frames the receiver reads
    MaxStale     \* reads without a voltage that end the daemon, 50

ASSUME CanAssumption == Own \in Drivers /\ MaxFrames \in Nat /\ MaxStale \in Nat \ {0}

VARIABLES
    receiver,   \* the receiver thread, and the call it has fetched
    receiving,  \* receiving_
    table,      \* callbacks_
    driver,     \* the life of each driver, and the ids it has added or removed
    intact,     \* no callback has run in a driver that is gone
    cached,     \* Own's cached_
    heard,      \* history: the last frame of each in StateIds Own was given, and when
    unmoved,    \* history: no other driver has come or gone since Own was made
    daemon,     \* run_can_daemon() and the destructors that follow it
    running,    \* g_running
    frames      \* history: number of frames read

vars == <<receiver, receiving, table, driver, intact, cached, heard, unmoved,
          daemon, running, frames>>

\* The frames, in the order the constructor registers their ids.  BMS_2 stands
\* for the ids whose fields are assigned whole.
Ids == <<"BMS_1", "BMS_2", "BMS_10", "BMS_11">>
StateIds == {"BMS_1", "BMS_10", "BMS_11"}    \* that share work_state
Frame == [id : {"BMS_1"}, bits : {{}, {0, 8, 14}}]
    \cup [id : {"BMS_2"}, bits : {{}, {0}}]      \* a voltage of zero, or another
    \cup [id : {"BMS_10"}, bits : {{}, {8}}]
    \cup [id : {"BMS_11"}, bits : {{14}, {16}}]

Nobody == "nobody"
At(d, at) == driver[d].at = at
Alive(d)  == driver[d].at \in {"adding", "up", "removing"}
Settled   == \A d \in Drivers : ~At(d, "adding") /\ ~At(d, "removing")

Init ==
    /\ receiver = [at |-> "unborn"] /\ receiving = FALSE
    /\ table = [i \in DOMAIN Ids |-> Nobody]
    /\ driver = [d \in Drivers |-> [at |-> "none", done |-> 0]]
    /\ intact = TRUE
    /\ cached = [work |-> {}, volt |-> FALSE]
    /\ heard = [id \in StateIds |-> [at |-> 0, bits |-> {}]] /\ unmoved = TRUE
    /\ daemon = [at |-> "start", stale |-> 0] /\ running = TRUE
    /\ frames = 0

-----------------------------------------------------------------------------
(* The drivers.  The interpreter's lock, or the daemon's single thread, keeps *)
(* one constructor or destructor from meeting another.                        *)

\* get_instance(): the first driver on the interface opens the socket.  Where
\* open() throws, on an interface that is not there, no driver comes into being
\* and nothing has changed; what that does to Own's process is DaemonStartFails.
Construct(d) ==
    /\ intact /\ At(d, "none") /\ Settled
    /\ driver' = [driver EXCEPT ![d].at = "adding"]
    /\ IF receiver.at = "unborn"
       THEN receiver' = [at |-> "select"] /\ receiving' = TRUE
       ELSE UNCHANGED <<receiver, receiving>>
    /\ unmoved' = (d = Own \/ (unmoved /\ ~Alive(Own)))
    /\ UNCHANGED <<table, intact, cached, heard, running, frames>>

\* Mutant: an id that is registered is not registered again.
AddCallbackIfFree(d) ==
    /\ intact /\ At(d, "adding")
    /\ LET i == driver[d].done + 1
       IN  /\ table' = IF table[i] # Nobody THEN table ELSE [table EXCEPT ![i] = d]
           /\ driver' = [driver EXCEPT ![d] =
                  IF i = Len(Ids) THEN [at |-> "up", done |-> 0]
                                  ELSE [at |-> "adding", done |-> i]]
    /\ UNCHANGED <<receiver, receiving, intact, cached, heard, unmoved, daemon,
                   running, frames>>

\* add_callback(), once for each id; whoever had it loses it.
AddCallback(d) ==
    /\ intact /\ At(d, "adding")
    /\ LET i == driver[d].done + 1
       IN  /\ table' = [table EXCEPT ![i] = d]
           /\ driver' = [driver EXCEPT ![d] =
                  IF i = Len(Ids) THEN [at |-> "up", done |-> 0]
                                  ELSE [at |-> "adding", done |-> i]]
    /\ UNCHANGED <<receiver, receiving, intact, cached, heard, unmoved, daemon,
                   running, frames>>

Destroy(d) ==
    /\ intact /\ At(d, "up") /\ Settled
    /\ driver' = [driver EXCEPT ![d].at = "removing"]
    /\ unmoved' = (d = Own \/ (unmoved /\ ~Alive(Own)))
    /\ UNCHANGED <<receiver, receiving, table, intact, cached, heard, running, frames>>

\* Mutant: the last id stays registered.
RemoveCallbackShort(d) ==
    /\ intact /\ At(d, "removing")
    /\ LET i == driver[d].done + 1
       IN  /\ table' = IF i = Len(Ids) THEN table ELSE [table EXCEPT ![i] = Nobody]
           /\ driver' = [driver EXCEPT ![d] =
                  IF i = Len(Ids) THEN [at |-> "dead", done |-> 0]
                                  ELSE [at |-> "removing", done |-> i]]
    /\ UNCHANGED <<receiver, receiving, intact, cached, heard, unmoved, daemon,
                   running, frames>>

\* remove_callback(), once for each id, whoever has it.
RemoveCallback(d) ==
    /\ intact /\ At(d, "removing")
    /\ LET i == driver[d].done + 1
       IN  /\ table' = [table EXCEPT ![i] = Nobody]
           /\ driver' = [driver EXCEPT ![d] =
                  IF i = Len(Ids) THEN [at |-> "dead", done |-> 0]
                                  ELSE [at |-> "removing", done |-> i]]
    /\ UNCHANGED <<receiver, receiving, intact, cached, heard, unmoved, daemon,
                   running, frames>>

-----------------------------------------------------------------------------
(* receiver_loop() and can_callback().                                     *)

\* read(), and the look at the table under callback_mutex_.
Fetch(f) ==
    /\ intact /\ receiver.at = "select" /\ frames < MaxFrames
    /\ frames' = frames + 1
    /\ LET d == table[CHOOSE i \in DOMAIN Ids : Ids[i] = f.id]
       IN  receiver' = IF d = Nobody THEN receiver
                       ELSE [at |-> "call", driver |-> d, frame |-> f]
    /\ UNCHANGED <<receiving, table, driver, intact, cached, heard, unmoved, daemon,
                   running>>

\* Mutants: BMS_10 clears the error byte's bits instead of the others, and
\* BMS_11 keeps a bit that does not fit.
WorkStateMask(work, f) ==
    CASE f.id = "BMS_1"  -> (work \ (0 .. 7)) \cup f.bits
      [] f.id = "BMS_10" -> (work \ (0 .. 7)) \cup f.bits
      [] f.id = "BMS_11" -> (work \cap (0 .. 13)) \cup (f.bits \cap (0 .. 15))
      [] OTHER -> work
WorkStateWide(work, f) ==
    CASE f.id = "BMS_1"  -> (work \ (0 .. 7)) \cup f.bits
      [] f.id = "BMS_10" -> (work \cap (0 .. 7)) \cup f.bits
      [] f.id = "BMS_11" -> (work \cap (0 .. 13)) \cup f.bits
      [] OTHER -> work

\* parse_bms1(), parse_bms10() and parse_bms11() share work_state.  BMS_1 sets
\* bits of the upper byte and clears none; BMS_10 clears what BMS_11 has set.
WorkState(work, f) ==
    CASE f.id = "BMS_1"  -> (work \ (0 .. 7)) \cup f.bits
      [] f.id = "BMS_10" -> (work \cap (0 .. 7)) \cup f.bits
      [] f.id = "BMS_11" -> (work \cap (0 .. 13)) \cup (f.bits \cap (0 .. 15))
      [] OTHER -> work

\* can_callback().  In a driver that is gone it may do anything.
Call ==
    /\ intact /\ receiver.at = "call"
    /\ receiver' = [at |-> "select"]
    /\ LET d == receiver.driver
           f == receiver.frame
       IN  /\ intact' \in {TRUE, ~At(d, "dead")}
           /\ IF d = Own /\ Alive(d)
              THEN /\ cached' = [work |-> WorkState(cached.work, f),
                                 volt |-> IF f.id = "BMS_2" THEN f.bits # {}
                                          ELSE cached.volt]
                   /\ heard' = IF f.id \notin StateIds THEN heard
                               ELSE [heard EXCEPT ![f.id] =
                                         [at |-> frames, bits |-> f.bits]]
              ELSE UNCHANGED <<cached, heard>>
    /\ UNCHANGED <<receiving, table, driver, unmoved, daemon, running, frames>>

\* select() fails for another reason than a signal: the thread ends, and nobody
\* is told.
SelectFails ==
    /\ intact /\ receiver.at = "select"
    /\ receiver' = [at |-> "over"]
    /\ UNCHANGED <<receiving, table, driver, intact, cached, heard, unmoved, daemon,
                   running, frames>>

\* close() is seen once the socket has nothing left to read.
StopReceiving ==
    /\ intact /\ receiver.at = "select" /\ ~receiving
    /\ receiver' = [at |-> "over"]
    /\ UNCHANGED <<receiving, table, driver, intact, cached, heard, unmoved, daemon,
                   running, frames>>

-----------------------------------------------------------------------------
(* run_can_daemon(), and the destructors when main() returns.              *)

DaemonStart ==
    /\ daemon.at = "start"
    /\ Construct(Own)
    /\ daemon' = [daemon EXCEPT !.at = "loop"]

\* open() throws, and nothing in the daemon catches it.
DaemonStartFails ==
    /\ intact /\ daemon.at = "start" /\ Settled
    /\ receiver.at = "unborn"
    /\ daemon' = [daemon EXCEPT !.at = "exited"]
    /\ UNCHANGED <<receiver, receiving, table, driver, intact, cached, heard, unmoved,
                   running, frames>>

\* One turn of the loop: an empty read counts, any other sets the counter back.
DaemonRead ==
    /\ intact /\ daemon.at = "loop" /\ At(Own, "up")
    /\ running /\ daemon.stale < MaxStale
    /\ daemon' = [daemon EXCEPT !.stale = IF cached.volt THEN 0 ELSE @ + 1]
    /\ UNCHANGED <<receiver, receiving, table, driver, intact, cached, heard, unmoved,
                   running, frames>>

DaemonEnds ==
    /\ daemon.at = "loop" /\ (~running \/ daemon.stale = MaxStale)
    /\ Destroy(Own)
    /\ daemon' = [daemon EXCEPT !.at = "destroy"]

\* Mutant: close() joins the thread without telling it.
CloseJoinsOnly ==
    /\ intact /\ daemon.at = "destroy"
    /\ \A d \in Drivers : ~Alive(d)
    /\ daemon' = [daemon EXCEPT !.at = "close"]
    /\ UNCHANGED <<receiver, receiving, table, driver, intact, cached, heard, unmoved,
                   running, frames>>

\* instances_ holds the socket until the process ends, with no driver left.
Close ==
    /\ intact /\ daemon.at = "destroy"
    /\ \A d \in Drivers : ~Alive(d)
    /\ receiving' = FALSE
    /\ daemon' = [daemon EXCEPT !.at = "close"]
    /\ UNCHANGED <<receiver, table, driver, intact, cached, heard, unmoved, running,
                   frames>>

Exit ==
    /\ intact /\ daemon.at = "close" /\ receiver.at = "over"
    /\ daemon' = [daemon EXCEPT !.at = "exited"]
    /\ UNCHANGED <<receiver, receiving, table, driver, intact, cached, heard, unmoved,
                   running, frames>>

Signal ==
    /\ running /\ running' = FALSE
    /\ UNCHANGED <<receiver, receiving, table, driver, intact, cached, heard, unmoved,
                   daemon, frames>>

OtherStart(d) ==
    /\ d # Own /\ daemon.at \in {"start", "loop"}
    /\ Construct(d) /\ UNCHANGED daemon
OtherEnds(d) ==
    /\ d # Own
    /\ Destroy(d) /\ UNCHANGED daemon

Receiver == Call \/ SelectFails \/ StopReceiving \/ \E f \in Frame : Fetch(f)
Daemon   == DaemonStart \/ DaemonStartFails \/ DaemonRead \/ DaemonEnds \/ Close \/ Exit
              \/ AddCallback(Own) \/ RemoveCallback(Own)
Other(d) == OtherStart(d) \/ OtherEnds(d) \/ AddCallback(d) \/ RemoveCallback(d)

Next == Receiver \/ Daemon \/ Signal \/ \E d \in Drivers \ {Own} : Other(d)

Spec == Init /\ [][Next]_vars

\* The threads are scheduled, the receiver finds the socket empty now and then,
\* and every other user of the interface lets go of its driver some day.
FairSpec ==
    /\ Spec
    /\ WF_vars(Call) /\ SF_vars(StopReceiving) /\ WF_vars(Daemon)
    /\ \A d \in Drivers \ {Own} : WF_vars(AddCallback(d) \/ RemoveCallback(d))
                               /\ SF_vars(OtherEnds(d))

-----------------------------------------------------------------------------
(* Properties.                                                             *)

TypeOK ==
    /\ receiver.at \in {"unborn", "select", "call", "over"}
    /\ receiver.at = "call" => receiver.driver \in Drivers /\ receiver.frame \in Frame
    /\ receiving \in BOOLEAN /\ intact \in BOOLEAN /\ unmoved \in BOOLEAN
    /\ running \in BOOLEAN /\ frames \in 0 .. MaxFrames
    /\ table \in [DOMAIN Ids -> Drivers \cup {Nobody}]
    /\ \A d \in Drivers :
        driver[d].at \in {"none", "adding", "up", "removing", "dead"}
        /\ driver[d].done \in 0 .. Len(Ids) - 1
    /\ cached.work \subseteq 0 .. 15 /\ cached.volt \in BOOLEAN
    /\ heard \in [StateIds -> [at : 0 .. MaxFrames, bits : SUBSET (0 .. 16)]]
    /\ daemon.stale \in 0 .. MaxStale

\* The table never names a driver that is gone: a callback runs in one only if
\* the receiver had fetched it before the destructor reached that id.
NoDanglingEntry ==
    \A i \in DOMAIN Ids : table[i] # Nobody =>
        /\ Alive(table[i])
        /\ At(table[i], "removing") => i > driver[table[i]].done

\* Own is registered with every id from its construction until another driver
\* comes or goes, also where it was made over one that lives on.
UnmovedIsServed ==
    At(Own, "up") /\ unmoved => \A i \in DOMAIN Ids : table[i] = Own

\* Where the pack sends BMS_1, BMS_10 and BMS_11 in this order, work_state then
\* says what the three frames said, but for the bit it has no room for, whatever
\* came before.
WorkStateIsLatest ==
    LET first  == heard["BMS_1"]
        second == heard["BMS_10"]
        third  == heard["BMS_11"]
    IN  0 < first.at /\ first.at < second.at /\ second.at < third.at =>
            cached.work = (first.bits \cap (0 .. 7)) \cup second.bits
                              \cup (third.bits \cap (0 .. 15))

\* A daemon that is told to end does, and so does one that hears of no voltage
\* any more, unless a callback has run in a driver that was gone.
DaemonExits ==
    <>[](~running \/ ~cached.volt) => <>(daemon.at = "exited" \/ ~intact)
=============================================================================

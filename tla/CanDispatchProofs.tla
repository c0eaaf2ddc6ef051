-------------------------- MODULE CanDispatchProofs --------------------------
(***************************************************************************)
(* That the callback table of an interface never names a driver that is    *)
(* gone, and that Own, once made, has every id until another driver comes  *)
(* or goes, for every set of drivers, every bound on the frames and every  *)
(* limit of the daemon.  The two invariants speak of `table' and `driver'  *)
(* only, but for a history variable, so the proofs reduce each step to what *)
(* it does to these.  Then that every variable keeps its type, and that    *)
(* work_state, which three frames write parts of, says what they said if   *)
(* they come in their order.                                               *)
(***************************************************************************)
EXTENDS CanDispatch, TLAPS

Last == Len(Ids)

Phases == {"none", "adding", "up", "removing", "dead"}

\* How far a driver has come with its ids; outside its constructor and its
\* destructor the count is back at zero.
LivesOK ==
    /\ table \in [DOMAIN Ids -> Drivers \cup {Nobody}]
    /\ driver \in [Drivers -> [at : Phases, done : 0 .. Last - 1]]
    /\ \A d \in Drivers : driver[d].at \in {"none", "up"} => driver[d].done = 0

\* What has been registered so far stays so while nobody else comes or goes.
ServedSoFar ==
    unmoved /\ Alive(Own) =>
        /\ \A d \in Drivers \ {Own} : ~At(d, "adding") /\ ~At(d, "removing")
        /\ At(Own, "up") => \A i \in DOMAIN Ids : table[i] = Own
        /\ At(Own, "adding") =>
               \A i \in DOMAIN Ids : i <= driver[Own].done => table[i] = Own

IInv == LivesOK /\ NoDanglingEntry /\ ServedSoFar

\* The steps that leave the table and every driver's life alone.
Bystander == UNCHANGED <<table, driver, unmoved>>

-----------------------------------------------------------------------------

\* The figures of the frame ids.
LEMMA FourIds == DOMAIN Ids = 1 .. 4 /\ Last = 4
BY DEF Ids, Last

\* The initial table is empty and nobody lives.
LEMMA Initially == Init => IInv
<1> SUFFICES ASSUME Init PROVE IInv
    OBVIOUS
<1>1. LivesOK
    BY FourIds DEF Init, LivesOK, Phases
<1>2. NoDanglingEntry
    BY FourIds DEF Init, NoDanglingEntry
<1>3. ServedSoFar
    BY CanAssumption DEF Init, ServedSoFar, Alive, CanAssumption
<1> QED
    BY <1>1, <1>2, <1>3 DEF IInv

\* A step that touches neither table nor drivers keeps both invariants.
LEMMA BystanderKeeps == IInv /\ Bystander => IInv'
BY DEF IInv, Bystander, LivesOK, NoDanglingEntry, ServedSoFar, Alive, At

\* A constructor begins: its driver holds no entry yet, and if it is another's,
\* Own is unmoved no longer.
LEMMA ConstructKeeps ==
    ASSUME IInv, NEW d \in Drivers, Construct(d)
    PROVE  IInv'
<1> USE FourIds, CanAssumption DEF CanAssumption
<1>1. /\ driver' = [driver EXCEPT ![d].at = "adding"]
      /\ driver[d].at = "none" /\ driver[d].done = 0
      /\ table' = table
    BY DEF IInv, LivesOK, Construct, At
<1>2. LivesOK'
    BY <1>1 DEF IInv, LivesOK, Phases
<1>3. \A e \in Drivers : driver'[e].at = IF e = d THEN "adding" ELSE driver[e].at
    BY <1>1 DEF IInv, LivesOK
<1>4. \A e \in Drivers : driver'[e].done = driver[e].done
    BY <1>1 DEF IInv, LivesOK
<1>5. NoDanglingEntry'
    BY <1>1, <1>3, <1>4 DEF IInv, LivesOK, NoDanglingEntry, Alive, At
<1>6. ServedSoFar'
  <2>1. CASE d = Own
    <3>1. \A e \in Drivers \ {Own} : ~At(e, "adding")' /\ ~At(e, "removing")'
        BY <2>1, <1>3 DEF Construct, Settled, At
    <3> QED
        BY <2>1, <3>1, <1>1, <1>3, <1>4 DEF IInv, LivesOK, ServedSoFar, Alive, At
  <2>2. CASE d # Own
    <3>1. unmoved' => ~Alive(Own)
        BY <2>2 DEF Construct
    <3> QED
        BY <2>2, <3>1, <1>3 DEF ServedSoFar, Alive
  <2> QED
    BY <2>1, <2>2
<1> QED
    BY <1>2, <1>5, <1>6 DEF IInv

\* An id is registered, whoever had it.
LEMMA AddKeeps ==
    ASSUME IInv, NEW d \in Drivers, AddCallback(d)
    PROVE  IInv'
<1> USE FourIds, CanAssumption DEF CanAssumption
<1> DEFINE i == driver[d].done + 1
<1>1. /\ i \in 1 .. 4 /\ driver[d].at = "adding"
      /\ table' = [table EXCEPT ![i] = d]
      /\ unmoved' = unmoved
    BY DEF IInv, LivesOK, AddCallback, At
<1>2. driver' = [driver EXCEPT ![d] =
          IF i = 4 THEN [at |-> "up", done |-> 0] ELSE [at |-> "adding", done |-> i]]
    BY DEF AddCallback, Last
<1> HIDE DEF i
<1>3. driver'[d] = IF i = 4 THEN [at |-> "up", done |-> 0]
                            ELSE [at |-> "adding", done |-> i]
    BY <1>2 DEF IInv, LivesOK
<1>4. \A e \in Drivers \ {d} : driver'[e] = driver[e]
    BY <1>2 DEF IInv, LivesOK
<1>5. \A j \in 1 .. 4 : table'[j] = IF j = i THEN d ELSE table[j]
    BY <1>1 DEF IInv, LivesOK
<1>6. LivesOK'
    BY <1>1, <1>2, <1>3, <1>4 DEF IInv, LivesOK, Phases
<1>7. NoDanglingEntry'
    BY <1>1, <1>3, <1>4, <1>5 DEF IInv, LivesOK, NoDanglingEntry, Alive, At
<1>8. ServedSoFar'
  <2>1. CASE d = Own
    <3>1. i = driver[Own].done + 1
        BY <2>1 DEF i
    <3> QED
        BY <2>1, <3>1, <1>1, <1>3, <1>4, <1>5 DEF IInv, LivesOK, ServedSoFar, Alive, At
  <2>2. CASE d # Own
        BY <2>2, <1>1, <1>3, <1>4 DEF IInv, ServedSoFar, Alive, At
  <2> QED
    BY <2>1, <2>2
<1> QED
    BY <1>6, <1>7, <1>8 DEF IInv

\* A destructor begins: none of its ids is removed yet.
LEMMA DestroyKeeps ==
    ASSUME IInv, NEW d \in Drivers, Destroy(d)
    PROVE  IInv'
<1> USE FourIds, CanAssumption DEF CanAssumption
<1>1. /\ driver' = [driver EXCEPT ![d].at = "removing"]
      /\ driver[d].at = "up" /\ driver[d].done = 0
      /\ table' = table
    BY DEF IInv, LivesOK, Destroy, At
<1>2. \A e \in Drivers : driver'[e].at = IF e = d THEN "removing" ELSE driver[e].at
    BY <1>1 DEF IInv, LivesOK
<1>3. \A e \in Drivers : driver'[e].done = driver[e].done
    BY <1>1 DEF IInv, LivesOK
<1>4. LivesOK'
    BY <1>1 DEF IInv, LivesOK, Phases
<1>5. NoDanglingEntry'
    BY <1>1, <1>2, <1>3 DEF IInv, LivesOK, NoDanglingEntry, Alive, At
<1>6. ServedSoFar'
  <2>1. CASE d = Own
      BY <2>1, <1>2 DEF Destroy, Settled, ServedSoFar, At
  <2>2. CASE d # Own
    <3>1. unmoved' => ~Alive(Own)
        BY <2>2 DEF Destroy
    <3> QED
        BY <2>2, <3>1, <1>2 DEF ServedSoFar, Alive
  <2> QED
    BY <2>1, <2>2
<1> QED
    BY <1>4, <1>5, <1>6 DEF IInv

\* An id is removed, whoever had it: after the last the driver has none left.
LEMMA RemoveKeeps ==
    ASSUME IInv, NEW d \in Drivers, RemoveCallback(d)
    PROVE  IInv'
<1> USE FourIds, CanAssumption DEF CanAssumption
<1> DEFINE i == driver[d].done + 1
<1>1. /\ i \in 1 .. 4 /\ driver[d].at = "removing"
      /\ table' = [table EXCEPT ![i] = Nobody]
      /\ unmoved' = unmoved
    BY DEF IInv, LivesOK, RemoveCallback, At
<1>2. driver' = [driver EXCEPT ![d] =
          IF i = 4 THEN [at |-> "dead", done |-> 0] ELSE [at |-> "removing", done |-> i]]
    BY DEF RemoveCallback, Last
<1>3. \A j \in 1 .. 4 : table[j] = d /\ d # Nobody => j > driver[d].done
    BY <1>1 DEF IInv, LivesOK, NoDanglingEntry, At
<1>4. driver[d].done < i /\ \A j \in 1 .. 4 : j > driver[d].done /\ j # i => j > i
    BY <1>1 DEF IInv, LivesOK
<1> HIDE DEF i
<1>5. driver'[d] = IF i = 4 THEN [at |-> "dead", done |-> 0]
                            ELSE [at |-> "removing", done |-> i]
    BY <1>2 DEF IInv, LivesOK
<1>6. \A e \in Drivers \ {d} : driver'[e] = driver[e]
    BY <1>2 DEF IInv, LivesOK
<1>7. \A j \in 1 .. 4 : table'[j] = IF j = i THEN Nobody ELSE table[j]
    BY <1>1 DEF IInv, LivesOK
<1>8. LivesOK'
    BY <1>1, <1>2, <1>5, <1>6 DEF IInv, LivesOK, Phases
<1>9. NoDanglingEntry'
  <2> SUFFICES ASSUME NEW j \in 1 .. 4, table'[j] # Nobody
               PROVE  /\ Alive(table[j])'
                      /\ At(table[j], "removing")' => j > driver'[table'[j]].done
      BY DEF NoDanglingEntry
  <2>1. table'[j] = table[j] /\ j # i /\ table[j] # Nobody /\ table[j] \in Drivers
      BY <1>7 DEF IInv, LivesOK
  <2>2. CASE table[j] = d
    <3>1. j > i
        BY <2>1, <2>2, <1>3, <1>4
    <3> QED
        BY <2>1, <2>2, <3>1, <1>1, <1>5 DEF Alive, At
  <2>3. CASE table[j] # d
      BY <2>1, <2>3, <1>6 DEF IInv, NoDanglingEntry, Alive, At
  <2> QED
    BY <2>2, <2>3
<1>10. ServedSoFar'
  <2>1. CASE d = Own
        BY <2>1, <1>1, <1>5, <1>6 DEF IInv, LivesOK, ServedSoFar, Alive, At
  <2>2. CASE d # Own
        BY <2>2, <1>1, <1>5, <1>6 DEF IInv, ServedSoFar, Alive, At
  <2> QED
    BY <2>1, <2>2
<1> QED
    BY <1>8, <1>9, <1>10 DEF IInv

\* One case per action; the receiver and the daemon's loop are bystanders.
LEMMA StepKeeps == IInv /\ [Next]_vars => IInv'
<1> SUFFICES ASSUME IInv, [Next]_vars PROVE IInv'
    OBVIOUS
<1>1. CASE Receiver
  <2>1. Bystander
      BY <1>1 DEF Receiver, Call, SelectFails, StopReceiving, Fetch, Bystander
  <2> QED
      BY <2>1, BystanderKeeps
<1>2. CASE Daemon
  <2>0. Own \in Drivers
      BY CanAssumption DEF CanAssumption
  <2>1. CASE DaemonStart
      BY <2>0, <2>1, ConstructKeeps DEF DaemonStart
  <2>2. CASE DaemonStartFails \/ DaemonRead \/ Close \/ Exit
    <3>1. Bystander
        BY <2>2 DEF DaemonStartFails, DaemonRead, Close, Exit, Bystander
    <3> QED
        BY <3>1, BystanderKeeps
  <2>3. CASE DaemonEnds
      BY <2>0, <2>3, DestroyKeeps DEF DaemonEnds
  <2>4. CASE AddCallback(Own)
      BY <2>0, <2>4, AddKeeps
  <2>5. CASE RemoveCallback(Own)
      BY <2>0, <2>5, RemoveKeeps
  <2> QED
      BY <1>2, <2>1, <2>2, <2>3, <2>4, <2>5 DEF Daemon
<1>3. CASE Signal
  <2>1. Bystander
      BY <1>3 DEF Signal, Bystander
  <2> QED
      BY <2>1, BystanderKeeps
<1>4. ASSUME NEW d \in Drivers \ {Own}, Other(d) PROVE IInv'
  <2>1. CASE OtherStart(d)
      BY <2>1, ConstructKeeps DEF OtherStart
  <2>2. CASE OtherEnds(d)
      BY <2>2, DestroyKeeps DEF OtherEnds
  <2>3. CASE AddCallback(d)
      BY <2>3, AddKeeps
  <2>4. CASE RemoveCallback(d)
      BY <2>4, RemoveKeeps
  <2> QED
      BY <1>4, <2>1, <2>2, <2>3, <2>4 DEF Other
<1>5. CASE UNCHANGED vars
  <2>1. Bystander
      BY <1>5 DEF vars, Bystander
  <2> QED
      BY <2>1, BystanderKeeps
<1> QED
    BY <1>1, <1>2, <1>3, <1>4, <1>5 DEF Next

\* The invariant holds in every reachable state.
THEOREM Inductive == Spec => []IInv
<1>1. Init => IInv
    BY Initially
<1>2. IInv /\ [Next]_vars => IInv'
    BY StepKeeps
<1> QED
    BY <1>1, <1>2, PTL DEF Spec

\* The callback table never names a driver that is gone, for every number of
\* drivers that come and go: remove_callback() in every destructor is enough,
\* also for ids another driver has taken over (socket_can.cpp,
\* gfcan_bms_driver.cpp).
THEOREM TableNamesTheLiving == Spec => []NoDanglingEntry
<1>1. IInv => NoDanglingEntry
    BY DEF IInv
<1> QED
    BY <1>1, Inductive, PTL

\* A driver is registered with every id from its construction until another
\* comes or goes, whoever used the interface before and whoever lives on.
THEOREM UnmovedServed == Spec => []UnmovedIsServed
<1>1. IInv => UnmovedIsServed
    BY DEF IInv, ServedSoFar, UnmovedIsServed, Alive, At
<1> QED
    BY <1>1, Inductive, PTL

-----------------------------------------------------------------------------
(* What work_state says.  Its three parts are followed one by one: the     *)
(* error byte is always that of the last BMS_1, the pack state that of the *)
(* last BMS_10 unless a BMS_1 has come since, and the MOS state that of    *)
(* the last BMS_11 unless one of the other two has.                        *)

ShapeInv ==
    /\ TypeOK
    /\ daemon \in [at : {"start", "loop", "destroy", "close", "exited"},
                   stale : 0 .. MaxStale]

\* A frame is handed over before the next is read.
HeardInOrder ==
    \A id \in StateIds :
        /\ heard[id].at <= frames
        /\ receiver.at = "call" => heard[id].at < frames

\* work_state, part by part.
Bits(id) == heard[id].bits
Since(id, other) == heard[other].at < heard[id].at
PartsInv ==
    /\ Bits("BMS_10") \subseteq 8 .. 13 /\ Bits("BMS_11") \subseteq 14 .. 16
    /\ cached.work \cap (0 .. 7) = Bits("BMS_1") \cap (0 .. 7)
    /\ Since("BMS_10", "BMS_1") => cached.work \cap (8 .. 13) = Bits("BMS_10")
    /\ Since("BMS_10", "BMS_1") /\ Since("BMS_11", "BMS_10") =>
           cached.work \cap (14 .. 15) = Bits("BMS_11") \cap (0 .. 15)

WorkInv == ShapeInv /\ HeardInOrder /\ PartsInv

\* Nothing has been heard.
LEMMA WorkInitially == Init => WorkInv
<1> SUFFICES ASSUME Init PROVE WorkInv
    OBVIOUS
<1> USE CanAssumption DEF CanAssumption
<1>1. ShapeInv
  <2>1. table \in [DOMAIN Ids -> Drivers \cup {Nobody}]
      BY DEF Init
  <2>2. \A d \in Drivers : driver[d].at \in Phases /\ driver[d].done \in 0 .. Len(Ids) - 1
      BY Initially DEF IInv, LivesOK, Last
  <2>3. heard \in [StateIds -> [at : 0 .. MaxFrames, bits : SUBSET (0 .. 16)]]
      BY DEF Init
  <2>4. daemon \in [at : {"start", "loop", "destroy", "close", "exited"},
                    stale : 0 .. MaxStale]
      BY DEF Init
  <2>5. /\ receiving = FALSE /\ intact = TRUE /\ unmoved = TRUE /\ running = TRUE
        /\ frames = 0 /\ 0 \in 0 .. MaxFrames
      BY DEF Init
  <2>6. cached.work = {} /\ cached.volt = FALSE
      BY DEF Init
  <2>7. receiver.at = "unborn"
      BY DEF Init
  <2>8. daemon.stale \in 0 .. MaxStale
      BY <2>4
  <2> QED
      BY <2>1, <2>2, <2>3, <2>4, <2>5, <2>6, <2>7, <2>8 DEF ShapeInv, TypeOK, Phases
<1>2. HeardInOrder
    BY DEF Init, HeardInOrder
<1>3. PartsInv
    BY DEF Init, PartsInv, Bits, Since, StateIds
<1> QED
    BY <1>1, <1>2, <1>3 DEF WorkInv

\* The parts of work_state after a frame.
LEMMA Parts ==
    ASSUME NEW work \in SUBSET (0 .. 15), NEW f \in Frame
    PROVE  /\ WorkState(work, f) \subseteq 0 .. 15
           /\ f.id = "BMS_1" =>
                  WorkState(work, f) \cap (0 .. 7) = f.bits \cap (0 .. 7)
           /\ f.id = "BMS_10" =>
                  /\ WorkState(work, f) \cap (0 .. 7) = work \cap (0 .. 7)
                  /\ WorkState(work, f) \cap (8 .. 13) = f.bits
                  /\ f.bits \subseteq 8 .. 13
           /\ f.id = "BMS_11" =>
                  /\ WorkState(work, f) \cap (0 .. 13) = work \cap (0 .. 13)
                  /\ WorkState(work, f) \cap (14 .. 15) = f.bits \cap (0 .. 15)
                  /\ f.bits \subseteq 14 .. 16
           /\ f.id = "BMS_2" => WorkState(work, f) = work
<1>1. CASE f.id = "BMS_1"
  <2>1. WorkState(work, f) = (work \ (0 .. 7)) \cup f.bits
      BY <1>1 DEF WorkState
  <2>2. f.bits \in {{}, {0, 8, 14}}
      BY <1>1 DEF Frame
  <2> QED
      BY <1>1, <2>1, <2>2
<1>2. CASE f.id = "BMS_10"
  <2>1. WorkState(work, f) = (work \cap (0 .. 7)) \cup f.bits
      BY <1>2 DEF WorkState
  <2>2. f.bits \in {{}, {8}}
      BY <1>2 DEF Frame
  <2> QED
      BY <1>2, <2>1, <2>2
<1>3. CASE f.id = "BMS_11"
  <2>1. WorkState(work, f) = (work \cap (0 .. 13)) \cup (f.bits \cap (0 .. 15))
      BY <1>3 DEF WorkState
  <2>2. f.bits \in {{14}, {16}}
      BY <1>3 DEF Frame
  <2> QED
      BY <1>3, <2>1, <2>2
<1>4. CASE f.id = "BMS_2"
    BY <1>4 DEF WorkState
<1>5. f.id \in {"BMS_1", "BMS_2", "BMS_10", "BMS_11"}
    BY DEF Frame
<1> QED
    BY <1>1, <1>2, <1>3, <1>4, <1>5

\* A callback runs in Own: its frame is the latest of all.
LEMMA CallParts ==
    ASSUME WorkInv, NEW f \in Frame, receiver.at = "call",
           cached'.work = WorkState(cached.work, f),
           heard' = IF f.id \notin StateIds THEN heard
                    ELSE [heard EXCEPT ![f.id] = [at |-> frames, bits |-> f.bits]]
    PROVE  /\ cached'.work \subseteq 0 .. 15
           /\ heard' \in [StateIds -> [at : 0 .. MaxFrames, bits : SUBSET (0 .. 16)]]
           /\ \A id \in StateIds : heard'[id].at <= frames
           /\ PartsInv'
<1> DEFINE one == "BMS_1"
           ten == "BMS_10"
           eleven == "BMS_11"
<1>1. /\ cached.work \in SUBSET (0 .. 15) /\ frames \in 0 .. MaxFrames
      /\ heard \in [StateIds -> [at : 0 .. MaxFrames, bits : SUBSET (0 .. 16)]]
      /\ StateIds = {one, ten, eleven}
    BY DEF WorkInv, ShapeInv, TypeOK, StateIds
<1>2. \A id \in StateIds : heard[id].at \in Nat /\ heard[id].at < frames
    BY <1>1 DEF WorkInv, HeardInOrder
<1>3. MaxFrames \in Nat
    BY CanAssumption DEF CanAssumption
<1>4. \A id \in StateIds : id # f.id => heard'[id] = heard[id]
    BY <1>1
<1>5. f.id \in StateIds => heard'[f.id] = [at |-> frames, bits |-> f.bits]
    BY <1>1
<1>6. f.bits \subseteq 0 .. 16 /\ f.id \in {one, "BMS_2", ten, eleven}
    BY DEF Frame
<1>7. heard' \in [StateIds -> [at : 0 .. MaxFrames, bits : SUBSET (0 .. 16)]]
    BY <1>1, <1>6
<1>8. \A id \in StateIds : heard'[id].at <= frames
    BY <1>2, <1>4, <1>5, <1>1
<1> DEFINE before == cached.work
           after  == cached'.work
<1>0. before \in SUBSET (0 .. 15) /\ f \in Frame /\ after = WorkState(before, f)
    BY <1>1
<1> HIDE DEF before, after
<1>9. /\ after \subseteq 0 .. 15
      /\ f.id = one => after \cap (0 .. 7) = f.bits \cap (0 .. 7)
      /\ f.id = ten => /\ after \cap (0 .. 7) = before \cap (0 .. 7)
                       /\ after \cap (8 .. 13) = f.bits
                       /\ f.bits \subseteq 8 .. 13
      /\ f.id = eleven => /\ after \cap (0 .. 13) = before \cap (0 .. 13)
                          /\ after \cap (14 .. 15) = f.bits \cap (0 .. 15)
                          /\ f.bits \subseteq 14 .. 16
      /\ f.id = "BMS_2" => after = before
    BY <1>0, Parts
<1> USE DEF before, after
<1>10. PartsInv'
  <2>1. PartsInv
      BY DEF WorkInv
  <2>2. CASE f.id = one
    <3>1. /\ heard'[one].at = frames /\ heard'[one].bits = f.bits
          /\ heard'[ten] = heard[ten] /\ heard'[eleven] = heard[eleven]
        BY <2>2, <1>1, <1>4, <1>5
    <3>2. cached'.work \cap (0 .. 7) = f.bits \cap (0 .. 7)
        BY <2>2, <1>9
    <3>3. ~(heard'[one].at < heard'[ten].at)
        BY <3>1, <1>2, <1>1
    <3> QED
        BY <2>1, <3>1, <3>2, <3>3 DEF PartsInv, Bits, Since
  <2>3. CASE f.id = ten
    <3>1. /\ heard'[ten].at = frames /\ heard'[ten].bits = f.bits
          /\ heard'[one] = heard[one] /\ heard'[eleven] = heard[eleven]
        BY <2>3, <1>1, <1>4, <1>5
    <3>2. /\ cached'.work \cap (0 .. 7) = cached.work \cap (0 .. 7)
          /\ cached'.work \cap (8 .. 13) = f.bits /\ f.bits \subseteq 8 .. 13
        BY <2>3, <1>9
    <3>3. ~(heard'[ten].at < heard'[eleven].at)
        BY <3>1, <1>2, <1>1
    <3> QED
        BY <2>1, <3>1, <3>2, <3>3 DEF PartsInv, Bits, Since
  <2>4. CASE f.id = eleven
    <3>1. /\ heard'[eleven].at = frames /\ heard'[eleven].bits = f.bits
          /\ heard'[one] = heard[one] /\ heard'[ten] = heard[ten]
        BY <2>4, <1>1, <1>4, <1>5
    <3>2. /\ cached'.work \cap (0 .. 13) = cached.work \cap (0 .. 13)
          /\ cached'.work \cap (14 .. 15) = f.bits \cap (0 .. 15)
          /\ f.bits \subseteq 14 .. 16
        BY <2>4, <1>9
    <3>3. /\ cached'.work \cap (0 .. 7) = cached.work \cap (0 .. 7)
          /\ cached'.work \cap (8 .. 13) = cached.work \cap (8 .. 13)
        BY <3>2
    <3> QED
        BY <2>1, <3>1, <3>2, <3>3 DEF PartsInv, Bits, Since
  <2>5. CASE f.id = "BMS_2"
    <3>1. cached'.work = cached.work
        BY <2>5, <1>9
    <3>2. f.id \notin StateIds
        BY <2>5, <1>1
    <3>3. heard' = heard
        BY <3>2
    <3> QED
        BY <2>1, <3>1, <3>3 DEF PartsInv, Bits, Since
  <2> QED
      BY <1>6, <2>2, <2>3, <2>4, <2>5
<1> QED
    BY <1>7, <1>8, <1>9, <1>10

\* The receiver hands a frame over.
LEMMA WorkCall == WorkInv /\ Call => WorkInv'
<1> SUFFICES ASSUME WorkInv, Call PROVE WorkInv'
    OBVIOUS
<1> DEFINE f == receiver.frame
<1>1. /\ receiver.at = "call" /\ receiver' = [at |-> "select"] /\ f \in Frame
      /\ intact' \in BOOLEAN
      /\ UNCHANGED <<receiving, table, driver, unmoved, daemon, running, frames>>
    BY DEF Call, WorkInv, ShapeInv, TypeOK, At
<1>2. CASE UNCHANGED <<cached, heard>>
  <2>1. ShapeInv'
      BY <1>1, <1>2 DEF WorkInv, ShapeInv, TypeOK
  <2>2. HeardInOrder' /\ PartsInv'
      BY <1>1, <1>2 DEF WorkInv, HeardInOrder, PartsInv, Bits, Since
  <2> QED
      BY <2>1, <2>2 DEF WorkInv
<1>3. CASE ~ UNCHANGED <<cached, heard>>
  <2>1. /\ cached' = [work |-> WorkState(cached.work, f),
                      volt |-> IF f.id = "BMS_2" THEN f.bits # {} ELSE cached.volt]
        /\ heard' = IF f.id \notin StateIds THEN heard
                    ELSE [heard EXCEPT ![f.id] = [at |-> frames, bits |-> f.bits]]
      BY <1>3 DEF Call
  <2> HIDE DEF f
  <2>2. cached'.work = WorkState(cached.work, f) /\ cached'.volt \in BOOLEAN
      BY <2>1 DEF WorkInv, ShapeInv, TypeOK
  <2>3. /\ cached'.work \subseteq 0 .. 15
        /\ heard' \in [StateIds -> [at : 0 .. MaxFrames, bits : SUBSET (0 .. 16)]]
        /\ \A id \in StateIds : heard'[id].at <= frames
        /\ PartsInv'
      BY <1>1, <2>1, <2>2, CallParts
  <2>4. ShapeInv'
      BY <1>1, <2>2, <2>3 DEF WorkInv, ShapeInv, TypeOK
  <2>5. HeardInOrder'
      BY <1>1, <2>3 DEF HeardInOrder
  <2> QED
      BY <2>3, <2>4, <2>5 DEF WorkInv
<1> QED
    BY <1>2, <1>3

\* A frame is read: whatever was heard is older.
LEMMA WorkFetch ==
    ASSUME WorkInv, NEW f \in Frame, Fetch(f)
    PROVE  WorkInv'
<1> DEFINE k == CHOOSE i \in DOMAIN Ids : Ids[i] = f.id
<1> USE CanAssumption DEF CanAssumption
<1>1. k \in DOMAIN Ids
  <2>1. f.id \in {"BMS_1", "BMS_2", "BMS_10", "BMS_11"}
      BY DEF Frame
  <2>2. \E i \in DOMAIN Ids : Ids[i] = f.id
      BY <2>1, FourIds DEF Ids
  <2> QED
      BY <2>2
<1>2. /\ frames < MaxFrames /\ frames' = frames + 1 /\ frames \in 0 .. MaxFrames
      /\ UNCHANGED <<receiving, table, driver, intact, cached, heard, unmoved, daemon,
                     running>>
    BY DEF Fetch, WorkInv, ShapeInv, TypeOK
<1>3. receiver.at = "select"
      /\ \/ receiver' = receiver
         \/ /\ table[k] # Nobody
            /\ receiver' = [at |-> "call", driver |-> table[k], frame |-> f]
    BY DEF Fetch
<1> HIDE DEF k
<1>4. ShapeInv'
  <2>1. /\ receiver'.at \in {"select", "call"}
        /\ receiver'.at = "call" => receiver'.driver \in Drivers /\ receiver'.frame \in Frame
      BY <1>1, <1>3 DEF WorkInv, ShapeInv, TypeOK
  <2>2. frames' \in 0 .. MaxFrames
      BY <1>2
  <2> QED
      BY <1>2, <2>1, <2>2 DEF WorkInv, ShapeInv, TypeOK
<1>5. HeardInOrder'
  <2>1. \A id \in StateIds : heard[id].at \in Nat /\ heard[id].at <= frames
      BY DEF WorkInv, ShapeInv, TypeOK, HeardInOrder
  <2> QED
      BY <1>2, <2>1 DEF HeardInOrder
<1>6. PartsInv'
    BY <1>2 DEF WorkInv, PartsInv, Bits, Since
<1> QED
    BY <1>4, <1>5, <1>6 DEF WorkInv

\* Whoever leaves the frames, the cache and what was heard alone keeps what
\* work_state says.
LEMMA WorkStays ==
    ASSUME WorkInv, ShapeInv', UNCHANGED <<cached, heard, frames>>,
           receiver'.at = "call" => receiver.at = "call"
    PROVE  WorkInv'
BY DEF WorkInv, HeardInOrder, PartsInv, Bits, Since

\* A constructor or a destructor takes a step.
LEMMA WorkLives ==
    ASSUME WorkInv, IInv, IInv', NEW d \in Drivers,
           \/ Construct(d) \/ AddCallback(d) \/ Destroy(d) \/ RemoveCallback(d),
           daemon' \in [at : {"start", "loop", "destroy", "close", "exited"},
                        stale : 0 .. MaxStale]
    PROVE  WorkInv'
<1>1. /\ table' \in [DOMAIN Ids -> Drivers \cup {Nobody}]
      /\ \A e \in Drivers :
           /\ driver'[e].at \in {"none", "adding", "up", "removing", "dead"}
           /\ driver'[e].done \in 0 .. Len(Ids) - 1
  <2>1. \A e \in Drivers : driver'[e] \in [at : Phases, done : 0 .. Last - 1]
      BY DEF IInv, LivesOK
  <2> QED
      BY <2>1 DEF IInv, LivesOK, Phases, Last
<1>2. /\ receiver'.at \in {"select", receiver.at}
      /\ receiver'.at = "call" => receiver' = receiver
      /\ receiving' \in BOOLEAN /\ UNCHANGED <<intact, cached, heard, running, frames>>
  <2>1. CASE Construct(d)
    <3>1. UNCHANGED <<intact, cached, heard, running, frames>>
        BY <2>1 DEF Construct
    <3>2. \/ receiver' = [at |-> "select"] /\ receiving' = TRUE
          \/ UNCHANGED <<receiver, receiving>>
        BY <2>1 DEF Construct
    <3>3. receiving' \in BOOLEAN
        BY <3>2 DEF WorkInv, ShapeInv, TypeOK
    <3>4. receiver'.at = "select" \/ receiver' = receiver
        BY <3>2
    <3> QED
        BY <3>1, <3>3, <3>4
  <2>2. CASE AddCallback(d) \/ Destroy(d) \/ RemoveCallback(d)
      BY <2>2 DEF AddCallback, Destroy, RemoveCallback, WorkInv, ShapeInv, TypeOK
  <2> QED
      BY <2>1, <2>2
<1>3. unmoved' \in BOOLEAN
    BY DEF Construct, AddCallback, Destroy, RemoveCallback, WorkInv, ShapeInv, TypeOK
<1>4. daemon'.stale \in 0 .. MaxStale
    OBVIOUS
<1>5. ShapeInv'
    BY <1>1, <1>2, <1>3, <1>4 DEF WorkInv, ShapeInv, TypeOK
<1> QED
    BY <1>2, <1>5, WorkStays

\* The others touch neither the table nor a driver.
LEMMA WorkBystander ==
    ASSUME WorkInv,
           \/ SelectFails \/ StopReceiving \/ DaemonStartFails \/ DaemonRead \/ Close \/ Exit \/ Signal
           \/ UNCHANGED vars
    PROVE  WorkInv'
<1> USE CanAssumption DEF CanAssumption
<1>1. /\ UNCHANGED <<table, driver, intact, cached, heard, unmoved, frames>>
      /\ receiver' = receiver \/ receiver' = [at |-> "over"]
      /\ receiving' \in BOOLEAN /\ running' \in BOOLEAN
    BY DEF WorkInv, ShapeInv, TypeOK, SelectFails, StopReceiving, DaemonStartFails,
           DaemonRead, Close, Exit, Signal, vars
<1>2. /\ daemon' \in [at : {"start", "loop", "destroy", "close", "exited"},
                      stale : 0 .. MaxStale]
  <2>1. CASE DaemonRead
    <3>1. daemon.stale \in 0 .. MaxStale /\ daemon.stale < MaxStale
        BY <2>1 DEF DaemonRead, WorkInv, ShapeInv, TypeOK
    <3>2. (IF cached.volt THEN 0 ELSE daemon.stale + 1) \in 0 .. MaxStale
        BY <3>1
    <3> QED
        BY <2>1, <3>2 DEF DaemonRead, WorkInv, ShapeInv
  <2>2. CASE ~DaemonRead
      BY <2>2 DEF WorkInv, ShapeInv, SelectFails, StopReceiving, DaemonStartFails, Close,
                  Exit, Signal, vars
  <2> QED
      BY <2>1, <2>2
<1>3. ShapeInv'
  <2>1. daemon'.stale \in 0 .. MaxStale
      BY <1>2
  <2> QED
      BY <1>1, <1>2, <2>1 DEF WorkInv, ShapeInv, TypeOK
<1> QED
    BY <1>1, <1>3, WorkStays

\* One case per action.
LEMMA WorkStep == WorkInv /\ IInv /\ IInv' /\ [Next]_vars => WorkInv'
<1> SUFFICES ASSUME WorkInv, IInv, IInv', [Next]_vars PROVE WorkInv'
    OBVIOUS
<1> DEFINE Typed == daemon' \in [at : {"start", "loop", "destroy", "close", "exited"},
                                 stale : 0 .. MaxStale]
<1>0. Own \in Drivers /\ daemon \in [at : {"start", "loop", "destroy", "close", "exited"},
                                     stale : 0 .. MaxStale]
    BY CanAssumption DEF CanAssumption, WorkInv, ShapeInv
<1>1. CASE Receiver
    BY <1>1, WorkCall, WorkFetch, WorkBystander DEF Receiver
<1>2. CASE Daemon
  <2>1. CASE DaemonStart \/ DaemonEnds
    <3>1. Typed
        BY <1>0, <2>1 DEF DaemonStart, DaemonEnds
    <3> QED
        BY <1>0, <2>1, <3>1, WorkLives DEF DaemonStart, DaemonEnds
  <2>2. CASE AddCallback(Own) \/ RemoveCallback(Own)
    <3>1. Typed
        BY <1>0, <2>2 DEF AddCallback, RemoveCallback
    <3> QED
        BY <1>0, <2>2, <3>1, WorkLives
  <2> QED
      BY <1>2, <2>1, <2>2, WorkBystander DEF Daemon
<1>3. CASE Signal
    BY <1>3, WorkBystander
<1>4. ASSUME NEW d \in Drivers \ {Own}, Other(d) PROVE WorkInv'
  <2>1. Typed
      BY <1>0, <1>4 DEF Other, OtherStart, OtherEnds, AddCallback, RemoveCallback
  <2> QED
      BY <1>4, <2>1, WorkLives DEF Other, OtherStart, OtherEnds
<1>5. CASE UNCHANGED vars
    BY <1>5, WorkBystander
<1> QED
    BY <1>1, <1>2, <1>3, <1>4, <1>5 DEF Next

\* The invariant of the receiver and the cache, in every reachable state.
THEOREM WorkInductive == Spec => []WorkInv
<1>1. Init => WorkInv
    BY WorkInitially
<1>2. WorkInv /\ IInv /\ IInv' /\ [Next]_vars => WorkInv'
    BY WorkStep
<1> QED
    BY <1>1, <1>2, Inductive, PTL DEF Spec

\* Every variable keeps its type, so work_state its sixteen bits and the stale
\* counter of run_can_daemon() its limit.
THEOREM TypeCorrect == Spec => []TypeOK
<1>1. WorkInv => TypeOK
    BY DEF WorkInv, ShapeInv
<1> QED
    BY <1>1, WorkInductive, PTL

\* Where BMS_1, BMS_10 and BMS_11 come in this order, work_state says what the
\* three said, whatever other frames came before, between or after, and
\* whatever other drivers did to the table meanwhile (gfcan_bms_driver.cpp).
THEOREM WorkStateExact == Spec => []WorkStateIsLatest
<1>1. WorkInv => WorkStateIsLatest
  <2> SUFFICES ASSUME WorkInv, Since("BMS_10", "BMS_1"), Since("BMS_11", "BMS_10")
               PROVE  cached.work = (Bits("BMS_1") \cap (0 .. 7)) \cup Bits("BMS_10")
                                        \cup (Bits("BMS_11") \cap (0 .. 15))
      BY DEF WorkStateIsLatest, Bits, Since
  <2>1. /\ cached.work \cap (0 .. 7) = Bits("BMS_1") \cap (0 .. 7)
        /\ cached.work \cap (8 .. 13) = Bits("BMS_10")
        /\ cached.work \cap (14 .. 15) = Bits("BMS_11") \cap (0 .. 15)
      BY DEF WorkInv, PartsInv
  <2>2. cached.work \subseteq 0 .. 15
      BY DEF WorkInv, ShapeInv, TypeOK
  <2>3. cached.work = (cached.work \cap (0 .. 7)) \cup (cached.work \cap (8 .. 13))
                          \cup (cached.work \cap (14 .. 15))
      BY <2>2
  <2> QED
      BY <2>1, <2>3
<1> QED
    BY <1>1, WorkInductive, PTL
=============================================================================

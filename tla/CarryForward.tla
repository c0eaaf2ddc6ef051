----------------------------- MODULE CarryForward -----------------------------
(***************************************************************************)
(* What run_daemon() promises of the records of a TWS or GF485 pack        *)
(* (bms_daemon.cpp, the branch that carries fields forward): each record   *)
(* moves at least one group of fields forward to measurements made since   *)
(* the record before, and takes nothing back.  Only a restarted daemon     *)
(* begins again, from zeros, and then with later measurements only.        *)
(***************************************************************************)
EXTENDS Integers

CONSTANT Groups   \* the groups of fields that one query fills

VARIABLES
    rec,    \* the measurement each group of the last record holds, 0 for none
    now,    \* the number of measurements begun so far
    born    \* how many of them before the daemon started

recordVars == <<rec, now, born>>

Zeros == [g \in Groups |-> 0]
RecordOK == rec \in [Groups -> 0 .. now] /\ now \in Nat /\ born \in 0 .. now

RecordInit == rec = Zeros /\ now = 0 /\ born = 0

Measure == now' = now + 1 /\ UNCHANGED <<rec, born>>

Newer(g) == rec'[g] > born /\ \A h \in Groups : rec'[g] > rec[h]

Publish ==
    /\ rec' \in [Groups -> 0 .. now]
    /\ rec' # rec
    /\ \A g \in Groups : rec'[g] = rec[g] \/ Newer(g)
    /\ UNCHANGED <<now, born>>

Restart ==
    /\ rec' = Zeros
    /\ born' = now
    /\ UNCHANGED now

RecordSpec == RecordInit /\ [][Measure \/ Publish \/ Restart]_recordVars
=============================================================================

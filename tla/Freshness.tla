------------------------------ MODULE Freshness ------------------------------
(***************************************************************************)
(* What a caller of the SCUD485 client driver may conclude from            *)
(* is_connected() and is_power_on(), whatever the driver does inside: an   *)
(* answer TRUE is always earned.                                           *)
(*                                                                         *)
(* "An open socket that has not delivered a record yet is not a battery    *)
(* the robot may act on" and "an expired record must never be read back as *)
(* the current hardware state" (scud_bms_driver.cpp, disconnect() and      *)
(* is_power_on()).  The driver answers while its reader thread works, so   *)
(* an answer is judged against every instant of the call: TRUE needs one   *)
(* instant at which it was true.  FALSE is always allowed.                 *)
(***************************************************************************)
EXTENDS Integers

CONSTANTS
    Callers,   \* threads of the robot process that query the driver
    Window     \* age, since publication, up to which a record counts

VARIABLES
    now,       \* the monotonic clock
    link,      \* a socket to the daemon is up
    seen,      \* the newest record this session delivered, or NoRecord
    query,     \* query[c]: what c waits for, then its answer, then "none"
    could      \* could[c]: TRUE was the right answer at an instant of the call

vars == <<now, link, seen, query, could>>

Questions == {"connected", "power"}
Answers   == {"yes", "no"}
Record    == [at : Nat, power : BOOLEAN]
NoRecord  == [at |-> -1, power |-> FALSE]

Current == seen # NoRecord /\ now - seen.at <= Window

\* "Yes" is the right answer to question q in this state.
Holds(q) ==
    \/ q = "connected" /\ link /\ Current
    \/ q = "power" /\ Current /\ seen.power

\* What each pending call has witnessed, updated by every step: "yes" was
\* already right at an earlier instant of the call, or it is right now.
Witness ==
    could' = [c \in Callers |->
                /\ query'[c] \in Questions
                /\ could[c] \/ Holds(query[c])']

-----------------------------------------------------------------------------
Init ==
    /\ now = 0
    /\ link = FALSE
    /\ seen = NoRecord
    /\ query = [c \in Callers |-> "none"]
    /\ could = [c \in Callers |-> FALSE]

Tick ==
    /\ now' = now + 1
    /\ Witness
    /\ UNCHANGED <<link, seen, query>>

\* A new session starts knowing nothing about the battery.
Link ==
    /\ ~link /\ seen = NoRecord
    /\ link' = TRUE
    /\ Witness
    /\ UNCHANGED <<now, seen, query>>

\* Within a session records arrive in the order they were published.
Deliver ==
    /\ link
    /\ seen' \in Record
    /\ seen.at <= seen'.at /\ seen'.at <= now
    /\ Witness
    /\ UNCHANGED <<now, link, query>>

Unlink ==
    /\ link' = FALSE
    /\ Witness
    /\ UNCHANGED <<now, seen, query>>

\* The old session's record must be gone before the next session starts.
Forget ==
    /\ ~link
    /\ seen' = NoRecord
    /\ Witness
    /\ UNCHANGED <<now, link, query>>

Ask(c, q) ==
    /\ query[c] = "none"
    /\ query' = [query EXCEPT ![c] = q]
    /\ Witness
    /\ UNCHANGED <<now, link, seen>>

Answer(c, a) ==
    /\ query[c] \in Questions
    /\ a = "yes" => could[c]
    /\ query' = [query EXCEPT ![c] = a]
    /\ Witness
    /\ UNCHANGED <<now, link, seen>>

\* "No" needs no witness, so a call may give it as its first step.
Refuse(c) ==
    /\ query[c] = "none"
    /\ query' = [query EXCEPT ![c] = "no"]
    /\ Witness
    /\ UNCHANGED <<now, link, seen>>

Return(c) ==
    /\ query[c] \in Answers
    /\ query' = [query EXCEPT ![c] = "none"]
    /\ Witness
    /\ UNCHANGED <<now, link, seen>>

Next ==
    \/ Tick \/ Link \/ Deliver \/ Unlink \/ Forget
    \/ \E c \in Callers : \/ \E q \in Questions : Ask(c, q)
                          \/ \E a \in Answers : Answer(c, a)
                          \/ Refuse(c) \/ Return(c)

Spec == Init /\ [][Next]_vars
=============================================================================

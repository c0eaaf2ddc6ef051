----------------------------- MODULE OtaTransfer -----------------------------
(***************************************************************************)
(* The firmware update of src/scripts/bms_ota.py (BmsOta.run() and what it *)
(* calls) against a pack that answers late, with errors or not at all.     *)
(*                                                                         *)
(* The script talks to the pack in five phases: the version of the running *)
(* application, the jump into the bootloader, the upgrade request, the     *)
(* metadata, the blocks, and the version again.  In each it writes a frame *)
(* and reads until an answer of that command or a deadline, a bounded      *)
(* number of times; nothing is flushed between the phases that talk to the *)
(* bootloader, so answers to an earlier attempt may come in a later one.   *)
(* A frame arrives whole or not at all: a damaged one is skipped.          *)
(*                                                                         *)
(* The pack is external.  It is modelled from what the script expects of   *)
(* it: it takes commands in order and only ever asks for the next block.   *)
(***************************************************************************)
EXTENDS Integers, Sequences

CONSTANTS
    Blocks,      \* total_blocks of the image
    MaxPending,  \* bound on the frames a deadline may pass on
    MaxRuns      \* bound on the runs of the script

ASSUME OtaAssumption ==
    Blocks \in Nat \ {0} /\ MaxPending \in Nat \ {0} /\ MaxRuns \in Nat \ {0}

VARIABLES
    pc,       \* the step of the script
    attempt,  \* the attempt of the loop it is in
    pkt,      \* pkt_idx
    before,   \* version_before, "none" when it was not read
    result,   \* how run() ended
    cmds,     \* frames written that the pack has not taken
    rx,       \* frames received: the serial input, then rx_buffer
    dev,      \* the pack
    faults,   \* history: what went wrong during the transfer, up to 3
    runs      \* history: runs of the script so far

script == <<pc, attempt, pkt, before, result>>
vars == <<pc, attempt, pkt, before, result, cmds, rx, dev, faults, runs>>

Versions == {"old", "new"}
Success == {"updated", "upToDate"}
Failure == {"rejected", "metadata", "resume", "packet", "unrecovered",
            "unchanged", "io"}
Transfer == {"block", "blockRead"}

\* mode: what runs; next: the block it asks for, those below are written;
\* open: metadata accepted; writing: block next is on its way into flash.
Pack == [mode : {"app", "boot"}, app : Versions, next : 0..Blocks,
         open : BOOLEAN, writing : BOOLEAN]
Commands == [cmd : {"version", "jump", "request", "metadata"}, n : {0}]
                \cup [cmd : {"block"}, n : 0..Blocks-1]
Answers == [cmd : {"version"}, status : Versions, req : {0}]
    \cup [cmd : {"request"}, status : {"ok", "rejected"}, req : {0}]
    \cup [cmd : {"metadata"}, status : {"upToDate", "erasing", "ready", "failed"},
          req : 0..Blocks]
    \cup [cmd : {"block"}, status : {"ok", "written", "busy", "error"},
          req : 0..Blocks]

TypeOK ==
    /\ pc \in Transfer \cup {"version", "versionRead", "jump", "bootWait",
         "request", "requestRead", "metadata", "metadataRead",
         "verify", "verifyRead", "done"}
    /\ attempt \in 1..10
    /\ pkt \in 0..Blocks
    /\ before \in Versions \cup {"none"}
    /\ result \in Success \cup Failure \cup {"none"}
    /\ cmds \in Seq(Commands) /\ rx \in Seq(Answers)
    /\ dev \in Pack
    /\ faults \in 0..3 /\ runs \in 1..MaxRuns

Init ==
    /\ pc = "version" /\ attempt = 1 /\ pkt = 0
    /\ before = "none" /\ result = "none"
    /\ cmds = <<>> /\ rx = <<>>
    /\ dev \in [mode : {"app", "boot"}, app : Versions, next : {0},
                open : {FALSE}, writing : {FALSE}]
    /\ faults = 0 /\ runs = 1

-----------------------------------------------------------------------------
(* Steps of the script.                                                    *)

Goto(next) == pc' = next /\ UNCHANGED result
Finish(r) == pc' = "done" /\ result' = r

\* send_frame(), and the two frames that are written without it.
Send(cmd, n) == cmds' = Append(cmds, [cmd |-> cmd, n |-> n])

\* Mutant: the loop does not count its attempts.
TryForever(limit, again, giveUp) == Goto(again) /\ UNCHANGED attempt

\* Mutant: the loop counts on after its last attempt.
TryOn(limit, again, giveUp) == attempt' = attempt + 1 /\ Goto(again)

\* The loops "for attempt in range(1, limit + 1)": again, or give up.
TryAgain(limit, again, giveUp) ==
    IF attempt < limit THEN attempt' = attempt + 1 /\ Goto(again)
                       ELSE attempt' = 1 /\ giveUp

\* The answer that read_response() or read_app_version() takes next.
Answer(cmd) == rx # <<>> /\ Head(rx).cmd = cmd /\ rx' = Tail(rx)

\* Nothing came before the deadline.
Deadline == Len(cmds) + Len(rx) < MaxPending /\ UNCHANGED rx

Fault == faults' = IF pc \in Transfer /\ faults < 3 THEN faults + 1 ELSE faults

\* read_app_version() flushes the input and writes its query.
AskVersion ==
    \/ /\ pc = "version" /\ pc' = "versionRead"
       /\ rx' = <<>> /\ Send("version", 0)
       /\ UNCHANGED <<attempt, pkt, before, result, dev, faults, runs>>
    \/ /\ pc = "verify" /\ pc' = "verifyRead"
       /\ rx' = <<>> /\ Send("version", 0)
       /\ UNCHANGED <<attempt, pkt, before, result, dev, faults, runs>>

\* Whatever else is read first fails the query; the update goes on without.
VersionBefore ==
    /\ pc = "versionRead" /\ Goto("jump")
    /\ \/ Answer("version") /\ before' = Head(rx).status
       \/ rx # <<>> /\ Head(rx).cmd # "version" /\ rx' = Tail(rx) /\ UNCHANGED before
       \/ Deadline /\ UNCHANGED before
    /\ UNCHANGED <<attempt, pkt, cmds, dev, faults, runs>>

Jump ==
    /\ pc = "jump" /\ Goto("bootWait")
    /\ rx' = <<>> /\ Send("jump", 0)
    /\ UNCHANGED <<attempt, pkt, before, dev, faults, runs>>

\* Mutant: the input is not flushed, and the pack not waited for.
BootAtOnce ==
    /\ pc = "bootWait" /\ Goto("request")
    /\ UNCHANGED <<attempt, pkt, before, cmds, rx, dev, faults, runs>>

\* The 10 s sleep outlives whatever the pack still had to answer; then all
\* input is dropped.  The answer to the jump changes nothing.
BootWait ==
    /\ pc = "bootWait" /\ cmds = <<>> /\ ~dev.writing
    /\ Goto("request")
    /\ rx' = <<>>
    /\ UNCHANGED <<attempt, pkt, before, cmds, dev, faults, runs>>

\* expected_cmd of the calls of read_response().
Expected == [requestRead |-> "request", metadataRead |-> "metadata",
             blockRead |-> "block"]

\* read_response() drops a frame of another command.
SkipLate ==
    /\ pc \in DOMAIN Expected /\ rx # <<>> /\ Head(rx).cmd # Expected[pc]
    /\ rx' = Tail(rx)
    /\ UNCHANGED <<script, cmds, dev, faults, runs>>

SendRequest ==
    /\ pc = "request" /\ Goto("requestRead")
    /\ Send("request", 0)
    /\ UNCHANGED <<attempt, pkt, before, rx, dev, faults, runs>>

\* Without an answer after three attempts the metadata is tried all the same.
ReadRequest ==
    /\ pc = "requestRead"
    /\ \/ /\ Answer("request") /\ attempt' = 1
          /\ IF Head(rx).status = "ok" THEN Goto("metadata") ELSE Finish("rejected")
       \/ Deadline /\ TryAgain(3, "request", Goto("metadata"))
    /\ UNCHANGED <<pkt, before, cmds, dev, faults, runs>>

SendMetadata ==
    /\ pc = "metadata" /\ Goto("metadataRead")
    /\ Send("metadata", 0)
    /\ UNCHANGED <<attempt, pkt, before, rx, dev, faults, runs>>

\* What run() makes of a metadata answer.  "failed" also stands for an
\* unsupported packet size and an image of more than 65535 blocks.
MetadataVerdict(m) ==
    CASE m.status = "erasing"  -> TryAgain(5, "metadata", Finish("metadata"))
      [] m.status = "upToDate" -> attempt' = 1 /\ Finish("upToDate")
      [] m.status = "failed"   -> attempt' = 1 /\ Finish("rejected")
      [] m.req # 0             -> attempt' = 1 /\ Finish("resume")
      [] OTHER                 -> attempt' = 1 /\ Goto("block")

ReadMetadata ==
    /\ pc = "metadataRead"
    /\ \/ Answer("metadata") /\ MetadataVerdict(Head(rx))
       \/ Deadline /\ TryAgain(5, "metadata", Finish("metadata"))
    /\ UNCHANGED <<pkt, before, cmds, dev, faults, runs>>

SendBlock ==
    /\ pc = "block" /\ Goto("blockRead")
    /\ Send("block", pkt)
    /\ UNCHANGED <<attempt, pkt, before, rx, dev, faults, runs>>

\* The answer says that block pkt is written.
PacketDone(b) == b.status \in {"ok", "written"} /\ b.req = pkt + 1

\* Mutant: "waiting for packet write completion" ends the attempt.
WaitForNothing(b) == FALSE

\* The answer says to go on reading until the deadline.
KeepWaiting(b) ==
    \/ b.status = "ok" /\ b.req <= pkt
    \/ b.status = "written" /\ b.req # pkt + 1

NextPacket ==
    /\ pkt' = pkt + 1 /\ attempt' = 1
    /\ IF pkt + 1 = Blocks THEN Goto("verify") ELSE Goto("block")

ReadBlock ==
    /\ pc = "blockRead" /\ Answer("block")
    /\ LET b == Head(rx) IN
         \/ PacketDone(b) /\ NextPacket
         \/ ~PacketDone(b) /\ KeepWaiting(b) /\ UNCHANGED <<pc, attempt, pkt, result>>
         \/ /\ ~PacketDone(b) /\ ~KeepWaiting(b) /\ UNCHANGED pkt
            /\ TryAgain(3, "block", Finish("packet"))
    /\ UNCHANGED <<before, cmds, dev, faults, runs>>

\* A deadline that passes over an answer still on its way is a fault; one that
\* passes because a frame was lost is not another one.
BlockDeadline ==
    /\ pc = "blockRead" /\ Deadline
    /\ TryAgain(3, "block", Finish("packet"))
    /\ IF cmds # <<>> \/ rx # <<>> \/ dev.writing THEN Fault ELSE UNCHANGED faults
    /\ UNCHANGED <<pkt, before, cmds, dev, runs>>

\* Mutant: the versions are not compared.
ReportAny(version) == Finish("updated")

\* report_app_version()
Report(version) ==
    Finish(IF before # "none" /\ version = before THEN "unchanged" ELSE "updated")

\* verify_completion()
Verify ==
    /\ pc = "verifyRead"
    /\ \/ Answer("version") /\ attempt' = 1 /\ Report(Head(rx).status)
       \/ /\ rx # <<>> /\ Head(rx).cmd # "version" /\ rx' = Tail(rx)
          /\ TryAgain(10, "verify", Finish("unrecovered"))
       \/ Deadline /\ TryAgain(10, "verify", Finish("unrecovered"))
    /\ UNCHANGED <<pkt, before, cmds, dev, faults, runs>>

\* The except clause: the port fails.
IoError ==
    /\ pc # "done" /\ Finish("io")
    /\ UNCHANGED <<attempt, pkt, before, cmds, rx, dev, faults, runs>>

\* The script is killed at any point, or has ended, and is started again.
Rerun ==
    /\ runs < MaxRuns /\ runs' = runs + 1
    /\ pc' = "version" /\ attempt' = 1 /\ pkt' = 0
    /\ before' = "none" /\ result' = "none"
    /\ rx' = <<>> /\ faults' = 0
    /\ UNCHANGED <<cmds, dev>>

-----------------------------------------------------------------------------
(* The pack (external).                                                    *)

Take(cmd) == cmds # <<>> /\ Head(cmds).cmd = cmd /\ cmds' = Tail(cmds)

\* An answer is sent, or lost.
Reply(cmd, status, req) ==
    \/ /\ rx' = Append(rx, [cmd |-> cmd, status |-> status, req |-> req])
       /\ IF status \in {"busy", "error"} THEN Fault ELSE UNCHANGED faults
    \/ UNCHANGED rx /\ Fault

Whole == dev.next = Blocks \/ dev.app = "new"
Ready == dev.mode = "boot" /\ dev.open

\* A command that is lost, or that what runs in the pack does not know.
Ignore ==
    /\ cmds # <<>> /\ cmds' = Tail(cmds)
    /\ Fault
    /\ UNCHANGED <<script, rx, dev, runs>>

AppAnswers ==
    /\ dev.mode = "app"
    /\ \/ Take("version") /\ Reply("version", dev.app, 0) /\ UNCHANGED dev
       \/ /\ Take("jump") /\ UNCHANGED <<rx, faults>>
          /\ dev' = [dev EXCEPT !.mode = "boot", !.open = FALSE, !.writing = FALSE]
    /\ UNCHANGED <<script, runs>>

RequestAnswer ==
    /\ dev.mode = "boot" /\ Take("request")
    /\ \E status \in {"ok", "rejected"} : Reply("request", status, 0)
    /\ UNCHANGED <<script, dev, runs>>

\* Metadata of an image it has is refused; otherwise the pack erases, answering
\* so until it is done, or goes on with the blocks it has.
MetadataAnswer ==
    /\ dev.mode = "boot" /\ Take("metadata")
    /\ \/ Whole /\ Reply("metadata", "upToDate", 0) /\ UNCHANGED dev
       \/ ~Whole /\ ~dev.open /\ Reply("metadata", "erasing", 0) /\ UNCHANGED dev
       \/ ~Whole /\ Reply("metadata", "failed", 0) /\ UNCHANGED dev
       \/ /\ ~Whole /\ Reply("metadata", "ready", 0)
          /\ dev' = [dev EXCEPT !.open = TRUE, !.next = 0, !.writing = FALSE]
       \/ /\ ~Whole /\ dev.open /\ Reply("metadata", "ready", dev.next)
          /\ UNCHANGED dev
    /\ UNCHANGED <<script, runs>>

BlockAnswer ==
    /\ dev.mode = "boot" /\ Take("block")
    /\ LET fits == dev.open /\ ~dev.writing /\ Head(cmds).n = dev.next IN
         \/ /\ fits
            /\ dev' = [dev EXCEPT !.next = @ + 1]
            /\ \E status \in {"ok", "written"} : Reply("block", status, dev.next + 1)
         \/ /\ fits
            /\ dev' = [dev EXCEPT !.writing = TRUE]
            /\ Reply("block", "ok", dev.next)
         \/ /\ dev.open /\ ~dev.writing /\ Head(cmds).n < dev.next /\ UNCHANGED dev
            /\ \E status \in {"ok", "written"} : Reply("block", status, dev.next)
         \/ dev.writing /\ UNCHANGED dev /\ Reply("block", "busy", dev.next)
         \/ UNCHANGED dev /\ Reply("block", "error", dev.next)
    /\ UNCHANGED <<script, runs>>

WriteDone ==
    /\ dev.writing
    /\ dev' = [dev EXCEPT !.writing = FALSE, !.next = @ + 1]
    /\ Reply("block", "written", dev.next + 1)
    /\ UNCHANGED <<script, cmds, runs>>

\* With the whole image written the pack restarts, into the new application
\* or back into the one it had.
Restart ==
    /\ Ready /\ dev.next = Blocks
    /\ \E app \in {"new", dev.app} :
          dev' = [dev EXCEPT !.mode = "app", !.app = app, !.open = FALSE]
    /\ UNCHANGED <<script, cmds, rx, faults, runs>>

-----------------------------------------------------------------------------
Script ==
    \/ AskVersion \/ VersionBefore \/ Jump \/ BootWait \/ SkipLate
    \/ SendRequest \/ ReadRequest \/ SendMetadata \/ ReadMetadata
    \/ SendBlock \/ ReadBlock \/ BlockDeadline \/ Verify

Device ==
    \/ Ignore \/ AppAnswers \/ RequestAnswer \/ MetadataAnswer
    \/ BlockAnswer \/ WriteDone \/ Restart

Next == Script \/ IoError \/ Rerun \/ Device

Spec == Init /\ [][Next]_vars

\* Reads return at their deadline; commands do not stay on the wire.
FairSpec == Spec /\ WF_vars(Script) /\ WF_vars(Device)

-----------------------------------------------------------------------------
(* Properties.                                                             *)

\* During the transfer the pack is never behind the block the script counts
\* as acknowledged, nor more than one ahead of it, whatever answers of earlier
\* attempts and runs are read: pkt_idx only moves with what was written.
InStep == pc \in Transfer => pkt <= dev.next /\ dev.next <= pkt + 1

\* run() returns True only if the pack holds the whole image; after a transfer
\* whose start version was read, only if it runs another version.
SuccessIsWhole ==
    /\ result \in Success => Whole
    /\ result = "updated" =>
          dev.next = Blocks /\ (before # "none" => dev.app # before)

\* A packet is given up only after three faults, however late answers of the
\* attempts before are, or when the pack has restarted with the whole image.
SurvivesTwoFaults == result = "packet" => faults = 3 \/ dev.mode = "app"

\* Every run ends, so that ExecStopPost starts the daemon again.
RunEnds == []<>(pc = "done")
=============================================================================

-------------------------- MODULE OtaTransferProofs --------------------------
(***************************************************************************)
(* The update script and the bootloader stay in step during the transfer,  *)
(* run() reports success only for a whole image, it gives a packet up only *)
(* after three faults, and it takes a bounded number of steps, for an      *)
(* image of any size, any number of runs and any lateness.                 *)
(***************************************************************************)
EXTENDS OtaTransfer, SequenceTheorems, TLAPS

-----------------------------------------------------------------------------
(* The inductive invariant, part by part.                                  *)

NoBlocks(s) == \A i \in 1 .. Len(s) : s[i].cmd # "block"

Starting == {"version", "versionRead", "jump", "bootWait"}
Asking == {"request", "requestRead", "metadata", "metadataRead"}

\* There is a block to send, and one to write.
RangeInv ==
    /\ pc \in Transfer => pkt < Blocks
    /\ dev.writing => dev.next < Blocks

\* Until the transfer starts the line holds nothing of another one, and an
\* answer that asks for block 0 is true.
AskingInv ==
    /\ pc \in Starting \cup Asking => pkt = 0
    /\ pc \in Asking =>
          /\ ~dev.writing /\ NoBlocks(cmds) /\ NoBlocks(rx)
          /\ \A i \in 1 .. Len(rx) :
                rx[i].status = "ready" /\ rx[i].req = 0 => dev.next = 0

\* No block behind pkt is on its way, and no answer promises more than is
\* written.
BlocksInv ==
    pc \in Transfer =>
        /\ \A i \in 1 .. Len(cmds) : cmds[i].cmd = "block" => cmds[i].n <= pkt
        /\ \A i \in 1 .. Len(rx) : rx[i].cmd = "block" => rx[i].req <= dev.next
        /\ dev.writing => dev.next <= pkt

\* Metadata still on its way, sent again before an answer came, is ahead of
\* every block: erasing then takes nothing away.
MetadataInv ==
    pc \in Transfer =>
        \A i \in 1 .. Len(cmds) : cmds[i].cmd = "metadata" =>
            /\ dev.next = 0 /\ ~dev.writing /\ NoBlocks(rx)
            /\ \A j \in 1 .. i : cmds[j].cmd # "block"

IInv == TypeOK /\ RangeInv /\ AskingInv /\ BlocksInv /\ MetadataInv /\ InStep

-----------------------------------------------------------------------------
(* Frames are taken from the front of the line and put at its end.         *)

\* What taking a frame leaves.
LEMMA TakeFrame ==
  ASSUME NEW S, NEW s \in Seq(S), s # <<>>
  PROVE  /\ Len(s) \in Nat /\ Len(s) > 0
         /\ Head(s) = s[1] /\ Head(s) \in S
         /\ Tail(s) \in Seq(S) /\ Len(Tail(s)) = Len(s) - 1
         /\ \A i \in 1 .. Len(Tail(s)) : i + 1 \in 1 .. Len(s) /\ Tail(s)[i] = s[i + 1]
  OBVIOUS

\* What putting a frame makes.
LEMMA PutFrame ==
  ASSUME NEW S, NEW s \in Seq(S), NEW f \in S
  PROVE  /\ Append(s, f) \in Seq(S) /\ Len(s) \in Nat
         /\ Len(Append(s, f)) = Len(s) + 1
         /\ \A i \in 1 .. Len(s) : Append(s, f)[i] = s[i]
         /\ Append(s, f)[Len(s) + 1] = f
  OBVIOUS

-----------------------------------------------------------------------------
(* Type correctness.                                                       *)

\* Every step keeps the types: blocks stay within the image.
LEMMA TypeNext ==
  ASSUME TypeOK, RangeInv, [Next]_vars
  PROVE  TypeOK'
<1> USE OtaAssumption DEF TypeOK
<1>1. CASE UNCHANGED vars
  BY <1>1 DEF vars
<1>2. rx # <<>> => Tail(rx) \in Seq(Answers) /\ Head(rx) \in Answers
  BY TakeFrame
<1>3. cmds # <<>> => Tail(cmds) \in Seq(Commands) /\ Head(cmds) \in Commands
  BY TakeFrame
<1>4. <<>> \in Seq(Answers)
  OBVIOUS
<1>5. ASSUME NEW cmd, NEW n, [cmd |-> cmd, n |-> n] \in Commands, Send(cmd, n)
      PROVE  cmds' \in Seq(Commands)
  BY <1>5, PutFrame DEF Send
<1>6. /\ \A cmd \in {"version", "jump", "request", "metadata"} :
            [cmd |-> cmd, n |-> 0] \in Commands
      /\ pc = "block" => [cmd |-> "block", n |-> pkt] \in Commands
  BY DEF Commands, RangeInv, Transfer
<1>7. ASSUME NEW cmd, NEW status, NEW req,
             [cmd |-> cmd, status |-> status, req |-> req] \in Answers,
             Reply(cmd, status, req)
      PROVE  rx' \in Seq(Answers)
  BY <1>7, PutFrame DEF Reply
<1>8. ASSUME Fault PROVE faults' \in 0 .. 3
  BY <1>8 DEF Fault
<1>9. ASSUME NEW cmd, NEW status, NEW req, Reply(cmd, status, req)
      PROVE  faults' \in 0 .. 3
  BY <1>9, <1>8 DEF Reply
<1>10. CASE AskVersion
  BY <1>10, <1>4, <1>5, <1>6 DEF AskVersion
<1>11. CASE VersionBefore
  <2>1. Answer("version") => Head(rx).status \in Versions
    BY <1>2 DEF Answer, Answers
  <2> QED
    BY <1>11, <1>2, <2>1 DEF VersionBefore, Answer, Deadline, Goto
<1>12. CASE Jump
  BY <1>12, <1>4, <1>5, <1>6 DEF Jump, Goto
<1>13. CASE BootWait
  BY <1>13, <1>4 DEF BootWait, Goto
<1>14. CASE SkipLate
  BY <1>14, <1>2 DEF SkipLate, script
<1>15. CASE SendRequest
  BY <1>15, <1>5, <1>6 DEF SendRequest, Goto
<1>16. CASE ReadRequest
  BY <1>16, <1>2 DEF ReadRequest, Answer, Deadline, TryAgain, Goto, Finish,
     Failure
<1>17. CASE SendMetadata
  BY <1>17, <1>5, <1>6 DEF SendMetadata, Goto
<1>18. CASE ReadMetadata
  <2>1. ASSUME NEW m, MetadataVerdict(m)
        PROVE  /\ attempt' \in 1 .. 10 /\ result' \in Success \cup Failure \cup {"none"}
               /\ pc' \in {"metadata", "done", "block"}
    BY <2>1 DEF MetadataVerdict, TryAgain, Goto, Finish, Success, Failure
  <2>2. rx' \in Seq(Answers)
    BY <1>18, <1>2 DEF ReadMetadata, Answer, Deadline
  <2>3. ASSUME TryAgain(5, "metadata", Finish("metadata"))
        PROVE  /\ attempt' \in 1 .. 10 /\ result' \in Success \cup Failure \cup {"none"}
               /\ pc' \in {"metadata", "done", "block"}
    BY <2>3 DEF TryAgain, Goto, Finish, Failure
  <2>4. /\ attempt' \in 1 .. 10 /\ result' \in Success \cup Failure \cup {"none"}
        /\ pc' \in {"metadata", "done", "block"}
    BY <1>18, <2>1, <2>3 DEF ReadMetadata
  <2> QED
    BY <1>18, <2>2, <2>4 DEF ReadMetadata, Transfer
<1>19. CASE SendBlock
  BY <1>19, <1>5, <1>6 DEF SendBlock, Goto, Transfer
<1>20. CASE ReadBlock
  BY <1>20, <1>2 DEF ReadBlock, Answer, NextPacket, TryAgain, Goto, Finish,
     Failure, RangeInv, Transfer
<1>21. CASE BlockDeadline
  BY <1>21, <1>8 DEF BlockDeadline, Deadline, TryAgain, Goto, Finish, Failure,
     Transfer
<1>22. CASE Verify
  <2>1. rx' \in Seq(Answers)
    BY <1>22, <1>2 DEF Verify, Answer, Deadline
  <2>2. ASSUME TryAgain(10, "verify", Finish("unrecovered"))
        PROVE  /\ attempt' \in 1 .. 10 /\ pc' \in {"verify", "done"}
               /\ result' \in Success \cup Failure \cup {"none"}
    BY <2>2 DEF TryAgain, Goto, Finish, Failure
  <2>3. ASSUME NEW version, Report(version)
        PROVE  pc' = "done" /\ result' \in Success \cup Failure
    BY <2>3 DEF Report, Finish, Success, Failure
  <2>4. /\ attempt' \in 1 .. 10 /\ pc' \in {"verify", "done"}
        /\ result' \in Success \cup Failure \cup {"none"}
    BY <1>22, <2>2, <2>3 DEF Verify
  <2> QED
    BY <1>22, <2>1, <2>4 DEF Verify
<1>23. CASE IoError
  BY <1>23 DEF IoError, Finish, Failure
<1>24. CASE Rerun
  BY <1>24, <1>4 DEF Rerun
<1>25. CASE Ignore
  BY <1>25, <1>3, <1>8 DEF Ignore, script
<1>26. CASE AppAnswers
  <2>1. [cmd |-> "version", status |-> dev.app, req |-> 0] \in Answers
    BY DEF Answers, Pack
  <2> QED
    BY <1>26, <1>3, <1>7, <1>9, <2>1 DEF AppAnswers, Take, script, Pack
<1>27. CASE RequestAnswer
  <2>1. \A status \in {"ok", "rejected"} :
           [cmd |-> "request", status |-> status, req |-> 0] \in Answers
    BY DEF Answers
  <2> QED
    BY <1>27, <1>3, <1>7, <1>9, <2>1 DEF RequestAnswer, Take, script
<1>28. CASE MetadataAnswer
  <2>1. \A status \in {"upToDate", "erasing", "ready", "failed"}, req \in 0 .. Blocks :
           [cmd |-> "metadata", status |-> status, req |-> req] \in Answers
    BY DEF Answers
  <2>2. 0 \in 0 .. Blocks /\ dev.next \in 0 .. Blocks
    BY DEF Pack
  <2>3. dev' \in Pack
    BY <1>28, <2>2 DEF MetadataAnswer, Pack
  <2>4. rx' \in Seq(Answers) /\ faults' \in 0 .. 3
    BY <1>28, <1>7, <1>9, <2>1, <2>2 DEF MetadataAnswer
  <2> QED
    BY <1>28, <1>3, <2>3, <2>4 DEF MetadataAnswer, Take, script
<1>29. CASE BlockAnswer
  <2>1. \A status \in {"ok", "written", "busy", "error"}, req \in 0 .. Blocks :
           [cmd |-> "block", status |-> status, req |-> req] \in Answers
    BY DEF Answers
  <2>2. dev.next \in 0 .. Blocks
    BY DEF Pack
  <2>3. Head(cmds).n = dev.next => dev.next + 1 \in 0 .. Blocks
    <3>1. Head(cmds) \in Commands /\ Head(cmds).cmd = "block"
      BY <1>29, <1>3 DEF BlockAnswer, Take
    <3>2. Head(cmds).n \in 0 .. Blocks - 1
      BY <3>1 DEF Commands
    <3> QED
      BY <2>2, <3>2
  <2>4. dev' \in Pack
    BY <1>29, <2>2, <2>3 DEF BlockAnswer, Pack
  <2>5. rx' \in Seq(Answers) /\ faults' \in 0 .. 3
    BY <1>29, <1>7, <1>9, <2>1, <2>2, <2>3 DEF BlockAnswer
  <2> QED
    BY <1>29, <1>3, <2>4, <2>5 DEF BlockAnswer, Take, script
<1>30. CASE WriteDone
  <2>1. dev.next \in Nat /\ dev.next + 1 \in 0 .. Blocks
    BY <1>30 DEF WriteDone, RangeInv, Pack
  <2>2. [cmd |-> "block", status |-> "written", req |-> dev.next + 1] \in Answers
    BY <2>1 DEF Answers
  <2>3. dev' \in Pack
    BY <1>30, <2>1 DEF WriteDone, Pack
  <2> QED
    BY <1>30, <1>7, <1>9, <2>2, <2>3 DEF WriteDone, script
<1>31. CASE Restart
  <2>1. dev' \in Pack
    BY <1>31 DEF Restart, Pack, Versions
  <2> QED
    BY <1>31, <2>1 DEF Restart, script
<1> QED
  BY <1>1, <1>10, <1>11, <1>12, <1>13, <1>14, <1>15, <1>16, <1>17, <1>18,
     <1>19, <1>20, <1>21, <1>22, <1>23, <1>24, <1>25, <1>26, <1>27, <1>28,
     <1>29, <1>30, <1>31 DEF Next, Script, Device

-----------------------------------------------------------------------------
(* The invariant, step by step.                                            *)

\* Taking a frame brings in no block, and neither does putting another frame.
LEMMA NoBlocksLine ==
  ASSUME NEW S, NEW s \in Seq(S), NoBlocks(s)
  PROVE  /\ s # <<>> => NoBlocks(Tail(s)) /\ Head(s).cmd # "block"
         /\ \A f \in S : f.cmd # "block" => NoBlocks(Append(s, f))
<1>1. s # <<>> => NoBlocks(Tail(s)) /\ Head(s).cmd # "block"
  BY TakeFrame DEF NoBlocks
<1>2. ASSUME NEW f \in S, f.cmd # "block" PROVE NoBlocks(Append(s, f))
  <2> SUFFICES ASSUME NEW i \in 1 .. Len(Append(s, f))
               PROVE  Append(s, f)[i].cmd # "block"
    BY DEF NoBlocks
  <2>1. i \in 1 .. Len(s) \/ i = Len(s) + 1
    BY PutFrame
  <2> QED
    BY <2>1, <1>2, PutFrame DEF NoBlocks
<1> QED
  BY <1>1, <1>2

Parts == RangeInv /\ AskingInv /\ BlocksInv /\ MetadataInv /\ InStep

\* A step of the script that leaves the talk with the bootloader.
LEMMA OutsideStep ==
  ASSUME RangeInv, dev' = dev, pc' \notin Transfer \cup Asking,
         pc' \in Starting => pkt' = 0
  PROVE  Parts'
BY DEF Parts, RangeInv, AskingInv, BlocksInv, MetadataInv, InStep

\* A step of the script that goes on asking.
LEMMA AskingStep ==
  ASSUME RangeInv, dev' = dev, pc' \in Asking, pkt' = 0, ~dev.writing,
         NoBlocks(cmds'), NoBlocks(rx'),
         \A i \in 1 .. Len(rx') :
            rx'[i].status = "ready" /\ rx'[i].req = 0 => dev.next = 0
  PROVE  Parts'
BY DEF Parts, RangeInv, AskingInv, BlocksInv, MetadataInv, InStep, Asking,
   Transfer

\* Steps of the script while it asks for the transfer.
LEMMA AskingScript ==
  ASSUME IInv, pc \in Asking,
         SkipLate \/ SendRequest \/ ReadRequest \/ SendMetadata \/ ReadMetadata
  PROVE  Parts'
<1> USE DEF IInv, TypeOK
<1>1. /\ pkt = 0 /\ ~dev.writing /\ NoBlocks(cmds) /\ NoBlocks(rx)
      /\ \A i \in 1 .. Len(rx) :
            rx[i].status = "ready" /\ rx[i].req = 0 => dev.next = 0
  BY DEF AskingInv
<1>2. dev' = dev /\ pkt' = pkt
  BY DEF SkipLate, SendRequest, ReadRequest, SendMetadata, ReadMetadata, script
<1>3. rx # <<>> =>
        /\ NoBlocks(Tail(rx))
        /\ Head(rx).status = "ready" /\ Head(rx).req = 0 => dev.next = 0
        /\ \A i \in 1 .. Len(Tail(rx)) :
              Tail(rx)[i].status = "ready" /\ Tail(rx)[i].req = 0 => dev.next = 0
  BY <1>1, TakeFrame, NoBlocksLine
<1>4. \/ rx' = rx
      \/ rx # <<>> /\ rx' = Tail(rx)
  BY DEF SkipLate, SendRequest, ReadRequest, SendMetadata, ReadMetadata,
     Answer, Deadline
<1>5. /\ NoBlocks(rx')
      /\ \A i \in 1 .. Len(rx') :
            rx'[i].status = "ready" /\ rx'[i].req = 0 => dev.next = 0
  <2>1. CASE rx' = rx
    BY <2>1, <1>1 DEF NoBlocks
  <2>2. CASE rx # <<>> /\ rx' = Tail(rx)
    BY <2>2, <1>3 DEF NoBlocks
  <2> QED
    BY <1>4, <2>1, <2>2
<1>6. NoBlocks(cmds')
  <2>1. \A cmd \in {"request", "metadata"} :
           /\ [cmd |-> cmd, n |-> 0] \in Commands
           /\ NoBlocks(Append(cmds, [cmd |-> cmd, n |-> 0]))
    BY <1>1, NoBlocksLine DEF Commands
  <2>2. CASE cmds' = cmds
    BY <2>2, <1>1 DEF NoBlocks
  <2>3. CASE SendRequest \/ SendMetadata
    BY <2>1, <2>3 DEF SendRequest, SendMetadata, Send
  <2> QED
    BY <2>2, <2>3 DEF SkipLate, ReadRequest, ReadMetadata
<1>7. pc' \in Asking \cup {"done", "block"}
  BY DEF SkipLate, SendRequest, ReadRequest, SendMetadata, ReadMetadata,
     MetadataVerdict, TryAgain, Goto, Finish, Asking, script
<1>8. CASE pc' \in Asking
  BY <1>8, <1>1, <1>2, <1>5, <1>6, AskingStep
<1>9. CASE pc' = "done"
  BY <1>9, <1>2, OutsideStep DEF Transfer, Asking, Starting
<1>10. CASE pc' = "block"
  <2>1. rx # <<>> /\ Head(rx).status = "ready" /\ Head(rx).req = 0 /\ cmds' = cmds
    <3>1. ReadMetadata
      BY <1>10 DEF SkipLate, SendRequest, ReadRequest, SendMetadata, TryAgain,
         Goto, Finish, Asking, script
    <3>2. Answer("metadata") /\ MetadataVerdict(Head(rx)) /\ cmds' = cmds
      BY <3>1, <1>10 DEF ReadMetadata, TryAgain, Goto, Finish
    <3>3. Head(rx) \in Answers /\ Head(rx).cmd = "metadata" /\ rx # <<>>
      BY <3>2, TakeFrame DEF Answer
    <3>4. Head(rx).status \in {"upToDate", "erasing", "ready", "failed"}
      BY <3>3 DEF Answers
    <3> QED
      BY <3>2, <3>3, <3>4, <1>10 DEF MetadataVerdict, TryAgain, Goto, Finish
  <2>2. dev.next = 0
    BY <2>1, <1>3
  <2>3. RangeInv' /\ AskingInv'
    BY <1>2, <1>1, <1>10, <2>2, OtaAssumption DEF RangeInv, AskingInv, Starting,
       Asking
  <2>4. NoBlocks(cmds')
    BY <2>1, <1>1 DEF NoBlocks
  <2>5. BlocksInv'
    BY <1>2, <1>1, <1>5, <2>4 DEF BlocksInv, NoBlocks
  <2>6. MetadataInv'
    <3> SUFFICES ASSUME NEW i \in 1 .. Len(cmds')
                 PROVE  \A j \in 1 .. i : cmds'[j].cmd # "block"
      BY <1>2, <1>1, <1>5, <2>2 DEF MetadataInv
    <3>1. cmds' \in Seq(Commands)
      BY <2>1
    <3>2. \A j \in 1 .. i : j \in 1 .. Len(cmds')
      BY <3>1
    <3> QED
      BY <3>2, <2>4 DEF NoBlocks
  <2>7. InStep'
    BY <1>2, <1>1, <2>2 DEF InStep
  <2> QED
    BY <2>3, <2>5, <2>6, <2>7 DEF Parts
<1> QED
  BY <1>7, <1>8, <1>9, <1>10

\* Steps of the script during the transfer: the index moves only with an
\* answer that says so, which is true and comes behind all metadata.
LEMMA TransferScript ==
  ASSUME IInv, pc \in Transfer,
         SkipLate \/ SendBlock \/ ReadBlock \/ BlockDeadline
  PROVE  Parts'
<1> USE DEF IInv, TypeOK
<1>1. dev' = dev
  BY DEF SkipLate, SendBlock, ReadBlock, BlockDeadline
<1>2. dev.next \in Nat /\ pkt \in Nat
  BY OtaAssumption DEF Pack
<1>3. rx # <<>> =>
        /\ \A i \in 1 .. Len(Tail(rx)) :
              Tail(rx)[i].cmd = "block" => Tail(rx)[i].req <= dev.next
        /\ NoBlocks(rx) => NoBlocks(Tail(rx)) /\ Head(rx).cmd # "block"
        /\ Head(rx).cmd = "block" => Head(rx).req <= dev.next
  BY TakeFrame, NoBlocksLine DEF BlocksInv
<1>4. ASSUME SkipLate \/ BlockDeadline \/ ReadBlock,
             pkt' = pkt, pc' \in Transfer, cmds' = cmds,
             rx' = rx \/ (rx # <<>> /\ rx' = Tail(rx))
      PROVE  Parts'
  <2>1. RangeInv' /\ AskingInv' /\ InStep'
    BY <1>1, <1>4 DEF RangeInv, AskingInv, InStep, Transfer, Starting, Asking
  <2>2. BlocksInv'
    BY <1>1, <1>3, <1>4 DEF BlocksInv
  <2>3. MetadataInv'
    BY <1>1, <1>3, <1>4 DEF MetadataInv, NoBlocks
  <2> QED
    BY <2>1, <2>2, <2>3 DEF Parts
<1>5. ASSUME pc' = "done" PROVE Parts'
  BY <1>1, <1>5, OutsideStep DEF Transfer, Asking, Starting
<1>6. CASE SkipLate
  BY <1>6, <1>4 DEF SkipLate, script
<1>7. CASE BlockDeadline
  <2>1. pc' \in Transfer \cup {"done"} /\ pkt' = pkt /\ cmds' = cmds /\ rx' = rx
    BY <1>7 DEF BlockDeadline, Deadline, TryAgain, Goto, Finish, Transfer
  <2> QED
    BY <2>1, <1>7, <1>4, <1>5
<1>8. CASE SendBlock
  <2>1. /\ pc' \in Transfer /\ pkt' = pkt /\ rx' = rx
        /\ cmds' = Append(cmds, [cmd |-> "block", n |-> pkt])
        /\ [cmd |-> "block", n |-> pkt] \in Commands
    <3>1. pkt \in 0 .. Blocks - 1
      BY <1>2, OtaAssumption DEF RangeInv
    <3>2. [cmd |-> "block", n |-> pkt] \in Commands
      BY <3>1 DEF Commands
    <3> QED
      BY <1>8, <3>2 DEF SendBlock, Goto, Send, Transfer
  <2>2. /\ Len(cmds) \in Nat /\ Len(cmds') = Len(cmds) + 1
        /\ \A i \in 1 .. Len(cmds) : cmds'[i] = cmds[i]
        /\ cmds'[Len(cmds) + 1] = [cmd |-> "block", n |-> pkt]
    BY <2>1, PutFrame
  <2>3. RangeInv' /\ AskingInv' /\ InStep'
    BY <1>1, <2>1 DEF RangeInv, AskingInv, InStep, Transfer, Starting, Asking
  <2>4. BlocksInv'
    <3>1. \A i \in 1 .. Len(cmds') : i \in 1 .. Len(cmds) \/ i = Len(cmds) + 1
      BY <2>2
    <3>2. \A i \in 1 .. Len(cmds') : cmds'[i].cmd = "block" => cmds'[i].n <= pkt
      BY <3>1, <2>2, <1>2 DEF BlocksInv
    <3> QED
      BY <1>1, <2>1, <3>2 DEF BlocksInv
  <2>5. MetadataInv'
    <3> SUFFICES ASSUME NEW i \in 1 .. Len(cmds'), cmds'[i].cmd = "metadata"
                 PROVE  /\ dev.next = 0 /\ ~dev.writing /\ NoBlocks(rx)
                        /\ \A j \in 1 .. i : cmds'[j].cmd # "block"
      BY <1>1, <2>1 DEF MetadataInv, NoBlocks
    <3>1. i \in 1 .. Len(cmds) /\ \A j \in 1 .. i : j \in 1 .. Len(cmds)
      BY <2>2
    <3>2. cmds[i].cmd = "metadata"
      BY <3>1, <2>2
    <3> QED
      BY <3>1, <3>2, <2>2 DEF MetadataInv
  <2> QED
    BY <2>3, <2>4, <2>5 DEF Parts
<1>9. CASE ReadBlock
  <2>1. /\ rx # <<>> /\ Head(rx).cmd = "block" /\ rx' = Tail(rx) /\ cmds' = cmds
        /\ pkt < Blocks
    BY <1>9 DEF ReadBlock, Answer, RangeInv
  <2>2. CASE PacketDone(Head(rx)) /\ NextPacket
    <3>1. /\ pkt' = pkt + 1 /\ dev.next = pkt + 1
          /\ pc' = IF pkt + 1 = Blocks THEN "verify" ELSE "block"
      BY <2>2, <2>1, <1>2, <1>3 DEF PacketDone, NextPacket, Goto, InStep
    <3>2. CASE pkt + 1 = Blocks
      BY <3>1, <3>2, <1>1, OutsideStep DEF Transfer, Asking, Starting
    <3>3. CASE pkt + 1 # Blocks
      <4>1. pc' = "block" /\ pkt + 1 < Blocks
        BY <3>1, <3>3, <2>1, <1>2, OtaAssumption
      <4>2. RangeInv' /\ AskingInv' /\ InStep'
        BY <1>1, <1>2, <3>1, <4>1 DEF RangeInv, AskingInv, InStep, Transfer,
           Starting, Asking
      <4>3. \A i \in 1 .. Len(cmds) : cmds[i].cmd = "block" => cmds[i].n \in Int
        <5>1. \A i \in 1 .. Len(cmds) : cmds[i] \in Commands
          OBVIOUS
        <5> QED
          BY <5>1, OtaAssumption DEF Commands
      <4>4. BlocksInv'
        BY <1>1, <1>2, <1>3, <2>1, <3>1, <4>3 DEF BlocksInv
      <4>5. MetadataInv'
        BY <1>1, <1>3, <2>1 DEF MetadataInv
      <4> QED
        BY <4>2, <4>4, <4>5 DEF Parts
    <3> QED
      BY <3>2, <3>3
  <2>3. CASE ~(PacketDone(Head(rx)) /\ NextPacket)
    <3>1. pc' \in Transfer \cup {"done"} /\ pkt' = pkt
      BY <1>9, <2>3 DEF ReadBlock, TryAgain, Goto, Finish, Transfer
    <3> QED
      BY <1>9, <3>1, <2>1, <1>4, <1>5
  <2> QED
    BY <2>2, <2>3
<1> QED
  BY <1>6, <1>7, <1>8, <1>9

\* A step of the pack that writes no block.
LEMMA DeviceQuiet ==
  ASSUME IInv, UNCHANGED script, NEW r \in Answers, r.cmd # "block",
         cmds' = cmds \/ (cmds # <<>> /\ cmds' = Tail(cmds)),
         rx' = rx \/ rx' = Append(rx, r),
         pc \in Transfer => dev'.next = dev.next,
         dev'.next \in {0, dev.next},
         dev'.writing => dev.writing /\ dev'.next = dev.next,
         r.status = "ready" /\ r.req = 0 => dev'.next = 0
  PROVE  Parts'
<1> USE DEF IInv, TypeOK
<1>1. pc' = pc /\ pkt' = pkt
  BY DEF script
<1>2. cmds # <<>> =>
        /\ \A i \in 1 .. Len(Tail(cmds)) :
              i + 1 \in 1 .. Len(cmds) /\ Tail(cmds)[i] = cmds[i + 1]
        /\ NoBlocks(cmds) => NoBlocks(Tail(cmds))
  BY TakeFrame, NoBlocksLine
<1>3. NoBlocks(rx) => NoBlocks(Append(rx, r))
  BY NoBlocksLine
<1>4. /\ Len(rx) \in Nat /\ Len(Append(rx, r)) = Len(rx) + 1
      /\ \A i \in 1 .. Len(rx) : Append(rx, r)[i] = rx[i]
      /\ Append(rx, r)[Len(rx) + 1] = r
  BY PutFrame
<1>5. \A i \in 1 .. Len(rx') :
         (i \in 1 .. Len(rx) /\ rx'[i] = rx[i]) \/ rx'[i] = r
  <2>1. CASE rx' = rx
    BY <2>1
  <2>2. CASE rx' = Append(rx, r)
    BY <2>2, <1>4
  <2> QED
    BY <2>1, <2>2
<1>6. RangeInv' /\ InStep'
  BY <1>1 DEF RangeInv, InStep
<1>7. AskingInv'
  BY <1>1, <1>2, <1>3, <1>5 DEF AskingInv, NoBlocks
<1>8. BlocksInv'
  BY <1>1, <1>2, <1>5 DEF BlocksInv
<1>9. MetadataInv'
  <2> SUFFICES ASSUME pc \in Transfer, NEW i \in 1 .. Len(cmds'),
                      cmds'[i].cmd = "metadata"
               PROVE  /\ dev.next = 0 /\ ~dev.writing /\ NoBlocks(rx)
                      /\ \A j \in 1 .. i : cmds'[j].cmd # "block"
    BY <1>1, <1>3 DEF MetadataInv, NoBlocks
  <2>1. CASE cmds' = cmds
    BY <2>1 DEF MetadataInv
  <2>2. CASE cmds # <<>> /\ cmds' = Tail(cmds)
    <3>1. i + 1 \in 1 .. Len(cmds) /\ cmds[i + 1].cmd = "metadata"
      BY <2>2, <1>2
    <3>2. /\ dev.next = 0 /\ ~dev.writing /\ NoBlocks(rx)
          /\ \A j \in 1 .. i + 1 : cmds[j].cmd # "block"
      BY <3>1 DEF MetadataInv
    <3>3. Len(cmds') \in Nat
      BY <2>2
    <3>4. \A j \in 1 .. i : j \in 1 .. Len(cmds') /\ j + 1 \in 1 .. i + 1
      BY <3>3
    <3> QED
      BY <2>2, <3>2, <3>4, <1>2
  <2> QED
    BY <2>1, <2>2
<1> QED
  BY <1>6, <1>7, <1>8, <1>9 DEF Parts

\* A step of the pack that puts an answer about blocks on the line: all
\* metadata has been taken by then.
LEMMA DeviceBlock ==
  ASSUME IInv, UNCHANGED script, BlockAnswer \/ WriteDone
  PROVE  Parts'
<1> USE DEF IInv, TypeOK
<1>1. pc' = pc /\ pkt' = pkt
  BY DEF script
<1>2. dev.next \in Nat /\ pkt \in Nat /\ Blocks \in Nat
  BY OtaAssumption DEF Pack
<1>3. BlockAnswer =>
        /\ cmds # <<>> /\ Head(cmds).cmd = "block" /\ cmds' = Tail(cmds)
        /\ Head(cmds) = cmds[1] /\ Len(cmds) \in Nat /\ Len(cmds) > 0
        /\ Head(cmds).n \in 0 .. Blocks - 1
        /\ \A i \in 1 .. Len(Tail(cmds)) :
              i + 1 \in 1 .. Len(cmds) /\ Tail(cmds)[i] = cmds[i + 1]
  <2>1. BlockAnswer => cmds # <<>> /\ Head(cmds).cmd = "block" /\ cmds' = Tail(cmds)
    BY DEF BlockAnswer, Take
  <2>2. BlockAnswer => Head(cmds) \in Commands
    BY <2>1, TakeFrame
  <2>3. BlockAnswer => Head(cmds).n \in 0 .. Blocks - 1
    BY <2>1, <2>2 DEF Commands
  <2> QED
    BY <2>1, <2>3, TakeFrame
<1>4. WriteDone => dev.writing /\ cmds' = cmds /\ dev'.next = dev.next + 1
                   /\ ~dev'.writing /\ dev.next < Blocks
  BY DEF WriteDone, Pack, RangeInv
<1>5. BlockAnswer =>
        \/ /\ dev'.next = dev.next + 1 /\ ~dev'.writing
           /\ Head(cmds).n = dev.next
        \/ dev'.next = dev.next /\ dev'.writing /\ Head(cmds).n = dev.next
        \/ dev' = dev
  BY DEF BlockAnswer, Pack
<1>6. PICK r : /\ rx' = rx \/ rx' = Append(rx, r)
               /\ r \in Answers /\ r.cmd = "block" /\ r.req <= dev'.next
  <2>1. \A status \in {"ok", "written", "busy", "error"}, req \in 0 .. Blocks :
           /\ [cmd |-> "block", status |-> status, req |-> req] \in Answers
           /\ [cmd |-> "block", status |-> status, req |-> req].cmd = "block"
           /\ [cmd |-> "block", status |-> status, req |-> req].req = req
    BY DEF Answers
  <2>2. /\ WriteDone => dev.next + 1 \in 0 .. Blocks
        /\ dev.next \in 0 .. Blocks
        /\ BlockAnswer /\ Head(cmds).n = dev.next => dev.next + 1 \in 0 .. Blocks
    BY <1>2, <1>3, <1>4 DEF Pack
  <2>3. ASSUME NEW status \in {"ok", "written", "busy", "error"},
               NEW req \in 0 .. Blocks, req <= dev'.next,
               Reply("block", status, req)
        PROVE  \E r : /\ rx' = rx \/ rx' = Append(rx, r)
                      /\ r \in Answers /\ r.cmd = "block" /\ r.req <= dev'.next
    BY <2>1, <2>3 DEF Reply
  <2>4. CASE WriteDone
    <3>1. Reply("block", "written", dev.next + 1) /\ dev.next + 1 <= dev'.next
      BY <2>4, <1>2, <1>4 DEF WriteDone
    <3> QED
      BY <3>1, <2>2, <2>3, <2>4
  <2>5. CASE BlockAnswer
    <3>1. \E status \in {"ok", "written", "busy", "error"} :
             \/ /\ Reply("block", status, dev.next + 1)
                /\ dev'.next = dev.next + 1 /\ Head(cmds).n = dev.next
             \/ Reply("block", status, dev.next) /\ dev'.next = dev.next
      BY <2>5 DEF BlockAnswer, Pack
    <3> QED
      BY <3>1, <2>2, <2>3, <2>5, <1>2
  <2> QED
    BY <2>4, <2>5
<1>7. \A i \in 1 .. Len(rx') :
         (i \in 1 .. Len(rx) /\ rx'[i] = rx[i]) \/ rx'[i] = r
  <2>1. CASE rx' = rx
    BY <2>1
  <2>2. CASE rx' = Append(rx, r)
    <3>1. \A i \in 1 .. Len(rx') : i \in 1 .. Len(rx) \/ i = Len(rx) + 1
      BY <2>2, <1>6, PutFrame
    <3> QED
      BY <2>2, <3>1, <1>6, PutFrame
  <2> QED
    BY <2>1, <2>2, <1>6
<1>8. pc \notin Asking
  BY <1>3, <1>4 DEF AskingInv, NoBlocks
<1>9. RangeInv'
  BY <1>1, <1>2, <1>3, <1>4, <1>5 DEF RangeInv
<1>10. AskingInv'
  BY <1>1, <1>8 DEF AskingInv
<1>11. ASSUME pc \in Transfer
       PROVE  /\ dev'.next >= dev.next /\ dev'.next <= pkt + 1 /\ pkt <= dev'.next
              /\ dev'.writing => dev'.next <= pkt
  <2>1. CASE WriteDone
    BY <2>1, <1>2, <1>4, <1>11 DEF BlocksInv, InStep
  <2>2. CASE BlockAnswer
    <3>1. Head(cmds).n <= pkt
      BY <2>2, <1>3, <1>11 DEF BlocksInv
    <3> QED
      BY <2>2, <3>1, <1>2, <1>5, <1>11 DEF BlocksInv, InStep
  <2> QED
    BY <2>1, <2>2
<1>12. InStep'
  BY <1>1, <1>11 DEF InStep
<1>13. ASSUME pc \in Transfer
       PROVE  \A i \in 1 .. Len(cmds') : cmds'[i].cmd # "metadata"
  <2>1. \A i \in 1 .. Len(cmds) : 1 \in 1 .. i
    OBVIOUS
  <2>2. \A i \in 1 .. Len(cmds) : cmds[i].cmd # "metadata"
    BY <1>3, <1>4, <1>13, <2>1 DEF MetadataInv
  <2> QED
    BY <2>2, <1>3, <1>4
<1>14. MetadataInv'
  BY <1>1, <1>13 DEF MetadataInv
<1>15. BlocksInv'
  <2> SUFFICES ASSUME pc \in Transfer
               PROVE  /\ \A i \in 1 .. Len(cmds') :
                            cmds'[i].cmd = "block" => cmds'[i].n <= pkt
                      /\ \A i \in 1 .. Len(rx') :
                            rx'[i].cmd = "block" => rx'[i].req <= dev'.next
                      /\ dev'.writing => dev'.next <= pkt
    BY <1>1 DEF BlocksInv
  <2>1. \A i \in 1 .. Len(cmds') : cmds'[i].cmd = "block" => cmds'[i].n <= pkt
    BY <1>3, <1>4 DEF BlocksInv
  <2>2. dev'.next \in Nat
    BY <1>2, <1>4, <1>5
  <2>3. \A i \in 1 .. Len(rx) : rx[i] \in Answers
    OBVIOUS
  <2>4. \A f \in Answers : f.req \in Nat
    BY <1>2 DEF Answers
  <2>5. \A i \in 1 .. Len(rx) : rx[i].cmd = "block" => rx[i].req <= dev'.next
    BY <1>2, <1>11, <2>2, <2>3, <2>4 DEF BlocksInv
  <2> QED
    BY <2>1, <2>5, <1>6, <1>7, <1>11
<1> QED
  BY <1>9, <1>10, <1>12, <1>14, <1>15 DEF Parts

\* The other steps of the pack.
LEMMA DeviceOther ==
  ASSUME IInv,
         Ignore \/ AppAnswers \/ RequestAnswer \/ MetadataAnswer \/ Restart
  PROVE  Parts'
<1> USE DEF IInv, TypeOK
<1>1. UNCHANGED script
  BY DEF Ignore, AppAnswers, RequestAnswer, MetadataAnswer, Restart
<1>2. cmds' = cmds \/ (cmds # <<>> /\ cmds' = Tail(cmds))
  BY DEF Ignore, AppAnswers, RequestAnswer, MetadataAnswer, Restart, Take
<1>3. \A cmd \in {"version", "request", "metadata"} : \A status, req :
         LET f == [cmd |-> cmd, status |-> status, req |-> req]
         IN  f.cmd # "block" /\ f.status = status /\ f.req = req
  OBVIOUS
<1>4. CASE MetadataAnswer
  <2>1. dev.next \in 0 .. Blocks /\ 0 \in 0 .. Blocks
    BY OtaAssumption DEF Pack
  <2>2. \E status \in {"upToDate", "erasing", "ready", "failed"} :
          \/ /\ Reply("metadata", status, 0) /\ status # "ready" /\ dev' = dev
          \/ /\ Reply("metadata", status, 0) /\ ~dev'.writing /\ dev'.next = 0
          \/ Reply("metadata", status, dev.next) /\ dev' = dev
    BY <1>4 DEF MetadataAnswer, Pack
  <2>3. PICK r \in Answers :
          /\ r.cmd # "block" /\ (rx' = rx \/ rx' = Append(rx, r))
          /\ \/ r.status # "ready" /\ dev' = dev
             \/ ~dev'.writing /\ dev'.next = 0
             \/ r.req = dev.next /\ dev' = dev
    <3>1. \A status \in {"upToDate", "erasing", "ready", "failed"}, req \in 0 .. Blocks :
             [cmd |-> "metadata", status |-> status, req |-> req] \in Answers
      BY DEF Answers
    <3> QED
      BY <2>1, <2>2, <1>3, <3>1 DEF Reply
  <2>4. pc \in Transfer => dev.next = 0
    <3>1. cmds # <<>> /\ Head(cmds).cmd = "metadata"
      BY <1>4 DEF MetadataAnswer, Take
    <3>2. 1 \in 1 .. Len(cmds) /\ cmds[1].cmd = "metadata"
      BY <3>1, TakeFrame
    <3> QED
      BY <3>2 DEF MetadataInv
  <2> QED
    BY <1>1, <1>2, <2>3, <2>4, DeviceQuiet
<1>5. CASE Ignore \/ AppAnswers \/ RequestAnswer \/ Restart
  <2>1. dev'.next = dev.next /\ (dev'.writing => dev.writing)
    BY <1>5 DEF Ignore, AppAnswers, RequestAnswer, Restart, Pack
  <2>2. \E r \in Answers : /\ r.cmd # "block" /\ r.status # "ready"
                           /\ rx' = rx \/ rx' = Append(rx, r)
    <3>1. /\ [cmd |-> "version", status |-> dev.app, req |-> 0] \in Answers
          /\ \A status \in {"ok", "rejected"} :
                [cmd |-> "request", status |-> status, req |-> 0] \in Answers
          /\ dev.app # "ready"
      BY DEF Answers, Pack, Versions
    <3>2. \/ rx' = rx
          \/ rx' = Append(rx, [cmd |-> "version", status |-> dev.app, req |-> 0])
          \/ \E status \in {"ok", "rejected"} :
                rx' = Append(rx, [cmd |-> "request", status |-> status, req |-> 0])
      BY <1>5 DEF Ignore, AppAnswers, RequestAnswer, Restart, Reply
    <3> QED
      BY <3>1, <3>2, <1>3
  <2> QED
    BY <1>1, <1>2, <2>1, <2>2, DeviceQuiet
<1> QED
  BY <1>4, <1>5

-----------------------------------------------------------------------------
(* The theorems.                                                           *)

\* The first run finds the line empty.
LEMMA InitIInv == Init => IInv
<1> SUFFICES ASSUME Init PROVE IInv
  OBVIOUS
<1> USE OtaAssumption DEF Init
<1>1. TypeOK
  <2>1. {0} \subseteq 0 .. Blocks /\ {FALSE} \subseteq BOOLEAN
    OBVIOUS
  <2>2. dev \in [mode : {"app", "boot"}, app : Versions, next : {0},
                open : {FALSE}, writing : {FALSE}]
    OBVIOUS
  <2>3. dev \in Pack
    BY ONLY <2>1, <2>2 DEF Pack
  <2> QED
    BY <2>3 DEF TypeOK, Commands, Answers, Transfer
<1>2. ~dev.writing
  OBVIOUS
<1>3. RangeInv /\ AskingInv /\ BlocksInv /\ MetadataInv /\ InStep
  BY <1>2 DEF RangeInv, AskingInv, BlocksInv, MetadataInv, InStep, Transfer, Asking
<1> QED
  BY <1>1, <1>3 DEF IInv

\* Every step keeps the invariant.
LEMMA NextIInv == IInv /\ [Next]_vars => IInv'
<1> SUFFICES ASSUME IInv, [Next]_vars PROVE IInv'
  OBVIOUS
<1>1. TypeOK'
  BY TypeNext DEF IInv
<1> SUFFICES Parts'
  BY <1>1 DEF IInv, Parts
<1>2. CASE UNCHANGED vars
  BY <1>2 DEF vars, IInv, Parts, RangeInv, AskingInv, BlocksInv, MetadataInv,
     InStep, NoBlocks
<1>3. CASE AskVersion \/ VersionBefore \/ Jump \/ Verify \/ IoError \/ Rerun
  <2>1. dev' = dev /\ pc' \notin Transfer \cup Asking
    <3>1. dev' = dev
      BY <1>3 DEF AskVersion, VersionBefore, Jump, Verify, IoError, Rerun
    <3>2. pc' \in Starting \cup {"verify", "verifyRead", "done"}
      BY <1>3 DEF AskVersion, VersionBefore, Jump, Verify, Report, TryAgain,
         IoError, Rerun, Goto, Finish, Starting
    <3> QED
      BY <3>1, <3>2 DEF Transfer, Asking, Starting
  <2>2. pc' \in Starting => pkt' = 0
    BY <1>3 DEF IInv, AskingInv, AskVersion, VersionBefore, Jump, Verify,
       Report, TryAgain, IoError, Rerun, Goto, Finish, Starting
  <2> QED
    BY <2>1, <2>2, OutsideStep DEF IInv
<1>4. CASE BootWait
  <2>1. /\ dev' = dev /\ pc' \in Asking /\ ~dev.writing /\ pkt' = 0
        /\ cmds' = <<>> /\ rx' = <<>>
    BY <1>4 DEF BootWait, Goto, Asking, IInv, AskingInv, Starting
  <2>2. NoBlocks(cmds') /\ NoBlocks(rx') /\ 1 .. Len(rx') = {}
    BY <2>1 DEF NoBlocks
  <2> QED
    BY <2>1, <2>2, AskingStep DEF IInv
<1>5. CASE SkipLate \/ SendRequest \/ ReadRequest \/ SendMetadata \/ ReadMetadata
           \/ SendBlock \/ ReadBlock \/ BlockDeadline
  <2>1. CASE pc \in Asking
    BY <2>1, <1>5, AskingScript DEF SendBlock, ReadBlock, BlockDeadline, Asking
  <2>2. CASE pc \in Transfer
    BY <2>2, <1>5, TransferScript DEF SendRequest, ReadRequest, SendMetadata,
       ReadMetadata, Transfer
  <2>3. pc \in Asking \cup Transfer
    BY <1>5 DEF SkipLate, Expected, SendRequest, ReadRequest, SendMetadata,
       ReadMetadata, SendBlock, ReadBlock, BlockDeadline, Asking, Transfer
  <2> QED
    BY <2>1, <2>2, <2>3
<1>6. CASE BlockAnswer \/ WriteDone
  BY <1>6, DeviceBlock DEF BlockAnswer, WriteDone
<1>7. CASE Ignore \/ AppAnswers \/ RequestAnswer \/ MetadataAnswer \/ Restart
  BY <1>7, DeviceOther
<1> QED
  BY <1>2, <1>3, <1>4, <1>5, <1>6, <1>7 DEF Next, Script, Device

\* The inductive invariant holds throughout.
THEOREM Invariance == Spec => []IInv
<1>1. Init => IInv
  BY InitIInv
<1>2. IInv /\ [Next]_vars => IInv'
  BY NextIInv
<1> QED
  BY <1>1, <1>2, PTL DEF Spec

\* Script and pack keep their types; no block outside the image is sent.
THEOREM TypeCorrect == Spec => []TypeOK
<1>1. IInv => TypeOK
  BY DEF IInv
<1> QED
  BY <1>1, Invariance, PTL

\* The script's pkt_idx is never ahead of what the pack has written and never
\* two blocks behind it, for every image, any number of runs and any lateness
\* of the answers (MaxPending only bounds what a deadline may pass on).
THEOREM StaysInStep == Spec => []InStep
<1>1. IInv => InStep
  BY DEF IInv
<1> QED
  BY <1>1, Invariance, PTL

-----------------------------------------------------------------------------
(* The outcome of an update.                                               *)

\* Answers about versions come in the order they were given, and nothing goes
\* back to the old application.
VersionInv ==
    /\ before = "new" =>
          /\ dev.app = "new"
          /\ \A i \in 1 .. Len(rx) : rx[i].cmd = "version" => rx[i].status = "new"
    /\ \A i \in 1 .. Len(rx) :
          rx[i].cmd = "version" /\ rx[i].status = "new" =>
             /\ dev.app = "new"
             /\ \A j \in i .. Len(rx) :
                   rx[j].cmd = "version" => rx[j].status = "new"

\* The pack only says that it is up to date when it is.
UpToDateInv ==
    \A i \in 1 .. Len(rx) :
       rx[i].cmd = "metadata" /\ rx[i].status = "upToDate" => Whole

\* The script asks for the version again only behind the last block.
VerifyInv == pc \in {"verify", "verifyRead"} => dev.next = Blocks

\* run() has a result only when it has ended.
RunningInv == pc # "done" => result = "none"

OutcomeInv ==
    VersionInv /\ UpToDateInv /\ VerifyInv /\ RunningInv /\ SuccessIsWhole

\* What the script does to the line: it takes the first frame, or flushes.
LEMMA ScriptLine ==
  ASSUME Script \/ IoError \/ Rerun
  PROVE  /\ dev' = dev
         /\ rx' = rx \/ (rx # <<>> /\ rx' = Tail(rx)) \/ rx' = <<>>
BY DEF Script, AskVersion, VersionBefore, Jump, BootWait, SkipLate, SendRequest,
       ReadRequest, SendMetadata, ReadMetadata, SendBlock, ReadBlock,
       BlockDeadline, Verify, IoError, Rerun, Answer, Deadline, Goto

\* A line that only shrinks keeps what it says.
LEMMA ShorterLine ==
  ASSUME TypeOK, UpToDateInv, VersionInv, dev' = dev,
         rx' = rx \/ (rx # <<>> /\ rx' = Tail(rx)) \/ rx' = <<>>,
         before' = before \/ before' = "none"
  PROVE  UpToDateInv' /\ VersionInv'
<1>1. Len(<<>>) = 0 /\ 1 .. 0 = {}
  OBVIOUS
<1>2. rx \in Seq(Answers) /\ Len(rx) \in Nat
  BY DEF TypeOK
<1>3. CASE rx' = rx
  BY <1>3 DEF UpToDateInv, VersionInv, Whole
<1>4. CASE rx' = <<>>
  BY <1>1, <1>4 DEF UpToDateInv, VersionInv, Whole
<1>5. CASE rx # <<>> /\ rx' = Tail(rx)
  <2>1. /\ Len(rx') = Len(rx) - 1
        /\ \A i \in 1 .. Len(rx') : i + 1 \in 1 .. Len(rx) /\ rx'[i] = rx[i + 1]
    BY <1>2, <1>5, TakeFrame
  <2>2. \A i \in 1 .. Len(rx') : \A j \in i .. Len(rx') :
           j \in 1 .. Len(rx') /\ j + 1 \in i + 1 .. Len(rx)
    BY <1>2, <2>1
  <2>3. UpToDateInv'
    BY <2>1 DEF UpToDateInv, Whole
  <2>4. VersionInv'
    BY <2>1, <2>2 DEF VersionInv
  <2> QED
    BY <2>3, <2>4
<1> QED
  BY <1>3, <1>4, <1>5

\* The pack never loses the image it holds or the application it runs, and
\* says so truthfully.
LEMMA PackForward ==
  ASSUME IInv, Device
  PROVE  /\ UNCHANGED script
         /\ dev.next = Blocks => dev'.next = Blocks
         /\ dev.app = "new" => dev'.app = "new"
         /\ \/ rx' = rx
            \/ \E f \in Answers :
                  /\ rx' = Append(rx, f)
                  /\ f.cmd = "metadata" /\ f.status = "upToDate" => Whole'
                  /\ f.cmd = "version" => f.status = dev'.app
<1>1. /\ dev \in Pack /\ Blocks \in Nat \ {0} /\ TypeOK'
      /\ rx \in Seq(Answers) /\ rx' \in Seq(Answers) /\ cmds \in Seq(Commands)
  <2>1. TypeOK' /\ TypeOK
    BY TypeNext DEF IInv, Next
  <2> QED
    BY <2>1, OtaAssumption DEF TypeOK
<1>2. UNCHANGED script
  BY DEF Device, Ignore, AppAnswers, RequestAnswer, MetadataAnswer, BlockAnswer,
     WriteDone, Restart
<1>3. ASSUME NEW cmd, NEW status, NEW req, Reply(cmd, status, req),
             cmd = "metadata" /\ status = "upToDate" => Whole',
             cmd = "version" => status = dev'.app
      PROVE  \/ rx' = rx
             \/ \E f \in Answers :
                   /\ rx' = Append(rx, f)
                   /\ f.cmd = "metadata" /\ f.status = "upToDate" => Whole'
                   /\ f.cmd = "version" => f.status = dev'.app
  <2> DEFINE g == [cmd |-> cmd, status |-> status, req |-> req]
  <2>1. CASE rx' = rx
    BY <2>1
  <2>2. CASE rx' = Append(rx, g)
    <3>1. Len(rx') = Len(rx) + 1 /\ rx'[Len(rx) + 1] = g /\ Len(rx) \in Nat
      BY <1>1, <2>2
    <3>2. Len(rx) + 1 \in 1 .. Len(rx')
      BY <3>1
    <3>3. g \in Answers
      BY <1>1, <3>1, <3>2
    <3>4. g.cmd = cmd /\ g.status = status
      OBVIOUS
    <3> QED
      BY <1>3, <2>2, <3>3, <3>4
  <2> QED
    BY <1>3, <2>1, <2>2 DEF Reply
<1>4. CASE Ignore
  BY <1>2, <1>4 DEF Ignore
<1>5. CASE AppAnswers
  <2>1. CASE Reply("version", dev.app, 0) /\ UNCHANGED dev
    BY <1>2, <1>3, <2>1
  <2>2. CASE /\ UNCHANGED rx
             /\ dev' = [dev EXCEPT !.mode = "boot", !.open = FALSE, !.writing = FALSE]
    BY <1>1, <1>2, <2>2 DEF Pack
  <2> QED
    BY <1>5, <2>1, <2>2 DEF AppAnswers
<1>6. CASE RequestAnswer
  <2>1. PICK status \in {"ok", "rejected"} : Reply("request", status, 0)
    BY <1>6 DEF RequestAnswer
  <2>2. dev' = dev
    BY <1>6 DEF RequestAnswer
  <2> QED
    BY <1>2, <1>3, <2>1, <2>2
<1>7. CASE MetadataAnswer
  <2>1. CASE UNCHANGED dev
    <3>1. PICK status \in {"upToDate", "erasing", "failed", "ready"},
               req \in 0 .. Blocks :
             /\ Reply("metadata", status, req)
             /\ status = "upToDate" => Whole
      <4>1. 0 \in 0 .. Blocks /\ dev.next \in 0 .. Blocks
        BY <1>1 DEF Pack
      <4>2. \/ Whole /\ Reply("metadata", "upToDate", 0)
            \/ Reply("metadata", "erasing", 0)
            \/ Reply("metadata", "failed", 0)
            \/ Reply("metadata", "ready", 0)
            \/ Reply("metadata", "ready", dev.next)
        BY <1>7 DEF MetadataAnswer
      <4> QED
        BY <4>1, <4>2
    <3>2. status = "upToDate" => Whole'
      BY <2>1, <3>1 DEF Whole
    <3> QED
      BY <1>2, <1>3, <2>1, <3>1, <3>2
  <2>2. CASE /\ ~Whole /\ Reply("metadata", "ready", 0)
             /\ dev' = [dev EXCEPT !.open = TRUE, !.next = 0, !.writing = FALSE]
    <3>1. dev.next # Blocks /\ dev.app # "new"
      BY <2>2 DEF Whole
    <3> QED
      BY <1>2, <1>3, <2>2, <3>1
  <2> QED
    BY <1>7, <2>1, <2>2 DEF MetadataAnswer
<1>8. CASE BlockAnswer
  <2>1. PICK status, req : Reply("block", status, req)
    BY <1>8 DEF BlockAnswer
  <2>2. dev'.app = dev.app
    BY <1>1, <1>8 DEF BlockAnswer, Pack
  <2>3. dev.next = Blocks => dev'.next = Blocks
    <3>1. Head(cmds) \in Commands /\ Head(cmds).cmd = "block"
      BY <1>1, <1>8, TakeFrame DEF BlockAnswer, Take
    <3>2. Head(cmds).n \in 0 .. Blocks - 1
      BY <3>1 DEF Commands
    <3>3. Head(cmds).n # Blocks
      BY <1>1, <3>2
    <3> QED
      BY <1>1, <1>8, <3>3 DEF BlockAnswer, Pack
  <2> QED
    BY <1>2, <1>3, <2>1, <2>2, <2>3
<1>9. CASE WriteDone
  <2>1. dev.next # Blocks
    BY <1>1, <1>9 DEF WriteDone, IInv, RangeInv, Pack
  <2>2. dev'.app = dev.app /\ Reply("block", "written", dev.next + 1)
    BY <1>1, <1>9 DEF WriteDone, Pack
  <2> QED
    BY <1>2, <1>3, <2>1, <2>2
<1>10. CASE Restart
  <2>1. PICK app \in {"new", dev.app} :
           dev' = [dev EXCEPT !.mode = "app", !.app = app, !.open = FALSE]
    BY <1>10 DEF Restart
  <2>2. rx' = rx
    BY <1>10 DEF Restart
  <2>3. dev'.app = app /\ dev'.next = dev.next
    BY <1>1, <2>1 DEF Pack
  <2> QED
    BY <1>2, <2>1, <2>2, <2>3
<1> QED
  BY <1>4, <1>5, <1>6, <1>7, <1>8, <1>9, <1>10 DEF Device

\* What the pack does keeps the outcome.
LEMMA DeviceOutcome ==
  ASSUME IInv, OutcomeInv, Device
  PROVE  OutcomeInv'
<1>1. /\ pc' = pc /\ before' = before /\ result' = result
      /\ dev.next = Blocks => dev'.next = Blocks
      /\ dev.app = "new" => dev'.app = "new"
      /\ Whole => Whole'
  BY PackForward DEF script, Whole
<1>2. rx \in Seq(Answers) /\ Len(rx) \in Nat /\ dev \in Pack /\ dev' \in Pack
  <2>1. TypeOK /\ TypeOK'
    BY TypeNext DEF IInv, Next
  <2> QED
    BY <2>1 DEF TypeOK
<1>3. UpToDateInv' /\ VersionInv'
  <2>1. CASE rx' = rx
    BY <1>1, <2>1 DEF OutcomeInv, UpToDateInv, VersionInv
  <2>2. ASSUME NEW f \in Answers, rx' = Append(rx, f),
               f.cmd = "metadata" /\ f.status = "upToDate" => Whole',
               f.cmd = "version" => f.status = dev'.app
        PROVE  UpToDateInv' /\ VersionInv'
    <3>1. /\ Len(rx') = Len(rx) + 1 /\ rx'[Len(rx) + 1] = f
          /\ \A i \in 1 .. Len(rx) : rx'[i] = rx[i]
      BY <1>2, <2>2, PutFrame
    <3>2. \A i \in 1 .. Len(rx') : i \in 1 .. Len(rx) \/ i = Len(rx) + 1
      BY <1>2, <3>1
    <3>3. UpToDateInv'
      BY <1>1, <2>2, <3>1, <3>2 DEF OutcomeInv, UpToDateInv
    <3>4. ASSUME NEW i \in 1 .. Len(rx'),
                 rx'[i].cmd = "version" /\ rx'[i].status = "new"
          PROVE  /\ dev'.app = "new"
                 /\ \A j \in i .. Len(rx') :
                       rx'[j].cmd = "version" => rx'[j].status = "new"
      <4>1. CASE i \in 1 .. Len(rx)
        <5>1. /\ dev.app = "new"
              /\ \A j \in i .. Len(rx) :
                    rx[j].cmd = "version" => rx[j].status = "new"
          BY <3>1, <3>4, <4>1 DEF OutcomeInv, VersionInv
        <5>2. \A j \in i .. Len(rx') :
                 (j \in i .. Len(rx) /\ j \in 1 .. Len(rx)) \/ j = Len(rx) + 1
          BY <1>2, <3>1, <4>1
        <5> QED
          BY <1>1, <2>2, <3>1, <5>1, <5>2
      <4>2. CASE i = Len(rx) + 1
        <5>1. \A j \in i .. Len(rx') : j = i
          BY <1>2, <3>1, <4>2
        <5> QED
          BY <2>2, <3>1, <3>4, <4>2, <5>1
      <4> QED
        BY <3>2, <4>1, <4>2
    <3>5. before' = "new" =>
             /\ dev'.app = "new"
             /\ \A i \in 1 .. Len(rx') :
                   rx'[i].cmd = "version" => rx'[i].status = "new"
      BY <1>1, <2>2, <3>1, <3>2 DEF OutcomeInv, VersionInv
    <3> QED
      BY <3>3, <3>4, <3>5 DEF VersionInv
  <2> QED
    BY <2>1, <2>2, PackForward
<1>4. VerifyInv' /\ RunningInv'
  BY <1>1 DEF OutcomeInv, VerifyInv, RunningInv
<1>5. SuccessIsWhole'
  <2>1. result \in Success => Whole'
    BY <1>1 DEF OutcomeInv, SuccessIsWhole
  <2>2. ASSUME result = "updated", before # "none"
        PROVE  dev'.app # before
    <3>1. dev.app # before
      BY <2>2 DEF OutcomeInv, SuccessIsWhole
    <3>2. before # "new"
      BY <3>1 DEF OutcomeInv, VersionInv
    <3>3. before = "old"
      BY <2>2, <3>2 DEF IInv, TypeOK, Versions
    <3>4. dev.app = "new"
      BY <1>2, <3>1, <3>3 DEF Pack, Versions
    <3> QED
      BY <1>1, <3>3, <3>4
  <2> QED
    BY <1>1, <2>1, <2>2 DEF OutcomeInv, SuccessIsWhole
<1> QED
  BY <1>3, <1>4, <1>5 DEF OutcomeInv

\* A step of the script that leaves the version alone and does not end well.
LEMMA QuietOutcome ==
  ASSUME IInv, OutcomeInv, Script \/ IoError \/ Rerun,
         before' = before \/ (before' = "none" /\ result' = "none"),
         result' \notin Success \/ result' = result,
         pc' # "done" => result' = "none",
         pc' \in {"verify", "verifyRead"} => dev.next = Blocks
  PROVE  OutcomeInv'
<1>1. dev' = dev /\ (rx' = rx \/ (rx # <<>> /\ rx' = Tail(rx)) \/ rx' = <<>>)
  BY ScriptLine
<1>2. UpToDateInv' /\ VersionInv'
  BY <1>1, ShorterLine DEF IInv, OutcomeInv
<1>3. VerifyInv' /\ RunningInv'
  BY <1>1 DEF VerifyInv, RunningInv
<1>4. SuccessIsWhole'
  BY <1>1 DEF OutcomeInv, SuccessIsWhole, Whole, Success
<1> QED
  BY <1>2, <1>3, <1>4 DEF OutcomeInv

\* The three steps of the script that decide the outcome, and all others.
LEMMA ScriptOutcome ==
  ASSUME IInv, OutcomeInv, Script \/ IoError \/ Rerun
  PROVE  OutcomeInv'
<1> DEFINE Calm == /\ before' = before
                   /\ result' = result \/ result' \in Failure
                   /\ pc' # "done" => result' = result /\ pc # "done"
                   /\ pc' \in {"verify", "verifyRead"} =>
                         pc \in {"verify", "verifyRead"}
<1>1. /\ dev' = dev /\ TypeOK /\ rx \in Seq(Answers) /\ dev \in Pack
      /\ rx' = rx \/ (rx # <<>> /\ rx' = Tail(rx)) \/ rx' = <<>>
  BY ScriptLine DEF IInv, TypeOK
<1>2. UpToDateInv /\ VersionInv /\ VerifyInv /\ RunningInv /\ SuccessIsWhole
  BY DEF OutcomeInv
<1>3. Failure \cap Success = {}
  BY DEF Failure, Success
<1>4. CASE Calm
  <2>1. pc' # "done" => result' = "none"
    BY <1>2, <1>4 DEF RunningInv
  <2>2. pc' \in {"verify", "verifyRead"} => dev.next = Blocks
    BY <1>2, <1>4 DEF VerifyInv
  <2>3. result' \notin Success \/ result' = result
    BY <1>3, <1>4
  <2> QED
    BY <1>4, <2>1, <2>2, <2>3, QuietOutcome
<1>5. CASE AskVersion \/ Jump \/ BootWait \/ SkipLate \/ SendRequest
           \/ SendMetadata \/ SendBlock
  BY <1>4, <1>5 DEF AskVersion, Jump, BootWait, SkipLate, SendRequest,
     SendMetadata, SendBlock, Goto, Expected, script
<1>6. CASE ReadRequest
  BY <1>4, <1>6 DEF ReadRequest, TryAgain, Goto, Finish, Failure
<1>7. CASE BlockDeadline
  BY <1>4, <1>7 DEF BlockDeadline, TryAgain, Goto, Finish, Failure
<1>8. CASE IoError
  BY <1>4, <1>8 DEF IoError, Finish, Failure
<1>9. CASE Rerun
  <2>1. before' = "none" /\ result' = "none" /\ pc' = "version"
    BY <1>9 DEF Rerun
  <2>2. result' \notin Success
    BY <2>1 DEF Success
  <2> QED
    BY <2>1, <2>2, QuietOutcome

\* The version before: the answer is the first of those still to be read.
<1>10. CASE VersionBefore
  <2>1. pc' = "jump" /\ result' = result /\ result = "none"
    BY <1>2, <1>10 DEF VersionBefore, Goto, RunningInv
  <2>2. VerifyInv' /\ RunningInv' /\ SuccessIsWhole'
    BY <2>1 DEF VerifyInv, RunningInv, SuccessIsWhole, Success
  <2>3. CASE before' = before
    BY <1>1, <1>2, <2>2, <2>3, ShorterLine DEF OutcomeInv
  <2>4. CASE Answer("version") /\ before' = Head(rx).status
    <3>1. rx # <<>> /\ Head(rx) = rx[1] /\ rx[1].cmd = "version" /\ rx' = Tail(rx)
      BY <1>1, <2>4, TakeFrame DEF Answer
    <3>2. /\ Len(rx) \in Nat /\ 1 \in 1 .. Len(rx)
          /\ Len(rx') = Len(rx) - 1
          /\ \A i \in 1 .. Len(rx') :
                i + 1 \in 1 .. Len(rx) /\ rx'[i] = rx[i + 1]
      BY <1>1, <3>1, TakeFrame
    <3>3. \A i \in 1 .. Len(rx') : \A j \in i .. Len(rx') :
             /\ j \in 1 .. Len(rx') /\ j + 1 \in i + 1 .. Len(rx)
             /\ i + 1 \in 1 .. Len(rx)
      BY <3>2
    <3>4. UpToDateInv'
      BY <1>1, <1>2, <3>2 DEF UpToDateInv, Whole
    <3>5. before' = "new" =>
             /\ dev.app = "new"
             /\ \A i \in 1 .. Len(rx) :
                   rx[i].cmd = "version" => rx[i].status = "new"
      BY <1>2, <2>4, <3>1, <3>2 DEF VersionInv
    <3>6. before' = "new" =>
             /\ dev'.app = "new"
             /\ \A i \in 1 .. Len(rx') :
                   rx'[i].cmd = "version" => rx'[i].status = "new"
      BY <1>1, <3>2, <3>5
    <3>7. ASSUME NEW i \in 1 .. Len(rx'),
                 rx'[i].cmd = "version" /\ rx'[i].status = "new"
          PROVE  /\ dev'.app = "new"
                 /\ \A j \in i .. Len(rx') :
                       rx'[j].cmd = "version" => rx'[j].status = "new"
      <4>1. i + 1 \in 1 .. Len(rx) /\ rx'[i] = rx[i + 1]
        BY <3>2
      <4>2. /\ dev.app = "new"
            /\ \A j \in i + 1 .. Len(rx) :
                  rx[j].cmd = "version" => rx[j].status = "new"
        BY <1>2, <3>7, <4>1 DEF VersionInv
      <4> QED
        BY <1>1, <3>2, <3>3, <4>2
    <3>8. VersionInv'
      BY <3>6, <3>7 DEF VersionInv
    <3> QED
      BY <2>2, <3>4, <3>8 DEF OutcomeInv
  <2> QED
    BY <1>10, <2>3, <2>4 DEF VersionBefore
<1>11. CASE ReadMetadata
  <2>1. before' = before
    BY <1>11 DEF ReadMetadata
  <2>2. CASE result' # "upToDate"
    <3>1. Calm
      BY <1>11, <2>2 DEF ReadMetadata, MetadataVerdict, TryAgain, Goto, Finish,
         Failure
    <3> QED
      BY <1>4, <3>1
  <2>3. CASE result' = "upToDate"
    <3>1. /\ Answer("metadata") /\ Head(rx).status = "upToDate" /\ pc' = "done"
      <4>1. result = "none"
        BY <1>2, <1>11 DEF ReadMetadata, RunningInv
      <4> QED
        BY <1>11, <2>3, <4>1 DEF ReadMetadata, MetadataVerdict, TryAgain, Goto,
           Finish
    <3>2. Whole
      BY <1>1, <1>2, <3>1, TakeFrame DEF Answer, UpToDateInv
    <3>3. SuccessIsWhole' /\ RunningInv' /\ VerifyInv'
      BY <1>1, <2>3, <3>1, <3>2 DEF SuccessIsWhole, RunningInv, VerifyInv, Whole
    <3> QED
      BY <1>1, <1>2, <2>1, <3>3, ShorterLine DEF OutcomeInv
  <2> QED
    BY <2>2, <2>3
\* The last block's answer promises no more than is written.
<1>12. CASE ReadBlock
  <2>1. CASE ~(PacketDone(Head(rx)) /\ NextPacket)
    <3>1. Calm
      BY <1>12, <2>1 DEF ReadBlock, TryAgain, Goto, Finish, Failure
    <3> QED
      BY <1>4, <3>1
  <2>2. CASE PacketDone(Head(rx)) /\ NextPacket
    <3>1. /\ Head(rx) = rx[1] /\ 1 \in 1 .. Len(rx) /\ rx[1].cmd = "block"
          /\ rx[1].req = pkt + 1 /\ pc \in Transfer
      BY <1>1, <1>12, <2>2, TakeFrame DEF ReadBlock, Answer, PacketDone, Transfer
    <3>2. rx[1].req <= dev.next
      BY <3>1 DEF IInv, BlocksInv
    <3>3. pkt + 1 = Blocks => dev.next = Blocks
      BY <1>1, <3>1, <3>2, OtaAssumption DEF Pack
    <3>4. /\ before' = before /\ result' = result /\ pc # "done"
          /\ pc' \in {"block", "verify"}
          /\ pc' = "verify" => pkt + 1 = Blocks
      BY <1>12, <2>2 DEF ReadBlock, NextPacket, Goto
    <3>5. result' = "none"
      BY <1>2, <3>4 DEF RunningInv
    <3> QED
      BY <3>3, <3>4, <3>5, QuietOutcome
  <2> QED
    BY <2>1, <2>2
\* The verdict: an answer that differs from the first is the new application's.
<1>13. CASE Verify
  <2>1. before' = before /\ dev.next = Blocks
    BY <1>2, <1>13 DEF Verify, VerifyInv
  <2>2. CASE result' # "updated"
    <3>1. Calm
      BY <1>13, <2>2 DEF Verify, TryAgain, Report, Goto, Finish, Failure
    <3> QED
      BY <1>4, <3>1
  <2>3. CASE result' = "updated"
    <3>1. result = "none"
      BY <1>2, <1>13 DEF Verify, RunningInv
    <3>2. /\ Answer("version") /\ pc' = "done"
          /\ ~(before # "none" /\ Head(rx).status = before)
      BY <1>13, <2>3, <3>1 DEF Verify, TryAgain, Report, Goto, Finish
    <3>3. /\ Head(rx) = rx[1] /\ 1 \in 1 .. Len(rx) /\ rx[1] \in Answers
          /\ rx[1].cmd = "version"
      BY <1>1, <3>2, TakeFrame DEF Answer
    <3>4. rx[1].status \in Versions
      BY <3>3 DEF Answers
    <3>5. ASSUME before # "none" PROVE dev.app # before
      <4>1. rx[1].status # before /\ before \in Versions
        BY <1>1, <3>2, <3>3, <3>5 DEF TypeOK
      <4>2. before # "new"
        BY <1>2, <3>3, <3>4, <4>1 DEF VersionInv
      <4>3. before = "old" /\ rx[1].status = "new"
        BY <3>4, <4>1, <4>2 DEF Versions
      <4>4. dev.app = "new"
        BY <1>2, <3>3, <4>3 DEF VersionInv
      <4> QED
        BY <4>3, <4>4
    <3>6. SuccessIsWhole' /\ RunningInv' /\ VerifyInv'
      BY <1>1, <2>1, <2>3, <3>2, <3>5
      DEF SuccessIsWhole, RunningInv, VerifyInv, Whole
    <3> QED
      BY <1>1, <1>2, <2>1, <3>6, ShorterLine DEF OutcomeInv
  <2> QED
    BY <2>2, <2>3
<1> HIDE DEF Calm
<1> QED
  BY <1>5, <1>6, <1>7, <1>8, <1>9, <1>10, <1>11, <1>12, <1>13 DEF Script

\* The pack starts without a block, the script without a result.
LEMMA InitOutcome == Init => OutcomeInv
<1> SUFFICES ASSUME Init PROVE OutcomeInv
  OBVIOUS
<1>1. /\ Len(<<>>) = 0 /\ 1 .. 0 = {}
  OBVIOUS
<1>2. VersionInv /\ UpToDateInv /\ VerifyInv /\ RunningInv
  BY <1>1 DEF Init, VersionInv, UpToDateInv, VerifyInv, RunningInv
<1>3. SuccessIsWhole
  BY DEF Init, SuccessIsWhole, Success
<1> QED
  BY <1>2, <1>3 DEF OutcomeInv

\* run() returns True only if the pack holds the whole image, and after a
\* version it has read only if another one runs, for any number of runs,
\* answers left over from a killed one, and a pack that restarts into either
\* application.
THEOREM SuccessIsHonest == Spec => []SuccessIsWhole
<1>1. Init => IInv /\ OutcomeInv
  BY InitIInv, InitOutcome
<1>2. IInv /\ OutcomeInv /\ [Next]_vars => IInv' /\ OutcomeInv'
  <2> SUFFICES ASSUME IInv, OutcomeInv, [Next]_vars PROVE IInv' /\ OutcomeInv'
    OBVIOUS
  <2>1. IInv'
    BY NextIInv
  <2>2. CASE UNCHANGED vars
    BY <2>1, <2>2 DEF vars, OutcomeInv, VersionInv, UpToDateInv, VerifyInv, RunningInv,
       SuccessIsWhole, Whole
  <2>3. CASE Next
    BY <2>1, <2>3, ScriptOutcome, DeviceOutcome DEF Next
  <2> QED
    BY <2>1, <2>2, <2>3
<1>3. OutcomeInv => SuccessIsWhole
  BY DEF OutcomeInv
<1> QED
  BY <1>1, <1>2, <1>3, PTL DEF Spec

-----------------------------------------------------------------------------
(* Giving a packet up.  Every failed attempt is charged to a fault of its  *)
(* own: the attempts before this one to the first faults, the answers on   *)
(* the line that will fail one to later faults, in their order.            *)

NoJump(s) == \A i \in 1 .. Len(s) : s[i].cmd # "jump"

\* An answer that fails the attempt that reads it.
Bad(b) == b.cmd = "block" /\ b.status \in {"busy", "error"}

\* The bad answers on the line s are charged to faults from low to high.
Charged(s, low, high) ==
    \E f \in [1 .. Len(s) -> Nat] :
       /\ \A i \in 1 .. Len(s) : Bad(s[i]) => low <= f[i] /\ f[i] <= high
       /\ \A i, j \in 1 .. Len(s) :
             i < j /\ Bad(s[i]) /\ Bad(s[j]) => f[i] < f[j]

\* Something is on its way that will end the attempt well, if it is not lost.
HopeSent == \E i \in 1 .. Len(cmds) : cmds[i].cmd = "block" /\ cmds[i].n = pkt
HopeBack == \E i \in 1 .. Len(rx) : rx[i].cmd = "block" /\ PacketDone(rx[i])
Hope == HopeSent \/ dev.writing \/ HopeBack

ChargeInv ==
    pc \in Transfer /\ faults < 3 /\ dev.mode = "boot" =>
       /\ attempt - 1 <= faults
       /\ Charged(rx, attempt, faults)
       /\ pc = "blockRead" => Hope \/ attempt <= faults

\* From the request on no jump is on its way: a pack that has restarted into
\* its application stays there.
JumpInv == pc \in Asking \cup Transfer \/ result = "packet" => NoJump(cmds)

FaultInv == IInv /\ RunningInv /\ ChargeInv /\ JumpInv /\ SurvivesTwoFaults

\* A bad answer that is read takes its fault with it.
LEMMA ChargeTake ==
  ASSUME NEW S, NEW s \in Seq(S), s # <<>>, NEW low \in Nat, NEW high \in Nat,
         Charged(s, low, high)
  PROVE  /\ Charged(Tail(s), low, high)
         /\ Bad(Head(s)) => low <= high /\ Charged(Tail(s), low + 1, high)
<1>1. PICK f \in [1 .. Len(s) -> Nat] :
          /\ \A i \in 1 .. Len(s) : Bad(s[i]) => low <= f[i] /\ f[i] <= high
          /\ \A i, j \in 1 .. Len(s) :
                i < j /\ Bad(s[i]) /\ Bad(s[j]) => f[i] < f[j]
  BY DEF Charged
<1>2. /\ Head(s) = s[1] /\ Len(s) \in Nat /\ 1 \in 1 .. Len(s)
      /\ \A i \in 1 .. Len(Tail(s)) :
            i + 1 \in 1 .. Len(s) /\ Tail(s)[i] = s[i + 1] /\ i \in Nat /\ 1 < i + 1
  BY TakeFrame
<1> DEFINE g == [i \in 1 .. Len(Tail(s)) |-> f[i + 1]]
<1>3. /\ g \in [1 .. Len(Tail(s)) -> Nat]
      /\ \A i \in 1 .. Len(Tail(s)) : g[i] = f[i + 1] /\ f[i + 1] \in Nat
  BY <1>2
<1> HIDE DEF g
<1>4. /\ \A i \in 1 .. Len(Tail(s)) : Bad(Tail(s)[i]) => low <= g[i] /\ g[i] <= high
      /\ \A i, j \in 1 .. Len(Tail(s)) :
            i < j /\ Bad(Tail(s)[i]) /\ Bad(Tail(s)[j]) => g[i] < g[j]
  BY <1>1, <1>2, <1>3
<1>5. Charged(Tail(s), low, high)
  BY <1>3, <1>4 DEF Charged
<1>6. ASSUME Bad(Head(s))
      PROVE  low <= high /\ Charged(Tail(s), low + 1, high)
  <2>1. f[1] \in Nat /\ low <= f[1] /\ f[1] <= high
    BY <1>1, <1>2, <1>6
  <2>2. \A i \in 1 .. Len(Tail(s)) :
           Bad(Tail(s)[i]) => low + 1 <= g[i] /\ g[i] <= high
    <3> SUFFICES ASSUME NEW i \in 1 .. Len(Tail(s)), Bad(Tail(s)[i])
                 PROVE  low + 1 <= g[i] /\ g[i] <= high
      OBVIOUS
    <3>1. Bad(s[1]) /\ Bad(s[i + 1]) /\ 1 < i + 1
      BY <1>2, <1>6
    <3>2. f[1] < f[i + 1] /\ f[i + 1] <= high
      BY <1>1, <1>2, <3>1
    <3> QED
      BY <1>3, <2>1, <3>2
  <2>3. Charged(Tail(s), low + 1, high)
    BY <1>3, <1>4, <2>2 DEF Charged
  <2> QED
    BY <2>1, <2>3
<1> QED
  BY <1>5, <1>6

\* Charges may be spread over more faults, and moved to later ones.
LEMMA ChargeMore ==
  ASSUME NEW s, NEW low \in Nat, NEW high \in Nat, Charged(s, low, high)
  PROVE  /\ \A l, h \in Nat : l <= low /\ high <= h => Charged(s, l, h)
         /\ Charged(s, low + 1, high + 1)
<1>1. PICK f \in [1 .. Len(s) -> Nat] :
          /\ \A i \in 1 .. Len(s) : Bad(s[i]) => low <= f[i] /\ f[i] <= high
          /\ \A i, j \in 1 .. Len(s) :
                i < j /\ Bad(s[i]) /\ Bad(s[j]) => f[i] < f[j]
  BY DEF Charged
<1>2. ASSUME NEW l \in Nat, NEW h \in Nat, l <= low, high <= h
      PROVE  Charged(s, l, h)
  <2>1. \A i \in 1 .. Len(s) : Bad(s[i]) => l <= f[i] /\ f[i] <= h
    BY <1>1, <1>2
  <2> QED
    BY <1>1, <2>1 DEF Charged
<1> DEFINE g == [i \in 1 .. Len(s) |-> f[i] + 1]
<1>3. /\ g \in [1 .. Len(s) -> Nat]
      /\ \A i \in 1 .. Len(s) : g[i] = f[i] + 1 /\ f[i] \in Nat
  OBVIOUS
<1> HIDE DEF g
<1>4. /\ \A i \in 1 .. Len(s) : Bad(s[i]) => low + 1 <= g[i] /\ g[i] <= high + 1
      /\ \A i, j \in 1 .. Len(s) :
            i < j /\ Bad(s[i]) /\ Bad(s[j]) => g[i] < g[j]
  BY <1>1, <1>3
<1>5. Charged(s, low + 1, high + 1)
  BY <1>3, <1>4 DEF Charged
<1> QED
  BY <1>2, <1>5

\* A new answer is charged to the new fault it is, or to none.
LEMMA ChargePut ==
  ASSUME NEW S, NEW s \in Seq(S), NEW r \in S, NEW low \in Nat, NEW high \in Nat,
         Charged(s, low, high)
  PROVE  /\ ~Bad(r) => Charged(Append(s, r), low, high)
         /\ low <= high + 1 => Charged(Append(s, r), low, high + 1)
<1>1. PICK f \in [1 .. Len(s) -> Nat] :
          /\ \A i \in 1 .. Len(s) : Bad(s[i]) => low <= f[i] /\ f[i] <= high
          /\ \A i, j \in 1 .. Len(s) :
                i < j /\ Bad(s[i]) /\ Bad(s[j]) => f[i] < f[j]
  BY DEF Charged
<1> DEFINE t == Append(s, r)
           g == [i \in 1 .. Len(t) |-> IF i \in 1 .. Len(s) THEN f[i] ELSE high + 1]
<1>2. /\ Len(s) \in Nat /\ Len(t) = Len(s) + 1 /\ t[Len(s) + 1] = r
      /\ \A i \in 1 .. Len(s) : t[i] = s[i]
  BY PutFrame
<1> HIDE DEF t
<1>3. \A i \in 1 .. Len(t) : i \in 1 .. Len(s) \/ i = Len(s) + 1
  BY <1>2
<1>4. /\ g \in [1 .. Len(t) -> Nat]
      /\ \A i \in 1 .. Len(t) :
            IF i \in 1 .. Len(s) THEN g[i] = f[i] /\ f[i] \in Nat /\ t[i] = s[i]
                                 ELSE g[i] = high + 1 /\ t[i] = r /\ i = Len(s) + 1
  BY <1>2, <1>3
<1> HIDE DEF g
<1>5. ASSUME NEW i \in 1 .. Len(t), NEW j \in 1 .. Len(t), i < j,
             Bad(t[i]), Bad(t[j])
      PROVE  g[i] < g[j]
  <2>1. i \in 1 .. Len(s)
    BY <1>2, <1>3, <1>5
  <2>2. g[i] = f[i] /\ f[i] \in Nat /\ Bad(s[i]) /\ f[i] <= high
    BY <1>1, <1>4, <1>5, <2>1
  <2>3. CASE j \in 1 .. Len(s)
    BY <1>1, <1>4, <1>5, <2>1, <2>2, <2>3
  <2>4. CASE j \notin 1 .. Len(s)
    BY <1>4, <2>2, <2>4
  <2> QED
    BY <2>3, <2>4
<1>6. ASSUME ~Bad(r) PROVE Charged(t, low, high)
  <2>1. \A i \in 1 .. Len(t) : Bad(t[i]) => low <= g[i] /\ g[i] <= high
    BY <1>1, <1>4, <1>6
  <2> QED
    BY <1>4, <1>5, <2>1 DEF Charged
<1>7. ASSUME low <= high + 1 PROVE Charged(t, low, high + 1)
  <2>1. \A i \in 1 .. Len(t) : Bad(t[i]) => low <= g[i] /\ g[i] <= high + 1
    BY <1>1, <1>4, <1>7
  <2> QED
    BY <1>4, <1>5, <2>1 DEF Charged
<1> QED
  BY <1>6, <1>7 DEF t

\* A line without answers about blocks charges nothing.
LEMMA ChargeNone ==
  ASSUME NEW s, NoBlocks(s), NEW low, NEW high
  PROVE  Charged(s, low, high)
<1>1. [i \in 1 .. Len(s) |-> 0] \in [1 .. Len(s) -> Nat]
  OBVIOUS
<1>2. \A i \in 1 .. Len(s) : ~Bad(s[i])
  BY DEF NoBlocks, Bad
<1> QED
  BY <1>1, <1>2 DEF Charged

\* Hope on the line survives what is taken in front of it, unless it is that,
\* and what is put behind it.
LEMMA HopeKept ==
  ASSUME TypeOK, pkt' = pkt
  PROVE  /\ HopeSent /\ cmds' = cmds => HopeSent'
         /\ HopeSent /\ cmds # <<>> /\ cmds' = Tail(cmds) =>
              HopeSent' \/ (Head(cmds).cmd = "block" /\ Head(cmds).n = pkt)
         /\ HopeBack /\ rx' = rx => HopeBack'
         /\ HopeBack /\ rx # <<>> /\ rx' = Tail(rx) =>
              HopeBack' \/ (Head(rx).cmd = "block" /\ PacketDone(Head(rx)))
         /\ \A r \in Answers : rx' = Append(rx, r) =>
              /\ HopeBack => HopeBack'
              /\ r.cmd = "block" /\ r.status \in {"ok", "written"} /\ r.req = pkt + 1
                    => HopeBack'
<1>1. /\ HopeSent /\ cmds' = cmds => HopeSent'
      /\ HopeBack /\ rx' = rx => HopeBack'
  BY DEF HopeSent, HopeBack, PacketDone
<1>2. ASSUME HopeSent, cmds # <<>>, cmds' = Tail(cmds)
      PROVE  HopeSent' \/ (Head(cmds).cmd = "block" /\ Head(cmds).n = pkt)
  <2>1. PICK i \in 1 .. Len(cmds) : cmds[i].cmd = "block" /\ cmds[i].n = pkt
    BY <1>2 DEF HopeSent
  <2>2. cmds \in Seq(Commands)
    BY DEF TypeOK
  <2>3. /\ Head(cmds) = cmds[1] /\ Len(cmds) \in Nat
        /\ Len(cmds') = Len(cmds) - 1
        /\ \A k \in 1 .. Len(cmds') : cmds'[k] = cmds[k + 1]
    BY <1>2, <2>2, TakeFrame
  <2>4. CASE i # 1
    <3>1. i - 1 \in 1 .. Len(cmds') /\ (i - 1) + 1 = i
      BY <2>3, <2>4
    <3> QED
      BY <2>1, <2>3, <3>1 DEF HopeSent
  <2> QED
    BY <2>1, <2>3, <2>4
<1>3. ASSUME HopeBack, rx # <<>>, rx' = Tail(rx)
      PROVE  HopeBack' \/ (Head(rx).cmd = "block" /\ PacketDone(Head(rx)))
  <2>1. PICK i \in 1 .. Len(rx) : rx[i].cmd = "block" /\ PacketDone(rx[i])
    BY <1>3 DEF HopeBack
  <2>2. rx \in Seq(Answers)
    BY DEF TypeOK
  <2>3. /\ Head(rx) = rx[1] /\ Len(rx) \in Nat
        /\ Len(rx') = Len(rx) - 1
        /\ \A k \in 1 .. Len(rx') : rx'[k] = rx[k + 1]
    BY <1>3, <2>2, TakeFrame
  <2>4. CASE i # 1
    <3>1. i - 1 \in 1 .. Len(rx') /\ (i - 1) + 1 = i
      BY <2>3, <2>4
    <3> QED
      BY <2>1, <2>3, <3>1 DEF HopeBack, PacketDone
  <2> QED
    BY <2>1, <2>3, <2>4
<1>4. ASSUME NEW r \in Answers, rx' = Append(rx, r)
      PROVE  /\ HopeBack => HopeBack'
             /\ r.cmd = "block" /\ r.status \in {"ok", "written"} /\ r.req = pkt + 1
                   => HopeBack'
  <2>1. rx \in Seq(Answers)
    BY DEF TypeOK
  <2>2. /\ Len(rx) \in Nat /\ Len(rx') = Len(rx) + 1 /\ rx'[Len(rx) + 1] = r
        /\ \A i \in 1 .. Len(rx) : i \in 1 .. Len(rx') /\ rx'[i] = rx[i]
        /\ Len(rx) + 1 \in 1 .. Len(rx')
    BY <1>4, <2>1, PutFrame
  <2> QED
    BY <2>2 DEF HopeBack, PacketDone
<1> QED
  BY <1>1, <1>2, <1>3, <1>4
\* What a step of the pack does to the faults of a transfer: it is one, or it
\* puts no bad answer on the line and takes no hope away.
LEMMA PackFaults ==
  ASSUME IInv, JumpInv, Device, pc \in Transfer, dev'.mode = "boot", faults' < 3
  PROVE  /\ dev.mode = "boot" /\ faults < 3
         /\ \/ /\ faults' = faults + 1
               /\ rx' = rx \/ \E r \in Answers : rx' = Append(rx, r)
            \/ /\ faults' = faults /\ (Hope => Hope')
               /\ \/ rx' = rx
                  \/ \E r \in Answers : rx' = Append(rx, r) /\ ~Bad(r)
<1> USE DEF IInv
<1>1. /\ TypeOK /\ dev \in Pack /\ rx \in Seq(Answers) /\ cmds \in Seq(Commands)
      /\ faults \in 0 .. 3 /\ dev.next \in Nat /\ pkt \in Nat /\ Blocks \in Nat
  BY OtaAssumption DEF TypeOK, Pack
<1>2. pkt' = pkt
  BY DEF Device, Ignore, AppAnswers, RequestAnswer, MetadataAnswer, BlockAnswer,
     WriteDone, Restart, script
<1>3. Fault => faults < 3 /\ faults' = faults + 1
  BY <1>1 DEF Fault
<1>4. ASSUME NEW cmd, NEW status, NEW req, Reply(cmd, status, req)
      PROVE  \/ faults < 3 /\ faults' = faults + 1 /\ rx' = rx
             \/ /\ rx' = Append(rx, [cmd |-> cmd, status |-> status, req |-> req])
                /\ IF status \in {"busy", "error"}
                   THEN faults < 3 /\ faults' = faults + 1 ELSE faults' = faults
  BY <1>3, <1>4 DEF Reply
<1>5. CASE Ignore
  <2>1. faults < 3 /\ faults' = faults + 1 /\ rx' = rx /\ dev' = dev
    BY <1>3, <1>5 DEF Ignore
  <2> QED
    BY <2>1
<1>6. CASE AppAnswers
  <2>1. ~(Take("jump"))
    <3>1. cmds # <<>> => 1 \in 1 .. Len(cmds) /\ Head(cmds) = cmds[1]
      BY <1>1
    <3> QED
      BY <3>1 DEF JumpInv, NoJump, Take
  <2> QED
    BY <1>6, <2>1 DEF AppAnswers
<1>7. CASE RequestAnswer
  <2>1. /\ dev' = dev /\ cmds # <<>> /\ Head(cmds).cmd # "block"
        /\ cmds' = Tail(cmds)
    BY <1>7 DEF RequestAnswer, Take
  <2>2. PICK status \in {"ok", "rejected"} : Reply("request", status, 0)
    BY <1>7 DEF RequestAnswer
  <2> DEFINE r == [cmd |-> "request", status |-> status, req |-> 0]
  <2>3. r \in Answers /\ r.cmd = "request"
    BY DEF Answers
  <2>4. CASE faults < 3 /\ faults' = faults + 1 /\ rx' = rx
    BY <2>1, <2>4
  <2>5. CASE rx' = Append(rx, r) /\ faults' = faults
    <3>1. Hope => Hope'
      BY <1>1, <1>2, <2>1, <2>3, <2>5, HopeKept DEF Hope
    <3>2. ~Bad(r)
      BY <2>3 DEF Bad
    <3>3. faults < 3
      BY <2>5
    <3> HIDE DEF r
    <3> QED
      BY <2>1, <2>3, <2>5, <3>1, <3>2, <3>3
  <2> QED
    BY <1>4, <2>2, <2>4, <2>5
<1>8. CASE MetadataAnswer
  <2>1. cmds # <<>> /\ Head(cmds).cmd = "metadata" /\ cmds' = Tail(cmds)
    BY <1>8 DEF MetadataAnswer, Take
  <2>2. dev.mode = "boot"
    BY <1>8 DEF MetadataAnswer
  <2>3. PICK status \in {"upToDate", "erasing", "failed", "ready"}, req \in 0 .. Blocks :
           Reply("metadata", status, req)
    <3>1. 0 \in 0 .. Blocks /\ dev.next \in 0 .. Blocks
      BY <1>1 DEF Pack
    <3> QED
      BY <1>8, <3>1 DEF MetadataAnswer
  <2> DEFINE r == [cmd |-> "metadata", status |-> status, req |-> req]
  <2>4. r \in Answers /\ r.cmd = "metadata"
    BY DEF Answers
  <2>5. ~dev.writing
    <3>1. 1 \in 1 .. Len(cmds) /\ cmds[1].cmd = "metadata"
      BY <1>1, <2>1
    <3> QED
      BY <3>1 DEF MetadataInv
  <2>6. CASE faults < 3 /\ faults' = faults + 1 /\ rx' = rx
    BY <2>2, <2>6
  <2>7. CASE rx' = Append(rx, r) /\ faults' = faults
    <3>1. Hope => Hope'
      BY <1>1, <1>2, <2>1, <2>4, <2>5, <2>7, HopeKept DEF Hope
    <3>2. ~Bad(r)
      BY <2>4 DEF Bad
    <3>3. faults < 3
      BY <2>7
    <3> HIDE DEF r
    <3> QED
      BY <2>2, <2>4, <2>7, <3>1, <3>2, <3>3
  <2> QED
    BY <1>4, <2>3, <2>6, <2>7
<1>9. CASE BlockAnswer
  <2>1. cmds # <<>> /\ Head(cmds).cmd = "block" /\ cmds' = Tail(cmds)
    BY <1>9 DEF BlockAnswer, Take
  <2>2. dev.mode = "boot"
    BY <1>9 DEF BlockAnswer
  <2>3. Head(cmds).n \in Nat /\ Head(cmds).n < Blocks /\ Head(cmds).n <= pkt
    <3>1. Head(cmds) \in Commands /\ 1 \in 1 .. Len(cmds) /\ Head(cmds) = cmds[1]
      BY <1>1, <2>1
    <3>2. Head(cmds).n \in 0 .. Blocks - 1
      BY <2>1, <3>1 DEF Commands
    <3>3. Head(cmds).n <= pkt
      BY <2>1, <3>1 DEF BlocksInv
    <3> QED
      BY <1>1, <3>2, <3>3
  <2>4. /\ pkt <= dev.next /\ dev.next <= pkt + 1
        /\ dev.next \in 0 .. Blocks /\ (dev.writing => dev.next = pkt)
    BY <1>1 DEF InStep, BlocksInv, Pack
  <2>5. ASSUME NEW status \in {"ok", "written", "busy", "error"}, NEW req \in 0 .. Blocks,
               Reply("block", status, req),
               status \in {"ok", "written"} =>
                  \/ req = pkt + 1 /\ dev'.writing = dev.writing
                  \/ dev'.writing /\ ~dev.writing
                  \/ Head(cmds).n # pkt /\ dev'.writing = dev.writing
        PROVE  /\ faults < 3
               /\ \/ /\ faults' = faults + 1
                     /\ rx' = rx \/ \E r \in Answers : rx' = Append(rx, r)
                  \/ /\ faults' = faults /\ (Hope => Hope')
                     /\ \/ rx' = rx
                        \/ \E r \in Answers : rx' = Append(rx, r) /\ ~Bad(r)
    <3> DEFINE r == [cmd |-> "block", status |-> status, req |-> req]
    <3>1. r \in Answers /\ r.cmd = "block" /\ r.status = status /\ r.req = req
      BY DEF Answers
    <3> HIDE DEF r
    <3>2. CASE faults < 3 /\ faults' = faults + 1 /\ rx' = rx
      BY <3>2
    <3>3. CASE /\ rx' = Append(rx, r) /\ status \in {"busy", "error"}
               /\ faults < 3 /\ faults' = faults + 1
      BY <3>1, <3>3
    <3>4. CASE /\ rx' = Append(rx, r) /\ status \notin {"busy", "error"}
               /\ faults' = faults
      <4>1. status \in {"ok", "written"} /\ ~Bad(r)
        BY <3>1, <3>4 DEF Bad
      <4>2. /\ HopeBack => HopeBack'
            /\ req = pkt + 1 => HopeBack'
            /\ HopeSent => HopeSent' \/ Head(cmds).n = pkt
        BY <1>1, <1>2, <2>1, <3>1, <3>4, <4>1, HopeKept
      <4>3. Hope => Hope'
        BY <2>5, <4>1, <4>2 DEF Hope
      <4> QED
        BY <3>1, <3>4, <4>1, <4>3
    <3> QED
      BY <1>4, <2>5, <3>2, <3>3, <3>4 DEF r
  <2>6. \E status \in {"ok", "written", "busy", "error"}, req \in 0 .. Blocks :
           /\ Reply("block", status, req)
           /\ status \in {"ok", "written"} =>
                 \/ req = pkt + 1 /\ dev'.writing = dev.writing
                 \/ dev'.writing /\ ~dev.writing
                 \/ Head(cmds).n # pkt /\ dev'.writing = dev.writing
    <3> DEFINE fits == dev.open /\ ~dev.writing /\ Head(cmds).n = dev.next
    <3>1. CASE fits /\ dev' = [dev EXCEPT !.next = @ + 1]
               /\ \E status \in {"ok", "written"} : Reply("block", status, dev.next + 1)
      <4>1. dev.next + 1 \in 0 .. Blocks /\ dev.next + 1 = pkt + 1
        BY <1>1, <2>3, <2>4, <3>1
      <4>2. dev'.writing = dev.writing
        BY <1>1, <3>1 DEF Pack
      <4> QED
        BY <3>1, <4>1, <4>2
    <3>2. CASE fits /\ dev' = [dev EXCEPT !.writing = TRUE]
               /\ Reply("block", "ok", dev.next)
      <4>1. dev'.writing /\ ~dev.writing
        BY <1>1, <3>2 DEF Pack
      <4> QED
        BY <2>4, <3>2, <4>1
    <3>3. CASE /\ dev.open /\ ~dev.writing /\ Head(cmds).n < dev.next /\ UNCHANGED dev
               /\ \E status \in {"ok", "written"} : Reply("block", status, dev.next)
      <4>1. dev.next = pkt + 1 \/ Head(cmds).n # pkt
        BY <1>1, <2>3, <2>4, <3>3
      <4> QED
        BY <2>4, <3>3, <4>1
    <3>4. CASE Reply("block", "busy", dev.next) \/ Reply("block", "error", dev.next)
      BY <2>4, <3>4
    <3> QED
      BY <1>9, <3>1, <3>2, <3>3, <3>4 DEF BlockAnswer
  <2> QED
    BY <2>2, <2>5, <2>6
<1>10. CASE WriteDone
  <2>1. /\ dev.next = pkt /\ dev.writing /\ cmds' = cmds
        /\ Reply("block", "written", pkt + 1)
        /\ dev'.mode = dev.mode
    BY <1>1, <1>10 DEF WriteDone, BlocksInv, InStep, Pack
  <2>2. pkt + 1 \in 0 .. Blocks
    BY <1>1, <2>1 DEF RangeInv
  <2> DEFINE r == [cmd |-> "block", status |-> "written", req |-> pkt + 1]
  <2>3. r \in Answers /\ r.cmd = "block" /\ r.status = "written" /\ r.req = pkt + 1
    BY <2>2 DEF Answers
  <2> HIDE DEF r
  <2>4. CASE faults < 3 /\ faults' = faults + 1 /\ rx' = rx
    BY <2>1, <2>4
  <2>5. CASE rx' = Append(rx, r) /\ faults' = faults
    <3>1. Hope' /\ ~Bad(r)
      BY <1>1, <1>2, <2>3, <2>5, HopeKept DEF Hope, Bad
    <3> QED
      BY <2>1, <2>3, <2>5, <3>1
  <2> QED
    BY <1>4, <2>1, <2>4, <2>5 DEF r
<1>11. CASE Restart
  <2>1. dev'.mode = "app"
    BY <1>1, <1>11 DEF Restart, Pack
  <2> QED
    BY <2>1
<1> QED
  BY <1>5, <1>6, <1>7, <1>8, <1>9, <1>10, <1>11 DEF Device
\* What the pack does keeps the charges.
LEMMA DeviceCharge ==
  ASSUME IInv, ChargeInv, JumpInv, Device
  PROVE  ChargeInv'
<1>1. pc' = pc /\ attempt' = attempt
  BY DEF Device, Ignore, AppAnswers, RequestAnswer, MetadataAnswer, BlockAnswer,
     WriteDone, Restart, script
<1>2. SUFFICES ASSUME pc \in Transfer, dev'.mode = "boot", faults' < 3
               PROVE  /\ attempt - 1 <= faults' /\ Charged(rx', attempt, faults')
                      /\ pc = "blockRead" => Hope' \/ attempt <= faults'
  BY <1>1 DEF ChargeInv
<1>3. rx \in Seq(Answers) /\ faults \in Nat /\ attempt \in Nat
  BY DEF IInv, TypeOK
<1>4. dev.mode = "boot" /\ faults < 3
  BY <1>2, PackFaults
<1>5. /\ attempt - 1 <= faults /\ Charged(rx, attempt, faults)
      /\ pc = "blockRead" => Hope \/ attempt <= faults
  BY <1>2, <1>4 DEF ChargeInv
<1>6. CASE /\ faults' = faults + 1
           /\ rx' = rx \/ \E r \in Answers : rx' = Append(rx, r)
  <2>1. attempt <= faults + 1 /\ faults <= faults + 1 /\ faults + 1 \in Nat
    BY <1>3, <1>5
  <2>2. ASSUME rx' = rx PROVE Charged(rx', attempt, faults + 1)
    <3>1. \A l, h \in Nat : l <= attempt /\ faults <= h => Charged(rx, l, h)
      BY <1>3, <1>5, ChargeMore
    <3>2. attempt <= attempt
      BY <1>3
    <3> QED
      BY <1>3, <2>1, <2>2, <3>1, <3>2
  <2>3. ASSUME NEW r \in Answers, rx' = Append(rx, r)
        PROVE  Charged(rx', attempt, faults + 1)
    BY <1>3, <1>5, <2>1, <2>3, ChargePut
  <2>4. Charged(rx', attempt, faults + 1)
    BY <1>6, <2>2, <2>3
  <2>5. faults' = faults + 1 /\ attempt - 1 <= faults + 1
    BY <1>3, <1>6, <2>1
  <2> QED
    BY <2>1, <2>4, <2>5
<1>7. CASE /\ faults' = faults /\ (Hope => Hope')
           /\ \/ rx' = rx
              \/ \E r \in Answers : rx' = Append(rx, r) /\ ~Bad(r)
  <2>1. ASSUME NEW r \in Answers, rx' = Append(rx, r), ~Bad(r)
        PROVE  Charged(rx', attempt, faults)
    BY <1>3, <1>5, <2>1, ChargePut
  <2> QED
    BY <1>5, <1>7, <2>1
<1> QED
  BY <1>2, <1>6, <1>7, PackFaults

\* The script keeps them: a failed attempt uses up a fault, and the third one
\* that fails is the third fault.
LEMMA TransferCharge ==
  ASSUME IInv, RunningInv, ChargeInv, pc \in Transfer,
         SkipLate \/ SendBlock \/ ReadBlock \/ BlockDeadline
  PROVE  ChargeInv' /\ SurvivesTwoFaults'
<1>1. /\ TypeOK /\ rx \in Seq(Answers) /\ cmds \in Seq(Commands)
      /\ faults \in 0 .. 3 /\ attempt \in Nat /\ 1 <= attempt /\ pkt \in Nat
      /\ Blocks \in Nat
  BY OtaAssumption DEF IInv, TypeOK
<1>2. dev' = dev /\ result = "none"
  BY DEF SkipLate, SendBlock, ReadBlock, BlockDeadline, RunningInv, Transfer
<1>3. ASSUME faults < 3, dev.mode = "boot"
      PROVE  /\ attempt - 1 <= faults /\ Charged(rx, attempt, faults)
             /\ pc = "blockRead" => Hope \/ attempt <= faults
  BY <1>3 DEF ChargeInv
<1>4. Fault => faults' = IF faults < 3 THEN faults + 1 ELSE faults
  BY DEF Fault
<1>5. CASE SkipLate
  <2>1. /\ pc = "blockRead" /\ rx # <<>> /\ Head(rx).cmd # "block" /\ rx' = Tail(rx)
        /\ UNCHANGED <<script, cmds, faults>>
    BY <1>5 DEF SkipLate, Expected, Transfer
  <2>2. pc' = pc /\ attempt' = attempt /\ pkt' = pkt /\ result' = result
    BY <2>1 DEF script
  <2>3. Hope => Hope'
    BY <1>1, <1>2, <2>1, <2>2, HopeKept DEF Hope
  <2>4. ASSUME faults < 3, dev.mode = "boot" PROVE Charged(Tail(rx), attempt, faults)
    BY <1>1, <1>3, <2>1, <2>4, ChargeTake
  <2>5. ChargeInv'
    BY <1>2, <1>3, <2>1, <2>2, <2>3, <2>4 DEF ChargeInv
  <2> QED
    BY <1>2, <2>2, <2>5 DEF SurvivesTwoFaults
<1>6. CASE SendBlock
  <2>1. /\ pc' = "blockRead" /\ result' = result /\ UNCHANGED <<attempt, pkt, rx, faults>>
        /\ cmds' = Append(cmds, [cmd |-> "block", n |-> pkt])
    BY <1>6 DEF SendBlock, Goto, Send
  <2>2. HopeSent'
    <3>1. [cmd |-> "block", n |-> pkt] \in Commands
      BY <1>1 DEF Commands, IInv, RangeInv
    <3>2. /\ cmds'[Len(cmds) + 1] = [cmd |-> "block", n |-> pkt]
          /\ Len(cmds) + 1 \in 1 .. Len(cmds')
      BY <1>1, <2>1, <3>1, PutFrame
    <3> QED
      BY <2>1, <3>2 DEF HopeSent
  <2>3. ChargeInv'
    BY <1>2, <1>3, <2>1, <2>2 DEF ChargeInv, Hope
  <2> QED
    BY <1>2, <2>1, <2>3 DEF SurvivesTwoFaults
\* An attempt that fails, and the faults it is judged by.
<1>7. ASSUME NEW n \in 0 .. 3, faults' = n, pkt' = pkt,
             TryAgain(3, "block", Finish("packet")),
             n < 3 /\ dev.mode = "boot" => attempt <= n /\ Charged(rx', attempt + 1, n)
      PROVE  ChargeInv' /\ SurvivesTwoFaults'
  <2>1. CASE attempt < 3
    <3>1. attempt' = attempt + 1 /\ pc' = "block" /\ result' = result
      BY <1>7, <2>1 DEF TryAgain, Goto
    <3>2. attempt' - 1 = attempt
      BY <1>1, <3>1
    <3> QED
      BY <1>2, <1>7, <3>1, <3>2 DEF ChargeInv, SurvivesTwoFaults
  <2>2. CASE ~(attempt < 3)
    <3>1. pc' = "done" /\ result' = "packet"
      BY <1>7, <2>2 DEF TryAgain, Finish
    <3>2. dev.mode = "boot" => n = 3
      BY <1>1, <1>7, <2>2
    <3>3. dev.mode \in {"app", "boot"}
      BY <1>1 DEF TypeOK, Pack
    <3> QED
      BY <1>2, <1>7, <3>1, <3>2, <3>3 DEF ChargeInv, SurvivesTwoFaults, Transfer
  <2> QED
    BY <2>1, <2>2
<1>8. CASE BlockDeadline
  <2>1. /\ pc = "blockRead" /\ rx' = rx /\ pkt' = pkt
        /\ TryAgain(3, "block", Finish("packet"))
    BY <1>8 DEF BlockDeadline, Deadline
  <2>2. CASE Fault
    <3> DEFINE n == IF faults < 3 THEN faults + 1 ELSE faults
    <3>1. n \in 0 .. 3 /\ faults' = n
      BY <1>1, <1>4, <2>2
    <3>2. ASSUME n < 3, dev.mode = "boot"
          PROVE  attempt <= n /\ Charged(rx', attempt + 1, n)
      <4>1. faults < 3 /\ n = faults + 1 /\ faults \in Nat
        BY <1>1, <3>2
      <4>2. attempt - 1 <= faults /\ Charged(rx, attempt, faults)
        BY <1>3, <3>2, <4>1
      <4>3. Charged(rx, attempt + 1, faults + 1)
        BY <1>1, <4>1, <4>2, ChargeMore
      <4> QED
        BY <1>1, <2>1, <4>1, <4>2, <4>3
    <3> HIDE DEF n
    <3> QED
      BY <1>7, <2>1, <3>1, <3>2
  \* Nothing is on its way, so nothing was left to hope for.
  <2>3. CASE cmds = <<>> /\ rx = <<>> /\ ~dev.writing /\ faults' = faults
    <3>1. ~Hope
      <4>1. 1 .. Len(cmds) = {} /\ 1 .. Len(rx) = {}
        BY <2>3
      <4> QED
        BY <2>3, <4>1 DEF Hope, HopeSent, HopeBack
    <3>2. ASSUME faults < 3, dev.mode = "boot"
          PROVE  attempt <= faults /\ Charged(rx', attempt + 1, faults)
      <4>1. attempt <= faults
        BY <1>3, <2>1, <3>1, <3>2
      <4>2. NoBlocks(rx')
        BY <2>1, <2>3 DEF NoBlocks
      <4> QED
        BY <4>1, <4>2, ChargeNone
    <3> QED
      BY <1>1, <1>7, <2>1, <2>3, <3>2
  <2> QED
    BY <1>8, <2>2, <2>3 DEF BlockDeadline
<1>9. CASE ReadBlock
  <2>1. /\ pc = "blockRead" /\ rx # <<>> /\ Head(rx).cmd = "block" /\ rx' = Tail(rx)
        /\ faults' = faults /\ cmds' = cmds
    BY <1>9 DEF ReadBlock, Answer
  <2>2. ASSUME faults < 3, dev.mode = "boot"
        PROVE  /\ Charged(Tail(rx), attempt, faults)
               /\ Bad(Head(rx)) => /\ attempt <= faults
                                   /\ Charged(Tail(rx), attempt + 1, faults)
    BY <1>1, <1>3, <2>1, <2>2, ChargeTake
  <2>3. CASE PacketDone(Head(rx)) /\ NextPacket
    <3>1. attempt' = 1 /\ pc' \in {"block", "verify"} /\ result' = result
      BY <2>3 DEF NextPacket, Goto
    <3>2. ASSUME faults < 3, dev.mode = "boot"
          PROVE  Charged(Tail(rx), 1, faults)
      <4>1. 1 <= attempt /\ faults \in Nat /\ faults <= faults /\ 1 \in Nat
        BY <1>1
      <4> QED
        BY <1>1, <2>2, <3>2, <4>1, ChargeMore
    <3>3. 1 - 1 <= faults
      BY <1>1
    <3> QED
      BY <1>2, <2>1, <3>1, <3>2, <3>3 DEF ChargeInv, SurvivesTwoFaults, Transfer
  <2>4. CASE ~PacketDone(Head(rx)) /\ UNCHANGED <<pc, attempt, pkt, result>>
    <3>1. Hope => Hope'
      BY <1>1, <1>2, <2>1, <2>4, HopeKept DEF Hope
    <3> QED
      BY <1>2, <1>3, <2>1, <2>2, <2>4, <3>1 DEF ChargeInv, SurvivesTwoFaults
  \* The attempt fails only on a bad answer: none asks for more than pkt + 1.
  <2>5. CASE /\ ~PacketDone(Head(rx)) /\ ~KeepWaiting(Head(rx)) /\ UNCHANGED pkt
             /\ TryAgain(3, "block", Finish("packet"))
    <3>1. Head(rx) \in Answers /\ 1 \in 1 .. Len(rx) /\ Head(rx) = rx[1]
      BY <1>1, <2>1
    <3>2. /\ Head(rx).status \in {"ok", "written", "busy", "error"}
          /\ Head(rx).req \in Nat
      BY <1>1, <2>1, <3>1 DEF Answers
    <3>3. Head(rx).req <= dev.next /\ dev.next <= pkt + 1 /\ dev.next \in Nat
      BY <1>1, <2>1, <3>1 DEF IInv, BlocksInv, InStep, TypeOK, Pack
    <3>4. Bad(Head(rx))
      BY <1>1, <2>1, <2>5, <3>2, <3>3 DEF Bad, PacketDone, KeepWaiting
    <3> QED
      BY <1>1, <1>7, <2>1, <2>2, <2>5, <3>4
  <2> QED
    BY <1>9, <2>3, <2>4, <2>5 DEF ReadBlock
<1> QED
  BY <1>5, <1>6, <1>8, <1>9

\* The transfer starts without a fault and without an answer about blocks.
LEMMA AskingCharge ==
  ASSUME IInv, pc \notin Transfer, pc' \in Transfer, Script \/ IoError \/ Rerun
  PROVE  ChargeInv'
<1>1. ReadMetadata
  BY DEF Script, AskVersion, VersionBefore, Jump, BootWait, SkipLate, SendRequest,
     ReadRequest, SendMetadata, SendBlock, ReadBlock, BlockDeadline, Verify,
     IoError, Rerun, TryAgain, Report, Goto, Finish, Transfer, script
<1>2. /\ pc' = "block" /\ attempt' = 1 /\ rx # <<>> /\ rx' = Tail(rx)
      /\ dev' = dev /\ faults' = faults
  BY <1>1 DEF ReadMetadata, MetadataVerdict, Answer, TryAgain, Goto, Finish,
     Transfer
<1>3. rx \in Seq(Answers) /\ NoBlocks(rx) /\ faults \in Nat
  BY <1>1 DEF IInv, TypeOK, AskingInv, Asking, ReadMetadata
<1>4. NoBlocks(rx')
  BY <1>2, <1>3, NoBlocksLine
<1>5. Charged(rx', 1, faults) /\ 1 - 1 <= faults
  BY <1>3, <1>4, ChargeNone
<1> QED
  BY <1>2, <1>5 DEF ChargeInv
\* No step puts a jump on the line once the bootloader has been waited for.
LEMMA JumpKept ==
  ASSUME IInv, RunningInv, JumpInv, Next
  PROVE  JumpInv'
<1>1. cmds \in Seq(Commands)
  BY DEF IInv, TypeOK
<1>2. ASSUME NoJump(cmds),
             \/ cmds' = cmds
             \/ cmds # <<>> /\ cmds' = Tail(cmds)
             \/ \E cmd \in {"version", "request", "metadata"} : Send(cmd, 0)
             \/ pc = "block" /\ Send("block", pkt)
      PROVE  NoJump(cmds')
  <2>1. CASE cmds' = cmds
    BY <1>2, <2>1 DEF NoJump
  <2>2. CASE cmds # <<>> /\ cmds' = Tail(cmds)
    BY <1>1, <1>2, <2>2, TakeFrame DEF NoJump
  <2>3. ASSUME NEW f \in Commands, f.cmd # "jump", cmds' = Append(cmds, f)
        PROVE  NoJump(cmds')
    <3>1. /\ \A i \in 1 .. Len(cmds) : cmds'[i] = cmds[i]
          /\ cmds'[Len(cmds) + 1] = f
          /\ \A i \in 1 .. Len(cmds') : i \in 1 .. Len(cmds) \/ i = Len(cmds) + 1
      BY <1>1, <2>3, PutFrame
    <3> QED
      BY <1>2, <2>3, <3>1 DEF NoJump
  <2>4. /\ \A cmd \in {"version", "request", "metadata"} :
              [cmd |-> cmd, n |-> 0] \in Commands
        /\ pc = "block" => [cmd |-> "block", n |-> pkt] \in Commands
    BY OtaAssumption DEF Commands, IInv, RangeInv, TypeOK, Transfer
  <2>5. ASSUME NEW cmd \in {"version", "request", "metadata"}, Send(cmd, 0)
        PROVE  NoJump(cmds')
    BY <2>3, <2>4, <2>5 DEF Send
  <2>6. ASSUME pc = "block", Send("block", pkt) PROVE NoJump(cmds')
    BY <2>3, <2>4, <2>6 DEF Send
  <2> QED
    BY <1>2, <2>1, <2>2, <2>5, <2>6
<1>3. CASE Device
  <2>1. /\ pc' = pc /\ result' = result
        /\ cmds' = cmds \/ (cmds # <<>> /\ cmds' = Tail(cmds))
    BY <1>3 DEF Device, Ignore, AppAnswers, RequestAnswer, MetadataAnswer,
       BlockAnswer, WriteDone, Restart, Take, script
  <2> QED
    BY <1>2, <2>1 DEF JumpInv
<1>4. CASE BootWait
  <2>1. cmds' = <<>>
    BY <1>4 DEF BootWait
  <2>2. 1 .. Len(cmds') = {}
    BY <2>1
  <2> QED
    BY <2>2 DEF JumpInv, NoJump
<1>5. CASE \/ SkipLate \/ SendRequest \/ ReadRequest \/ SendMetadata
           \/ ReadMetadata \/ SendBlock \/ ReadBlock \/ BlockDeadline
  <2>1. pc \in Asking \cup Transfer
    BY <1>5 DEF SkipLate, Expected, SendRequest, ReadRequest, SendMetadata,
       ReadMetadata, SendBlock, ReadBlock, BlockDeadline, Asking, Transfer
  <2>2. \/ cmds' = cmds
        \/ \E cmd \in {"version", "request", "metadata"} : Send(cmd, 0)
        \/ pc = "block" /\ Send("block", pkt)
    BY <1>5 DEF SkipLate, SendRequest, ReadRequest, SendMetadata,
       ReadMetadata, SendBlock, ReadBlock, BlockDeadline
  <2> QED
    BY <1>2, <2>1, <2>2 DEF JumpInv
<1>6. CASE AskVersion \/ VersionBefore \/ Jump \/ Verify \/ IoError \/ Rerun
  <2>1. pc' \notin Asking \cup Transfer
    BY <1>6 DEF AskVersion, VersionBefore, Jump, Verify, IoError, Rerun, TryAgain,
       Report, Goto, Finish, Asking, Transfer
  <2>2. result' # "packet"
    BY <1>6 DEF AskVersion, VersionBefore, Jump, Verify, IoError, Rerun, TryAgain,
       Report, Goto, Finish, RunningInv
  <2> QED
    BY <2>1, <2>2 DEF JumpInv
<1> QED
  BY <1>3, <1>4, <1>5, <1>6 DEF Next, Script

\* Every step keeps the charges and the verdict on a packet given up.
LEMMA FaultKept ==
  ASSUME FaultInv, RunningInv', [Next]_vars
  PROVE  FaultInv'
<1> USE DEF FaultInv
<1>1. IInv' /\ dev \in Pack
  BY NextIInv DEF IInv, TypeOK
<1>2. CASE UNCHANGED vars
  BY <1>1, <1>2 DEF vars, ChargeInv, JumpInv, NoJump, SurvivesTwoFaults, Hope,
     HopeSent, HopeBack, PacketDone
<1>3. CASE Next
  <2>1. JumpInv'
    BY <1>3, JumpKept
  <2>2. CASE Device
    <3>1. ChargeInv'
      BY <2>2, DeviceCharge
    \* A run that has ended has no faults, and no pack leaves the application.
    <3>2. ASSUME result' = "packet" PROVE faults' = 3 \/ dev'.mode = "app"
      <4>1. result = "packet" /\ pc \notin Transfer
        BY <2>2, <3>2 DEF Device, Ignore, AppAnswers, RequestAnswer,
           MetadataAnswer, BlockAnswer, WriteDone, Restart, script, RunningInv,
           Transfer
      <4>2. Fault => faults' = faults
        BY <4>1 DEF Fault
      <4>3. faults' = faults
        BY <2>2, <4>2 DEF Device, Ignore, AppAnswers, RequestAnswer,
           MetadataAnswer, BlockAnswer, WriteDone, Restart, Reply
      <4>4. ~Take("jump")
        <5>1. cmds \in Seq(Commands) /\ NoJump(cmds)
          BY <4>1 DEF IInv, TypeOK, JumpInv
        <5>2. cmds # <<>> => 1 \in 1 .. Len(cmds) /\ Head(cmds) = cmds[1]
          BY <5>1
        <5> QED
          BY <5>1, <5>2 DEF NoJump, Take
      <4>5. dev.mode = "app" => dev'.mode = "app"
        BY <1>1, <2>2, <4>4 DEF Device, Ignore, AppAnswers, RequestAnswer,
           MetadataAnswer, BlockAnswer, WriteDone, Restart, Pack
      <4> QED
        BY <4>1, <4>3, <4>5 DEF SurvivesTwoFaults
    <3> QED
      BY <1>1, <2>1, <3>1, <3>2 DEF SurvivesTwoFaults
  <2>3. CASE /\ pc \in Transfer
             /\ SkipLate \/ SendBlock \/ ReadBlock \/ BlockDeadline
    BY <1>1, <2>1, <2>3, TransferCharge
  <2>4. CASE pc \notin Transfer /\ (Script \/ IoError \/ Rerun)
    <3>1. ChargeInv'
      BY <2>4, AskingCharge DEF ChargeInv
    <3>2. result' # "packet"
      BY <2>4 DEF Script, AskVersion, VersionBefore, Jump, BootWait, SkipLate,
         SendRequest, ReadRequest, SendMetadata, ReadMetadata, MetadataVerdict,
         SendBlock, ReadBlock, BlockDeadline, Verify, IoError, Rerun, TryAgain,
         Report, Goto, Finish, Transfer, RunningInv, script, Expected
    <3> QED
      BY <1>1, <2>1, <3>1, <3>2 DEF SurvivesTwoFaults
  <2>5. CASE pc \in Transfer /\ (IoError \/ Rerun)
    <3>1. pc' \notin Transfer /\ result' # "packet"
      BY <2>5 DEF IoError, Rerun, Finish, Transfer
    <3> QED
      BY <1>1, <2>1, <3>1 DEF ChargeInv, SurvivesTwoFaults
  <2>6. pc \in Transfer /\ Script => SkipLate \/ SendBlock \/ ReadBlock \/ BlockDeadline
    BY DEF Script, AskVersion, VersionBefore, Jump, BootWait, SendRequest,
       ReadRequest, SendMetadata, ReadMetadata, Verify, Transfer
  <2> QED
    BY <1>3, <2>2, <2>3, <2>4, <2>5, <2>6 DEF Next
<1> QED
  BY <1>2, <1>3

\* A packet is given up only after three faults of its transfer, or when the
\* pack runs its application: late, repeated and left over answers alone never
\* use up the three attempts, whatever the image and however many runs.
THEOREM GivesUpOnlyOnThreeFaults == Spec => []SurvivesTwoFaults
<1>1. Init => FaultInv /\ OutcomeInv
  <2> SUFFICES ASSUME Init PROVE FaultInv /\ OutcomeInv
    OBVIOUS
  <2>1. IInv /\ OutcomeInv
    BY InitIInv, InitOutcome
  <2>2. ChargeInv /\ JumpInv /\ SurvivesTwoFaults
    BY DEF Init, ChargeInv, JumpInv, SurvivesTwoFaults, Asking, Transfer
  <2> QED
    BY <2>1, <2>2 DEF FaultInv, OutcomeInv
<1>2. FaultInv /\ OutcomeInv /\ [Next]_vars => FaultInv' /\ OutcomeInv'
  <2> SUFFICES ASSUME FaultInv, OutcomeInv, [Next]_vars
               PROVE  FaultInv' /\ OutcomeInv'
    OBVIOUS
  <2>1. OutcomeInv'
    <3>1. CASE UNCHANGED vars
      BY <3>1 DEF vars, OutcomeInv, VersionInv, UpToDateInv, VerifyInv, RunningInv,
         SuccessIsWhole, Whole
    <3>2. CASE Next
      BY <3>2, ScriptOutcome, DeviceOutcome DEF Next, FaultInv
    <3> QED
      BY <3>1, <3>2
  <2>2. RunningInv'
    BY <2>1 DEF OutcomeInv
  <2> QED
    BY <2>1, <2>2, FaultKept
<1>3. FaultInv => SurvivesTwoFaults
  BY DEF FaultInv
<1> QED
  BY <1>1, <1>2, <1>3, PTL DEF Spec

-----------------------------------------------------------------------------
(* The end of a run.  Each step of the script and of the pack uses up some *)
(* of a stock of work, and nothing but another run adds to it.  With reads *)
(* that return at their deadline, this is why RunEnds holds.               *)

\* The loops stay within their attempts, and start with the first.
LoopInv ==
    /\ pc \in Starting => attempt = 1
    /\ pc \in {"request", "requestRead"} \cup Transfer => attempt <= 3
    /\ pc \in {"metadata", "metadataRead"} => attempt <= 5

\* How often the script may still write and read from step p on, in attempt a
\* and at block k: ten verifications, three attempts at each block, five at the
\* metadata, three at the request.
TurnsFrom(p, a, k) ==
    LET blocks == 6 * (Blocks - k) + 20
        asking == 6 * Blocks + 30
    IN  CASE p = "done"         -> 0
          [] p = "verifyRead"   -> 21 - 2 * a
          [] p = "verify"       -> 22 - 2 * a
          [] p = "blockRead"    -> blocks + 1 - 2 * a
          [] p = "block"        -> blocks + 2 - 2 * a
          [] p = "metadataRead" -> asking + 1 - 2 * a
          [] p = "metadata"     -> asking + 2 - 2 * a
          [] p = "requestRead"  -> asking + 7 - 2 * a
          [] p = "request"      -> asking + 8 - 2 * a
          [] p = "bootWait"     -> asking + 7
          [] p = "jump"         -> asking + 8
          [] p = "versionRead"  -> asking + 9
          [] p = "version"      -> asking + 10

Turns == TurnsFrom(pc, attempt, pkt)

\* What pack d may still do unasked: end a write, with an answer, and restart.
Unasked(d) == (IF d.writing THEN 2 ELSE 0) + (IF d.open THEN 1 ELSE 0)

\* A command on the line may become an answer and a write, or an answer and the
\* restart that accepted metadata leads to.
Work == 5 * Turns + 4 * Len(cmds) + Len(rx) + Unasked(dev)

\* The turns of each step.
LEMMA TurnsAt ==
  ASSUME NEW a, NEW k
  PROVE  /\ TurnsFrom("done", a, k) = 0
         /\ TurnsFrom("verifyRead", a, k) = 21 - 2 * a
         /\ TurnsFrom("verify", a, k) = 22 - 2 * a
         /\ TurnsFrom("blockRead", a, k) = 6 * (Blocks - k) + 20 + 1 - 2 * a
         /\ TurnsFrom("block", a, k) = 6 * (Blocks - k) + 20 + 2 - 2 * a
         /\ TurnsFrom("metadataRead", a, k) = 6 * Blocks + 30 + 1 - 2 * a
         /\ TurnsFrom("metadata", a, k) = 6 * Blocks + 30 + 2 - 2 * a
         /\ TurnsFrom("requestRead", a, k) = 6 * Blocks + 30 + 7 - 2 * a
         /\ TurnsFrom("request", a, k) = 6 * Blocks + 30 + 8 - 2 * a
         /\ TurnsFrom("bootWait", a, k) = 6 * Blocks + 30 + 7
         /\ TurnsFrom("jump", a, k) = 6 * Blocks + 30 + 8
         /\ TurnsFrom("versionRead", a, k) = 6 * Blocks + 30 + 9
         /\ TurnsFrom("version", a, k) = 6 * Blocks + 30 + 10
  BY DEF TurnsFrom

\* Every loop gives up behind its last attempt.
LEMMA LoopKept == TypeOK /\ LoopInv /\ [Next]_vars => LoopInv'
<1> SUFFICES ASSUME TypeOK, LoopInv, [Next]_vars PROVE LoopInv'
  OBVIOUS
<1>1. attempt \in 1 .. 10
  BY DEF TypeOK
<1>2. CASE UNCHANGED script
  BY <1>2 DEF script, LoopInv
<1>3. CASE IoError \/ Rerun
  BY <1>3 DEF IoError, Rerun, Finish, LoopInv, Starting, Transfer
<1>4. CASE AskVersion \/ VersionBefore \/ Jump \/ BootWait
  BY <1>4 DEF AskVersion, VersionBefore, Jump, BootWait, Goto, LoopInv, Starting,
     Transfer
<1>5. CASE SendRequest \/ SendMetadata \/ SendBlock
  BY <1>5 DEF SendRequest, SendMetadata, SendBlock, Goto, LoopInv, Starting,
     Transfer
<1>6. CASE ReadRequest
  BY <1>1, <1>6 DEF ReadRequest, Answer, TryAgain, Goto, Finish, LoopInv, Starting,
     Transfer
<1>7. CASE ReadMetadata
  BY <1>1, <1>7 DEF ReadMetadata, MetadataVerdict, TryAgain, Goto, Finish, LoopInv,
     Starting, Transfer
<1>8. CASE ReadBlock \/ BlockDeadline
  BY <1>1, <1>8 DEF ReadBlock, BlockDeadline, NextPacket, TryAgain, Goto, Finish,
     LoopInv, Starting, Transfer
<1>9. CASE Verify
  BY <1>1, <1>9 DEF Verify, Report, TryAgain, Goto, Finish, LoopInv, Starting,
     Transfer
<1>10. SkipLate \/ Device \/ UNCHANGED vars => UNCHANGED script
  BY DEF SkipLate, Device, Ignore, AppAnswers, RequestAnswer, MetadataAnswer,
     BlockAnswer, WriteDone, Restart, vars, script
<1> QED
  BY <1>2, <1>3, <1>4, <1>5, <1>6, <1>7, <1>8, <1>9, <1>10 DEF Next, Script

\* There are turns left until the run is done.
LEMMA TurnsLeft ==
  ASSUME TypeOK, RangeInv, LoopInv
  PROVE  Turns \in Nat /\ (pc # "done" => Turns > 0)
<1>1. /\ attempt \in 1 .. 10 /\ pkt \in 0 .. Blocks /\ Blocks \in Nat \ {0}
      /\ pc \in Transfer => pkt < Blocks /\ attempt <= 3
      /\ pc \in {"request", "requestRead"} => attempt <= 3
      /\ pc \in {"metadata", "metadataRead"} => attempt <= 5
  BY OtaAssumption DEF TypeOK, RangeInv, LoopInv, OtaAssumption
<1>2. pc \in Transfer \cup {"version", "versionRead", "jump", "bootWait",
         "request", "requestRead", "metadata", "metadataRead",
         "verify", "verifyRead", "done"}
  BY DEF TypeOK
<1>3. CASE pc \in {"block", "blockRead"}
  BY <1>1, <1>3, TurnsAt DEF Turns, Transfer
<1>4. CASE pc \in {"verify", "verifyRead", "done"}
  BY <1>1, <1>4, TurnsAt DEF Turns
<1>5. CASE pc \in {"request", "requestRead", "metadata", "metadataRead"}
  BY <1>1, <1>5, TurnsAt DEF Turns
<1>6. CASE pc \in {"version", "versionRead", "jump", "bootWait"}
  BY <1>1, <1>6, TurnsAt DEF Turns
<1> QED
  BY <1>2, <1>3, <1>4, <1>5, <1>6 DEF Transfer

\* The script: each step takes a turn, or an answer off the line.
LEMMA ScriptWorks ==
  ASSUME TypeOK, TypeOK', RangeInv, LoopInv, Script \/ IoError
  PROVE  Work' < Work
<1>1. /\ attempt \in 1 .. 10 /\ pkt \in 0 .. Blocks /\ Blocks \in Nat \ {0}
      /\ pc \in Transfer => pkt < Blocks /\ attempt <= 3
      /\ pc \in {"request", "requestRead"} => attempt <= 3
      /\ pc \in {"metadata", "metadataRead"} => attempt <= 5
  BY OtaAssumption DEF TypeOK, RangeInv, LoopInv, OtaAssumption
<1>2. /\ cmds \in Seq(Commands) /\ rx \in Seq(Answers)
      /\ cmds' \in Seq(Commands) /\ rx' \in Seq(Answers)
  BY DEF TypeOK
<1>3. /\ Len(cmds) \in Nat /\ Len(rx) \in Nat /\ Len(cmds') \in Nat /\ Len(rx') \in Nat
      /\ rx # <<>> => Len(Tail(rx)) = Len(rx) - 1
      /\ Len(<<>>) = 0
  BY <1>2, TakeFrame
<1>4. dev' = dev /\ Unasked(dev) \in 0 .. 3
  BY DEF Unasked, Script, AskVersion, VersionBefore, Jump, BootWait, SkipLate, SendRequest,
     ReadRequest, SendMetadata, ReadMetadata, SendBlock, ReadBlock, BlockDeadline,
     Verify, IoError, script
<1>5. Turns \in Nat /\ (pc # "done" => Turns > 0)
  BY TurnsLeft
<1>6. ASSUME NEW cmd, NEW n, Send(cmd, n) PROVE Len(cmds') = Len(cmds) + 1
  BY <1>2, <1>6 DEF Send
<1>7. CASE AskVersion \/ Jump \/ SendRequest \/ SendMetadata \/ SendBlock
  <2>1. Turns' = Turns - 1
    <3>1. CASE AskVersion
      <4>1. /\ attempt' = attempt /\ pkt' = pkt
            /\ \/ pc = "version" /\ pc' = "versionRead"
               \/ pc = "verify" /\ pc' = "verifyRead"
        BY <3>1 DEF AskVersion
      <4>2. \/ /\ Turns = 6 * Blocks + 30 + 10
               /\ Turns' = 6 * Blocks + 30 + 9
            \/ Turns = 22 - 2 * attempt /\ Turns' = 21 - 2 * attempt
        BY <4>1, TurnsAt DEF Turns
      <4> QED
        BY <1>1, <4>2
    <3>2. CASE Jump
      BY <1>1, <3>2, TurnsAt DEF Jump, Goto, Turns
    <3>3. CASE SendRequest \/ SendMetadata \/ SendBlock
      BY <1>1, <3>3, TurnsAt DEF SendRequest, SendMetadata, SendBlock, Goto, Turns
    <3> QED
      BY <1>7, <3>1, <3>2, <3>3
  <2>2. Len(cmds') = Len(cmds) + 1 /\ Len(rx') <= Len(rx)
    BY <1>3, <1>6, <1>7 DEF AskVersion, Jump, SendRequest, SendMetadata, SendBlock
  <2> QED
    BY <1>3, <1>4, <1>5, <2>1, <2>2 DEF Work
<1>8. ASSUME cmds' = cmds, Len(rx') <= Len(rx), Turns' \in Int,
             Turns' < Turns \/ (Turns' = Turns /\ Len(rx') < Len(rx))
      PROVE  Work' < Work
  BY <1>3, <1>4, <1>5, <1>8 DEF Work
<1>9. ASSUME NEW cmd, Answer(cmd) \/ Deadline PROVE Len(rx') <= Len(rx)
  BY <1>3, <1>9 DEF Answer, Deadline
<1>10. CASE VersionBefore
  <2>1. Turns' \in Int /\ Turns' < Turns
    BY <1>1, <1>10, TurnsAt DEF VersionBefore, Goto, Turns
  <2>2. cmds' = cmds /\ Len(rx') <= Len(rx)
    BY <1>3, <1>9, <1>10 DEF VersionBefore
  <2> QED
    BY <1>8, <2>1, <2>2
<1>11. CASE BootWait
  <2>1. Turns' \in Int /\ Turns' < Turns
    <3>1. /\ pc = "bootWait" /\ pc' = "request" /\ attempt' = 1 /\ attempt = 1
          /\ pkt' = pkt
      BY <1>11 DEF BootWait, Goto, LoopInv, Starting
    <3> QED
      BY <1>1, <3>1, TurnsAt DEF Turns
  <2>2. cmds' = cmds /\ Len(rx') <= Len(rx)
    BY <1>3, <1>11 DEF BootWait
  <2> QED
    BY <1>8, <2>1, <2>2
<1>12. CASE SkipLate
  <2>1. Turns' = Turns /\ cmds' = cmds /\ Len(rx') < Len(rx)
    BY <1>3, <1>12 DEF SkipLate, script, Turns
  <2> QED
    BY <1>3, <1>5, <1>8, <2>1
<1>13. CASE ReadRequest
  <2>1. Turns' \in Int /\ Turns' < Turns
    BY <1>1, <1>13, TurnsAt DEF ReadRequest, TryAgain, Goto, Finish, Turns
  <2>2. cmds' = cmds /\ Len(rx') <= Len(rx)
    BY <1>9, <1>13 DEF ReadRequest
  <2> QED
    BY <1>8, <2>1, <2>2
<1>14. CASE ReadMetadata
  <2>1. Turns' \in Int /\ Turns' < Turns
    BY <1>1, <1>14, TurnsAt DEF ReadMetadata, MetadataVerdict, TryAgain, Goto,
       Finish, Turns
  <2>2. cmds' = cmds /\ Len(rx') <= Len(rx)
    BY <1>9, <1>14 DEF ReadMetadata
  <2> QED
    BY <1>8, <2>1, <2>2
<1>15. ASSUME pc = "blockRead", pkt' = pkt, TryAgain(3, "block", Finish("packet"))
       PROVE  Turns' \in Int /\ Turns' < Turns
  BY <1>1, <1>15, TurnsAt DEF TryAgain, Goto, Finish, Turns, Transfer
<1>16. CASE ReadBlock
  <2>1. cmds' = cmds /\ Len(rx') < Len(rx) /\ pc = "blockRead"
    BY <1>3, <1>16 DEF ReadBlock, Answer
  <2>2. CASE NextPacket
    <3>1. Turns' \in Int /\ Turns' < Turns
      <4>1. /\ pkt' = pkt + 1 /\ attempt' = 1 /\ attempt <= 3 /\ pkt < Blocks
            /\ (pc' = "verify" /\ pkt + 1 = Blocks) \/ pc' = "block"
        BY <1>1, <2>1, <2>2 DEF NextPacket, Goto, Transfer
      <4>2. Turns = 6 * (Blocks - pkt) + 20 + 1 - 2 * attempt
        BY <2>1, TurnsAt DEF Turns
      <4>3. \/ Turns' = 20 /\ pkt + 1 = Blocks
            \/ Turns' = 6 * (Blocks - pkt') + 20
        BY <1>1, <4>1, TurnsAt DEF Turns
      <4> QED
        BY <1>1, <4>1, <4>2, <4>3
    <3> QED
      BY <1>3, <1>8, <2>1, <3>1
  <2>3. CASE UNCHANGED <<pc, attempt, pkt, result>>
    <3>1. Turns' = Turns
      BY <2>3 DEF Turns
    <3> QED
      BY <1>3, <1>5, <1>8, <2>1, <3>1
  <2>4. CASE UNCHANGED pkt /\ TryAgain(3, "block", Finish("packet"))
    <3>1. Turns' \in Int /\ Turns' < Turns
      BY <1>15, <2>1, <2>4
    <3> QED
      BY <1>3, <1>8, <2>1, <3>1
  <2> QED
    BY <1>16, <2>2, <2>3, <2>4 DEF ReadBlock
<1>17. CASE BlockDeadline
  <2>1. Turns' \in Int /\ Turns' < Turns
    BY <1>15, <1>17 DEF BlockDeadline
  <2>2. cmds' = cmds /\ Len(rx') <= Len(rx)
    BY <1>9, <1>17 DEF BlockDeadline
  <2> QED
    BY <1>8, <2>1, <2>2
<1>18. CASE Verify
  <2>1. Turns' \in Int /\ Turns' < Turns
    <3>1. \/ pc' = "done"
          \/ pc' = "verify" /\ attempt' = attempt + 1
      BY <1>18 DEF Verify, Report, TryAgain, Goto, Finish
    <3>2. Turns' = 0 \/ Turns' = 22 - 2 * (attempt + 1)
      BY <1>1, <3>1, TurnsAt DEF Turns
    <3>3. Turns = 21 - 2 * attempt
      BY <1>1, <1>18, TurnsAt DEF Verify, Turns
    <3> QED
      BY <1>1, <3>2, <3>3
  <2>2. cmds' = cmds /\ Len(rx') <= Len(rx)
    BY <1>3, <1>9, <1>18 DEF Verify
  <2> QED
    BY <1>8, <2>1, <2>2
<1>19. CASE IoError
  <2>1. Turns' = 0 /\ Turns > 0
    BY <1>5, <1>19, TurnsAt DEF IoError, Finish, Turns
  <2>2. cmds' = cmds /\ rx' = rx
    BY <1>19 DEF IoError
  <2> QED
    BY <1>3, <1>8, <2>1, <2>2
<1> QED
  BY <1>7, <1>10, <1>11, <1>12, <1>13, <1>14, <1>16, <1>17, <1>18, <1>19 DEF Script

\* The pack: each step takes a command, or ends a write, or restarts.
LEMMA DeviceWorks ==
  ASSUME TypeOK, TypeOK', RangeInv, LoopInv, Device
  PROVE  Work' < Work
<1>1. /\ cmds \in Seq(Commands) /\ rx \in Seq(Answers)
      /\ cmds' \in Seq(Commands) /\ rx' \in Seq(Answers) /\ dev \in Pack
  BY DEF TypeOK
<1>2. /\ Len(cmds) \in Nat /\ Len(rx) \in Nat /\ Len(cmds') \in Nat /\ Len(rx') \in Nat
      /\ cmds # <<>> => Len(Tail(cmds)) = Len(cmds) - 1
  BY <1>1, TakeFrame
<1>3. Turns' = Turns /\ Turns \in Nat
  BY TurnsLeft DEF Device, Ignore, AppAnswers, RequestAnswer, MetadataAnswer,
     BlockAnswer, WriteDone, Restart, script, Turns
<1>4. ASSUME NEW cmd, NEW status, NEW req, Reply(cmd, status, req)
      PROVE  Len(rx') <= Len(rx) + 1
  BY <1>1, <1>2, <1>4 DEF Reply
<1>5. ASSUME cmds # <<>>, cmds' = Tail(cmds) PROVE Len(cmds') = Len(cmds) - 1
  BY <1>2, <1>5
<1>6. /\ Unasked(dev) \in 0 .. 3 /\ Unasked(dev') \in 0 .. 3
      /\ Work = 5 * Turns + 4 * Len(cmds) + Len(rx) + Unasked(dev)
      /\ Work' = 5 * Turns + 4 * Len(cmds') + Len(rx') + Unasked(dev')
  BY <1>3 DEF Work, Unasked
\* A command pays for an answer and for a write or the erased image.
<1>7. ASSUME Len(cmds') = Len(cmds) - 1, Len(rx') <= Len(rx) + 1,
             Unasked(dev') <= Unasked(dev) + 2
      PROVE  Work' < Work
  BY <1>2, <1>3, <1>6, <1>7
<1>8. CASE Ignore \/ RequestAnswer
  <2>1. dev' = dev /\ Len(cmds') = Len(cmds) - 1 /\ Len(rx') <= Len(rx) + 1
    BY <1>2, <1>4, <1>5, <1>8 DEF Ignore, RequestAnswer, Take
  <2>2. Unasked(dev') <= Unasked(dev) + 2
    BY <1>6, <2>1
  <2> QED
    BY <1>7, <2>1, <2>2
<1>9. CASE AppAnswers
  <2>1. Len(cmds') = Len(cmds) - 1 /\ Len(rx') <= Len(rx) + 1
    BY <1>2, <1>4, <1>5, <1>9 DEF AppAnswers, Take
  <2>2. dev' = dev \/ (~dev'.writing /\ ~dev'.open)
    BY <1>1, <1>9 DEF AppAnswers, Pack
  <2>3. Unasked(dev') <= Unasked(dev)
    BY <1>6, <2>2 DEF Unasked
  <2> QED
    BY <1>6, <1>7, <2>1, <2>3
<1>10. CASE MetadataAnswer
  <2>1. Len(cmds') = Len(cmds) - 1 /\ Len(rx') <= Len(rx) + 1
    BY <1>2, <1>4, <1>5, <1>10 DEF MetadataAnswer, Take
  <2>2. dev' = dev \/ ~dev'.writing
    BY <1>1, <1>10 DEF MetadataAnswer, Pack
  <2>3. Unasked(dev') <= Unasked(dev) + 2
    BY <2>2 DEF Unasked
  <2> QED
    BY <1>7, <2>1, <2>3
<1>11. CASE BlockAnswer
  <2>1. Len(cmds') = Len(cmds) - 1 /\ Len(rx') <= Len(rx) + 1
    BY <1>2, <1>4, <1>5, <1>11 DEF BlockAnswer, Take
  <2>2. dev'.open = dev.open
    BY <1>1, <1>11 DEF BlockAnswer, Pack
  <2>3. Unasked(dev') <= Unasked(dev) + 2
    BY <2>2 DEF Unasked
  <2> QED
    BY <1>7, <2>1, <2>3
<1>12. CASE WriteDone
  <2>1. /\ cmds' = cmds /\ Len(rx') <= Len(rx) + 1
        /\ dev.writing /\ ~dev'.writing /\ dev'.open = dev.open
    BY <1>1, <1>4, <1>12 DEF WriteDone, Pack
  <2>2. Unasked(dev') = Unasked(dev) - 2
    BY <2>1 DEF Unasked
  <2> QED
    BY <1>2, <1>3, <1>6, <2>1, <2>2
<1>13. CASE Restart
  <2>1. /\ cmds' = cmds /\ rx' = rx
        /\ dev.open /\ ~dev'.open /\ dev'.writing = dev.writing
    BY <1>1, <1>13 DEF Restart, Ready, Pack
  <2>2. Unasked(dev') = Unasked(dev) - 1
    BY <2>1 DEF Unasked
  <2> QED
    BY <1>2, <1>3, <1>6, <2>1, <2>2
<1> QED
  BY <1>8, <1>9, <1>10, <1>11, <1>12, <1>13 DEF Device

\* Nothing but another run adds to the work that is left, which every other step
\* of script or pack reduces: whatever is lost, late or refused, and however often
\* a read goes on waiting, a run takes a bounded number of steps.
THEOREM RunsAreFinite ==
  Spec => /\ [](Work \in Nat)
          /\ [][runs' = runs => Work' < Work]_vars
<1> DEFINE Bounded == IInv /\ LoopInv
<1>1. Init => LoopInv
  BY DEF Init, LoopInv, Starting, Transfer
<1>2. Bounded /\ [Next]_vars => LoopInv'
  BY LoopKept DEF IInv
<1>3. Bounded => Work \in Nat
  <2> SUFFICES ASSUME Bounded PROVE Work \in Nat
    OBVIOUS
  <2>1. Turns \in Nat
    BY TurnsLeft DEF IInv
  <2>2. Len(cmds) \in Nat /\ Len(rx) \in Nat
    <3>1. cmds \in Seq(Commands) /\ rx \in Seq(Answers)
      BY DEF IInv, TypeOK
    <3> QED
      BY <3>1
  <2>3. Unasked(dev) \in Nat
    BY DEF Unasked
  <2> QED
    BY <2>1, <2>2, <2>3 DEF Work
<1>4. Bounded /\ Bounded' /\ [Next]_vars => [runs' = runs => Work' < Work]_vars
  <2> SUFFICES ASSUME Bounded, Bounded', Next, runs' = runs PROVE Work' < Work
    OBVIOUS
  <2>1. ~Rerun
    BY DEF Rerun, IInv, TypeOK
  <2> QED
    BY <2>1, ScriptWorks, DeviceWorks DEF Next, IInv
<1> QED
  BY <1>1, <1>2, <1>3, <1>4, Invariance, PTL DEF Spec

=============================================================================

--------------------------- MODULE MmcBlockIo_proofs ---------------------------
(***************************************************************************)
(* Where and when the host controller of MmcBlockIo moves data, for every  *)
(* medium, every call and all sizes of commands and descriptor lines; and  *)
(* that a success of many blocks has moved them all.                       *)
(***************************************************************************)
EXTENDS MmcBlockIo, TLAPS, SequenceTheorems

InCommand == pc \in {"command", "transfer", "errors", "status"}
Sending == InCommand \/ pc \in {"lines", "answered"}

(* The command being sent is the piece of the call that is to be moved.    *)
Asked ==
  /\ pc = "chunk" => req.at < req.n
  /\ Sending /\ cmd.kind \in DataKinds \cup {"stop"} => req.at + req.chunk <= req.n
  /\ Sending /\ HasData(cmd) =>
       cmd.lba = req.lba + req.at /\ cmd.buf = req.at /\ cmd.n = req.chunk
  /\ pc \in {"transfer", "errors"} => HasData(cmd) \/ IsBusy(cmd)

(* The controller is at rest between two commands; during one it runs what *)
(* the driver sent, and every way to the end of sdhci_cmd_complete finds   *)
(* it at rest again, or an error to reset it for, or has run out of polls. *)
Engine ==
  ~leftRunning =>
    /\ ~InCommand => Quiet
    /\ InCommand => /\ ctl.run = cmd
                    /\ HasData(cmd) => table.live /\ table.lines = DescTable(cmd.buf, cmd.n)
                    /\ ~HasData(cmd) => table.lines = <<>>
    /\ ctl.cmd = "sent" => /\ ctl.dat = "idle" /\ sts = {} /\ errs = {}
                           /\ pc = "command" \/ (pc = "status" /\ poll.ret = 1)
    /\ ctl.dat # "idle" \/ "trans" \in sts => HasData(cmd) \/ IsBusy(cmd)
    /\ "trans" \in sts => LinesFree
    /\ pc \in {"transfer", "errors"} => "cmd" \notin sts
    /\ pc = "errors" => errs # {}
    /\ pc = "status" => errs # {} \/ poll.ret = 1 \/ (LinesFree /\ sts = {})

(* What was moved lies in the call, and the lines done add up.             *)
Moves ==
  ~leftRunning =>
    /\ pc = "idle" => moved = {}
    /\ moved \subseteq AllBlocks
    /\ ctl.cmd = "sent" \/ ctl.dat = "busy" => ctl.done = (ctl.line - 1) * LineBlocks

IInv == TypeOK /\ Asked /\ Engine /\ Moves

(* A call is cut into commands of MaxTrans blocks and a rest.              *)
ForCall == Sending /\ cmd.kind \in DataKinds \cup {"stop"}

Pieces ==
  /\ pc = "chunk" \/ ForCall => \E q \in Nat : req.at = q * MaxTrans
  /\ ForCall => req.at < req.n /\ req.chunk = Portion(req.n - req.at)

Done(pairs, lba, buf, n) == \A i \in 0 .. n - 1 : <<lba + i, buf + i>> \in pairs

(* What the driver takes for done has been moved: the pieces before the    *)
(* current one, the lines of it the engine counts as done, and all of it   *)
(* once the transfer is reported complete, which is the only way to the    *)
(* end of sdhci_cmd_complete without an error.  A stop command never       *)
(* answers that the card was ready, so a piece that it ended has failed.   *)
Progress ==
  ~leftRunning =>
    /\ (pc = "chunk" \/ ForCall) /\ req.n % MaxTrans # 1 => Done(moved, req.lba, 0, req.at)
    /\ InCommand /\ HasData(cmd) =>
         /\ Done(moved, cmd.lba, cmd.buf, ctl.done)
         /\ "trans" \in sts \/ poll.trans => LinesFree /\ ctl.done = cmd.n
         /\ pc = "status" => errs # {} \/ poll.ret = 1 \/ poll.trans
    /\ pc = "answered" /\ HasData(cmd) /\ poll.ret = 0 => Done(moved, cmd.lba, cmd.buf, cmd.n)
    /\ Sending /\ cmd.kind = "stop" =>
         /\ poll.resp \in {"none", "data", "rcv"}
         /\ InCommand => ctl.resp \in {"none", "data", "rcv"}
    /\ pc = "return" /\ status = "EFI_SUCCESS" /\ req.n % MaxTrans # 1 => Done(moved, req.lba, 0, req.n)
-----------------------------------------------------------------------------
(* The descriptor table has a line for every LineBlocks blocks begun.      *)
LEMMA TableLines ==
  ASSUME NEW buf \in Nat, NEW n \in Nat
  PROVE  DescTable(buf, n) \in Seq([addr : Int, len : Int])
<1>1. Lines(n) \in Nat
  <2>1. (n + LineBlocks - 1) \div LineBlocks \in Nat
    BY MmcAssumption
  <2>2. QED
    BY <2>1 DEF Lines
<1>2. \A i \in 1 .. Lines(n) :
        [addr |-> buf + (i - 1) * LineBlocks,
         len  |-> LET rest == n - (i - 1) * LineBlocks
                  IN  IF rest < LineBlocks THEN rest ELSE 0] \in [addr : Int, len : Int]
  BY MmcAssumption, <1>1
<1> DEFINE Line(i) == [addr |-> buf + (i - 1) * LineBlocks,
                       len  |-> LET rest == n - (i - 1) * LineBlocks
                                IN  IF rest < LineBlocks THEN rest ELSE 0]
<1>3. DescTable(buf, n) = [i \in 1 .. Lines(n) |-> Line(i)]
  BY DEF DescTable
<1>4. \A i \in 1 .. Lines(n) : Line(i) \in [addr : Int, len : Int]
  BY <1>2
<1> HIDE DEF Line
<1>5. DescTable(buf, n) \in [1 .. Lines(n) -> [addr : Int, len : Int]]
  BY <1>3, <1>4
<1>6. QED
  <2>1. [1 .. Lines(n) -> [addr : Int, len : Int]]
          \in {[1 .. k -> [addr : Int, len : Int]] : k \in Nat}
    BY <1>1
  <2>2. QED
    BY <1>5, <2>1, SeqDef, Zenon

(* The values a variable starts with, and a poll counted.                  *)
LEMMA Defaults ==
  /\ NoCmd \in Commands /\ NoPoll \in Polls
  /\ \A kind \in {"stop", "deselect", "sleep"} : [NoCmd EXCEPT !.kind = kind] \in Commands
  /\ NoTable \in [live : BOOLEAN, lines : Seq([addr : Int, len : Int])]
<1>1. NoCmd \in Commands /\ NoPoll \in Polls
  BY MmcAssumption DEF NoCmd, Commands, NoPoll, Polls, Responses
<1>2. \A kind \in {"stop", "deselect", "sleep"} : [NoCmd EXCEPT !.kind = kind] \in Commands
  BY <1>1 DEF Commands
<1>3. NoTable \in [live : BOOLEAN, lines : Seq([addr : Int, len : Int])]
  BY DEF NoTable
<1>4. QED
  BY <1>1, <1>2, <1>3

LEMMA Counted ==
  ASSUME NEW limit, poll \in Polls
  PROVE  [poll EXCEPT !.retry = @ + 1, !.ret = IF poll.retry + 1 = limit THEN 1 ELSE 0] \in Polls
<1>1. (IF poll.retry + 1 = limit THEN 1 ELSE 0) \in {0, 1}
  OBVIOUS
<1>2. \A r \in {0, 1} : [poll EXCEPT !.retry = @ + 1, !.ret = r] \in Polls
  <2>1. poll.retry + 1 \in Nat
    BY DEF Polls
  <2>2. ASSUME NEW m \in Nat, NEW r \in {0, 1}
        PROVE  [poll EXCEPT !.retry = m, !.ret = r] \in Polls
    BY DEF Polls
  <2>3. QED
    BY <2>1, <2>2
<1>3. QED
  BY <1>1, <1>2

(* What mmc_read and mmc_write take at once is some of the rest, and no    *)
(* more than a command can carry.                                          *)
LEMMA ChunkFits ==
  ASSUME NEW left \in Nat \ {0}
  PROVE  Portion(left) \in 1 .. MaxTrans /\ Portion(left) <= left
BY MmcAssumption DEF Portion

(* A command is never so long that the block count register cuts it.       *)
LEMMA NotCut ==
  ASSUME cmd \in Commands
  PROVE  [cmd EXCEPT !.n = @ % CountWidth] = cmd
<1>1. \A n \in Nat : n < CountWidth => n % CountWidth = n
  BY MmcAssumption
<1>2. cmd.n % CountWidth = cmd.n
  BY <1>1, MmcAssumption DEF Commands
<1>3. QED
  BY <1>2 DEF Commands

LEMMA InitInv == Init => IInv
<1> SUFFICES ASSUME Init PROVE IInv
  OBVIOUS
<1> USE MmcAssumption DEF Init, NoReq, NoCmd, NoPoll, NoTable, Idle
<1>1. TypeOK
  <2>1. req \in Requests /\ cmd \in Commands /\ poll \in Polls
    BY DEF Requests, Commands, Polls, Responses, DataKinds
  <2>2. NoCmd \in Commands
    BY DEF Commands
  <2>3. ctl \in Controllers
    BY <2>2 DEF Controllers, Responses
  <2>4. table \in [live : BOOLEAN, lines : Seq([addr : Int, len : Int])]
    OBVIOUS
  <2>5. QED
    BY <2>1, <2>3, <2>4 DEF TypeOK, Labels, CardStates
<1>2. Asked /\ Engine /\ Moves
  BY DEF Asked, Engine, Moves, InCommand, Sending, Quiet, LinesFree, AllBlocks
<1>3. QED
  BY <1>1, <1>2 DEF IInv

(* Every step keeps the types.                                             *)
LEMMA TypeStep ==
  ASSUME IInv, Next
  PROVE  TypeOK'
<1> USE MmcAssumption DEF IInv, TypeOK, Labels, DataKinds, NoReq, NoCmd, NoTable, NoPoll, Idle
<1>1. CASE \E op \in DataKinds, lba \in Starts, n \in Sizes : Call(op, lba, n)
  <2>1. req' \in Requests
    BY <1>1 DEF Call, hardware, CheckCall, Requests
  <2>2. cmd' \in Commands
    BY <1>1 DEF Call, hardware, CheckCall, Commands, Requests
  <2>3. poll' \in Polls
    BY <1>1 DEF Call, hardware, CheckCall, Polls, Controllers, Responses, CardStates
  <2>4. ctl' \in Controllers
    BY <1>1 DEF Call, hardware, CheckCall, Controllers, Commands, Responses, CardStates
  <2>5. table' \in [live : BOOLEAN, lines : Seq([addr : Int, len : Int])]
    BY <1>1 DEF Call, hardware, CheckCall, Commands
  <2>6. pc' \in Labels /\ status' \in {"none", "EFI_SUCCESS", "EFI_DEVICE_ERROR",
                               "EFI_INVALID_PARAMETER", "EFI_UNSUPPORTED"}
    BY <1>1 DEF Call, hardware, CheckCall
  <2>7. card' \in CardStates /\ leftRunning' \in BOOLEAN
    BY <1>1 DEF Call, hardware, CheckCall, CardStates
  <2>8. sts' \subseteq {"cmd", "trans"}
        /\ errs' \subseteq {"CmdTimeout", "CmdCrc", "DatTimeout", "DatCrc", "Adma"}
    BY <1>1 DEF Call, hardware, CheckCall
  <2>9. QED
    BY <2>1, <2>2, <2>3, <2>4, <2>5, <2>6, <2>7, <2>8
<1>2. CASE ExitBootServices
  <2>1. req' \in Requests
    BY <1>2 DEF ExitBootServices, hardware, Requests
  <2>2. cmd' \in Commands
    BY <1>2, Defaults DEF ExitBootServices, hardware
  <2>3. poll' \in Polls
    BY <1>2 DEF ExitBootServices, hardware, Polls, Controllers, Responses, CardStates
  <2>4. ctl' \in Controllers
    BY <1>2 DEF ExitBootServices, hardware, Controllers, Commands, Responses, CardStates
  <2>5. table' \in [live : BOOLEAN, lines : Seq([addr : Int, len : Int])]
    BY <1>2 DEF ExitBootServices, hardware, Commands
  <2>6. pc' \in Labels /\ status' \in {"none", "EFI_SUCCESS", "EFI_DEVICE_ERROR",
                               "EFI_INVALID_PARAMETER", "EFI_UNSUPPORTED"}
    BY <1>2 DEF ExitBootServices, hardware
  <2>7. card' \in CardStates /\ leftRunning' \in BOOLEAN
    BY <1>2 DEF ExitBootServices, hardware, CardStates
  <2>8. sts' \subseteq {"cmd", "trans"}
        /\ errs' \subseteq {"CmdTimeout", "CmdCrc", "DatTimeout", "DatCrc", "Adma"}
    BY <1>2 DEF ExitBootServices, hardware
  <2>9. QED
    BY <2>1, <2>2, <2>3, <2>4, <2>5, <2>6, <2>7, <2>8
<1>3. CASE Return
  <2>1. req' \in Requests
    BY <1>3 DEF Return, hardware, Requests
  <2>2. cmd' \in Commands
    BY <1>3 DEF Return, hardware, Commands, Requests
  <2>3. poll' \in Polls
    BY <1>3 DEF Return, hardware, Polls, Controllers, Responses, CardStates
  <2>4. ctl' \in Controllers
    BY <1>3 DEF Return, hardware, Controllers, Commands, Responses, CardStates
  <2>5. table' \in [live : BOOLEAN, lines : Seq([addr : Int, len : Int])]
    BY <1>3, Defaults DEF Return, hardware
  <2>6. pc' \in Labels /\ status' \in {"none", "EFI_SUCCESS", "EFI_DEVICE_ERROR",
                               "EFI_INVALID_PARAMETER", "EFI_UNSUPPORTED"}
    BY <1>3 DEF Return, hardware
  <2>7. card' \in CardStates /\ leftRunning' \in BOOLEAN
    BY <1>3 DEF Return, hardware, CardStates
  <2>8. sts' \subseteq {"cmd", "trans"}
        /\ errs' \subseteq {"CmdTimeout", "CmdCrc", "DatTimeout", "DatCrc", "Adma"}
    BY <1>3 DEF Return, hardware
  <2>9. QED
    BY <2>1, <2>2, <2>3, <2>4, <2>5, <2>6, <2>7, <2>8
<1>4. CASE NextChunk
  <2>1. req' \in Requests
    <3>1. req.n - req.at \in Nat \ {0}
      BY <1>4, SMTT(20) DEF NextChunk, Asked, Requests
    <3>2. Portion(req.n - req.at) \in 0 .. MaxTrans
      BY <3>1, ChunkFits
    <3>3. QED
      BY <1>4, <3>2 DEF NextChunk, Requests
  <2>2. cmd' \in Commands
    <3>1. req.n - req.at \in Nat \ {0}
      BY <1>4, SMTT(20) DEF NextChunk, Asked, Requests
    <3>2. Portion(req.n - req.at) \in 0 .. MaxTrans
      BY <3>1, ChunkFits
    <3>3. req.op \in DataKinds \cup {"none"} /\ req.lba + req.at \in Nat /\ req.at \in Nat
      BY <1>4 DEF NextChunk, Requests, Asked
    <3>4. QED
      BY <1>4, <3>2, <3>3 DEF NextChunk, ChunkBuf, Commands
  <2>3. poll' \in Polls
    BY <1>4 DEF NextChunk, hardware, Polls, Controllers, Responses, CardStates
  <2>4. ctl' \in Controllers
    BY <1>4 DEF NextChunk, hardware, Controllers, Commands, Responses, CardStates
  <2>5. table' \in [live : BOOLEAN, lines : Seq([addr : Int, len : Int])]
    BY <1>4 DEF NextChunk, hardware, Commands
  <2>6. pc' \in Labels /\ status' \in {"none", "EFI_SUCCESS", "EFI_DEVICE_ERROR",
                               "EFI_INVALID_PARAMETER", "EFI_UNSUPPORTED"}
    BY <1>4 DEF NextChunk, hardware
  <2>7. card' \in CardStates /\ leftRunning' \in BOOLEAN
    BY <1>4 DEF NextChunk, hardware, CardStates
  <2>8. sts' \subseteq {"cmd", "trans"}
        /\ errs' \subseteq {"CmdTimeout", "CmdCrc", "DatTimeout", "DatCrc", "Adma"}
    BY <1>4 DEF NextChunk, hardware
  <2>9. QED
    BY <2>1, <2>2, <2>3, <2>4, <2>5, <2>6, <2>7, <2>8
<1>5. CASE WaitForLines
  <2>1. req' \in Requests
    BY <1>5 DEF WaitForLines, hardware, Requests
  <2>2. cmd' \in Commands
    BY <1>5 DEF WaitForLines, hardware, Commands, Requests
  <2>3. poll' \in Polls
    BY <1>5, Defaults, Counted DEF WaitForLines, hardware
  <2>4. ctl' \in Controllers
    BY <1>5 DEF WaitForLines, hardware, Controllers, Commands, Responses, CardStates
  <2>5. table' \in [live : BOOLEAN, lines : Seq([addr : Int, len : Int])]
    BY <1>5 DEF WaitForLines, hardware, Commands
  <2>6. pc' \in Labels /\ status' \in {"none", "EFI_SUCCESS", "EFI_DEVICE_ERROR",
                               "EFI_INVALID_PARAMETER", "EFI_UNSUPPORTED"}
    BY <1>5 DEF WaitForLines, hardware
  <2>7. card' \in CardStates /\ leftRunning' \in BOOLEAN
    BY <1>5 DEF WaitForLines, hardware, CardStates
  <2>8. sts' \subseteq {"cmd", "trans"}
        /\ errs' \subseteq {"CmdTimeout", "CmdCrc", "DatTimeout", "DatCrc", "Adma"}
    BY <1>5 DEF WaitForLines, hardware
  <2>9. QED
    BY <2>1, <2>2, <2>3, <2>4, <2>5, <2>6, <2>7, <2>8
<1>6. CASE SendCommand
  <2>1. req' \in Requests
    BY <1>6 DEF SendCommand, hardware, Requests
  <2>2. cmd' \in Commands
    BY <1>6 DEF SendCommand, hardware, Commands, Requests
  <2>3. poll' \in Polls
    BY <1>6 DEF SendCommand, hardware, Polls, Controllers, Responses, CardStates
  <2>4. ctl' \in Controllers
    <3>1. ctl' = [Idle EXCEPT !.cmd = "sent", !.run = cmd]
      BY <1>6, NotCut DEF SendCommand
    <3>2. ctl' = [cmd |-> "sent", dat |-> "idle", line |-> 1, done |-> 0, resp |-> "none", run |-> cmd]
      BY <3>1
    <3>3. QED
      BY <3>2 DEF Controllers, Responses
  <2>5. table' \in [live : BOOLEAN, lines : Seq([addr : Int, len : Int])]
    <3>1. DescTable(cmd.buf, cmd.n) \in Seq([addr : Int, len : Int])
      BY TableLines DEF Commands
    <3>2. QED
      BY <1>6, <3>1, Defaults DEF SendCommand
  <2>6. pc' \in Labels /\ status' \in {"none", "EFI_SUCCESS", "EFI_DEVICE_ERROR",
                               "EFI_INVALID_PARAMETER", "EFI_UNSUPPORTED"}
    BY <1>6 DEF SendCommand, hardware
  <2>7. card' \in CardStates /\ leftRunning' \in BOOLEAN
    BY <1>6 DEF SendCommand, hardware, CardStates
  <2>8. sts' \subseteq {"cmd", "trans"}
        /\ errs' \subseteq {"CmdTimeout", "CmdCrc", "DatTimeout", "DatCrc", "Adma"}
    BY <1>6 DEF SendCommand, hardware
  <2>9. QED
    BY <2>1, <2>2, <2>3, <2>4, <2>5, <2>6, <2>7, <2>8
<1>7. CASE PollCommand
  <2>1. req' \in Requests
    BY <1>7 DEF PollCommand, hardware, Requests
  <2>2. cmd' \in Commands
    BY <1>7 DEF PollCommand, hardware, Commands, Requests
  <2>3. poll' \in Polls
    <3>1. ctl.resp \in Responses
      BY DEF Controllers
    <3>2. [poll EXCEPT !.retry = 0, !.resp = ctl.resp] \in Polls
      BY <3>1 DEF Polls
    <3>3. QED
      BY <1>7, <3>2, Counted DEF PollCommand
  <2>4. ctl' \in Controllers
    BY <1>7 DEF PollCommand, hardware, Controllers, Commands, Responses, CardStates
  <2>5. table' \in [live : BOOLEAN, lines : Seq([addr : Int, len : Int])]
    BY <1>7 DEF PollCommand, hardware, Commands
  <2>6. pc' \in Labels /\ status' \in {"none", "EFI_SUCCESS", "EFI_DEVICE_ERROR",
                               "EFI_INVALID_PARAMETER", "EFI_UNSUPPORTED"}
    BY <1>7 DEF PollCommand, hardware
  <2>7. card' \in CardStates /\ leftRunning' \in BOOLEAN
    BY <1>7 DEF PollCommand, hardware, CardStates
  <2>8. sts' \subseteq {"cmd", "trans"}
        /\ errs' \subseteq {"CmdTimeout", "CmdCrc", "DatTimeout", "DatCrc", "Adma"}
    BY <1>7 DEF PollCommand, hardware
  <2>9. QED
    BY <2>1, <2>2, <2>3, <2>4, <2>5, <2>6, <2>7, <2>8
<1>8. CASE PollTransfer
  <2>1. req' \in Requests
    BY <1>8 DEF PollTransfer, Again, hardware, Requests
  <2>2. cmd' \in Commands
    BY <1>8 DEF PollTransfer, Again, hardware, Commands, Requests
  <2>3. poll' \in Polls
    <3>1. [poll EXCEPT !.trans = TRUE] \in Polls
      BY DEF Polls
    <3>2. QED
      BY <1>8, <3>1, Counted DEF PollTransfer, Again
  <2>4. ctl' \in Controllers
    BY <1>8 DEF PollTransfer, Again, hardware, Controllers, Commands, Responses, CardStates
  <2>5. table' \in [live : BOOLEAN, lines : Seq([addr : Int, len : Int])]
    BY <1>8 DEF PollTransfer, Again, hardware, Commands
  <2>6. pc' \in Labels /\ status' \in {"none", "EFI_SUCCESS", "EFI_DEVICE_ERROR",
                               "EFI_INVALID_PARAMETER", "EFI_UNSUPPORTED"}
    BY <1>8 DEF PollTransfer, Again, hardware
  <2>7. card' \in CardStates /\ leftRunning' \in BOOLEAN
    BY <1>8 DEF PollTransfer, Again, hardware, CardStates
  <2>8. sts' \subseteq {"cmd", "trans"}
        /\ errs' \subseteq {"CmdTimeout", "CmdCrc", "DatTimeout", "DatCrc", "Adma"}
    BY <1>8 DEF PollTransfer, Again, hardware
  <2>9. QED
    BY <2>1, <2>2, <2>3, <2>4, <2>5, <2>6, <2>7, <2>8
<1>9. CASE PollErrors
  <2>1. req' \in Requests
    BY <1>9 DEF PollErrors, Again, hardware, Requests
  <2>2. cmd' \in Commands
    BY <1>9 DEF PollErrors, Again, hardware, Commands, Requests
  <2>3. poll' \in Polls
    BY <1>9, Defaults, Counted DEF PollErrors, Again, hardware
  <2>4. ctl' \in Controllers
    BY <1>9 DEF PollErrors, Again, hardware, Controllers, Commands, Responses, CardStates
  <2>5. table' \in [live : BOOLEAN, lines : Seq([addr : Int, len : Int])]
    BY <1>9 DEF PollErrors, Again, hardware, Commands
  <2>6. pc' \in Labels /\ status' \in {"none", "EFI_SUCCESS", "EFI_DEVICE_ERROR",
                               "EFI_INVALID_PARAMETER", "EFI_UNSUPPORTED"}
    BY <1>9 DEF PollErrors, Again, hardware
  <2>7. card' \in CardStates /\ leftRunning' \in BOOLEAN
    BY <1>9 DEF PollErrors, Again, hardware, CardStates
  <2>8. sts' \subseteq {"cmd", "trans"}
        /\ errs' \subseteq {"CmdTimeout", "CmdCrc", "DatTimeout", "DatCrc", "Adma"}
    BY <1>9 DEF PollErrors, Again, hardware
  <2>9. QED
    BY <2>1, <2>2, <2>3, <2>4, <2>5, <2>6, <2>7, <2>8
<1>10. CASE CheckStatus
  <2>1. req' \in Requests
    BY <1>10 DEF CheckStatus, Reset, hardware, Requests
  <2>2. cmd' \in Commands
    BY <1>10 DEF CheckStatus, Reset, hardware, Commands, Requests
  <2>3. poll' \in Polls
    BY <1>10 DEF CheckStatus, Reset, hardware, Polls, Controllers, Responses, CardStates
  <2>4. ctl' \in Controllers
    BY <1>10, ZenonT(60) DEF CheckStatus, Reset, hardware, Controllers, Commands, Responses, CardStates
  <2>5. table' \in [live : BOOLEAN, lines : Seq([addr : Int, len : Int])]
    BY <1>10 DEF CheckStatus, Reset, hardware, Commands
  <2>6. pc' \in Labels /\ status' \in {"none", "EFI_SUCCESS", "EFI_DEVICE_ERROR",
                               "EFI_INVALID_PARAMETER", "EFI_UNSUPPORTED"}
    BY <1>10 DEF CheckStatus, Reset, hardware
  <2>7. card' \in CardStates /\ leftRunning' \in BOOLEAN
    BY <1>10 DEF CheckStatus, Reset, hardware, CardStates
  <2>8. sts' \subseteq {"cmd", "trans"}
        /\ errs' \subseteq {"CmdTimeout", "CmdCrc", "DatTimeout", "DatCrc", "Adma"}
    BY <1>10 DEF CheckStatus, Reset, hardware
  <2>9. QED
    BY <2>1, <2>2, <2>3, <2>4, <2>5, <2>6, <2>7, <2>8
<1>11. CASE StopTransfer
  <2>1. req' \in Requests
    BY <1>11 DEF StopTransfer, hardware, Requests
  <2>2. cmd' \in Commands
    BY <1>11, Defaults DEF StopTransfer, hardware
  <2>3. poll' \in Polls
    BY <1>11 DEF StopTransfer, hardware, Polls, Controllers, Responses, CardStates
  <2>4. ctl' \in Controllers
    BY <1>11 DEF StopTransfer, hardware, Controllers, Commands, Responses, CardStates
  <2>5. table' \in [live : BOOLEAN, lines : Seq([addr : Int, len : Int])]
    BY <1>11 DEF StopTransfer, hardware, Commands
  <2>6. pc' \in Labels /\ status' \in {"none", "EFI_SUCCESS", "EFI_DEVICE_ERROR",
                               "EFI_INVALID_PARAMETER", "EFI_UNSUPPORTED"}
    BY <1>11 DEF StopTransfer, hardware
  <2>7. card' \in CardStates /\ leftRunning' \in BOOLEAN
    BY <1>11 DEF StopTransfer, hardware, CardStates
  <2>8. sts' \subseteq {"cmd", "trans"}
        /\ errs' \subseteq {"CmdTimeout", "CmdCrc", "DatTimeout", "DatCrc", "Adma"}
    BY <1>11 DEF StopTransfer, hardware
  <2>9. QED
    BY <2>1, <2>2, <2>3, <2>4, <2>5, <2>6, <2>7, <2>8
<1>12. CASE ChunkDone
  <2>1. req' \in Requests
    BY <1>12, SMTT(20) DEF ChunkDone, hardware, Requests
  <2>2. cmd' \in Commands
    BY <1>12 DEF ChunkDone, hardware, Commands, Requests
  <2>3. poll' \in Polls
    BY <1>12 DEF ChunkDone, hardware, Polls, Controllers, Responses, CardStates
  <2>4. ctl' \in Controllers
    BY <1>12 DEF ChunkDone, hardware, Controllers, Commands, Responses, CardStates
  <2>5. table' \in [live : BOOLEAN, lines : Seq([addr : Int, len : Int])]
    BY <1>12 DEF ChunkDone, hardware, Commands
  <2>6. pc' \in Labels /\ status' \in {"none", "EFI_SUCCESS", "EFI_DEVICE_ERROR",
                               "EFI_INVALID_PARAMETER", "EFI_UNSUPPORTED"}
    BY <1>12 DEF ChunkDone, hardware
  <2>7. card' \in CardStates /\ leftRunning' \in BOOLEAN
    BY <1>12 DEF ChunkDone, hardware, CardStates
  <2>8. sts' \subseteq {"cmd", "trans"}
        /\ errs' \subseteq {"CmdTimeout", "CmdCrc", "DatTimeout", "DatCrc", "Adma"}
    BY <1>12 DEF ChunkDone, hardware
  <2>9. QED
    BY <2>1, <2>2, <2>3, <2>4, <2>5, <2>6, <2>7, <2>8
<1>13. CASE SleepDone
  <2>1. req' \in Requests
    BY <1>13 DEF SleepDone, hardware, Requests
  <2>2. cmd' \in Commands
    BY <1>13, Defaults DEF SleepDone, hardware
  <2>3. poll' \in Polls
    BY <1>13, Defaults DEF SleepDone, hardware
  <2>4. ctl' \in Controllers
    BY <1>13 DEF SleepDone, hardware, Controllers, Commands, Responses, CardStates
  <2>5. table' \in [live : BOOLEAN, lines : Seq([addr : Int, len : Int])]
    BY <1>13 DEF SleepDone, hardware, Commands
  <2>6. pc' \in Labels /\ status' \in {"none", "EFI_SUCCESS", "EFI_DEVICE_ERROR",
                               "EFI_INVALID_PARAMETER", "EFI_UNSUPPORTED"}
    BY <1>13 DEF SleepDone, hardware
  <2>7. card' \in CardStates /\ leftRunning' \in BOOLEAN
    BY <1>13 DEF SleepDone, hardware, CardStates
  <2>8. sts' \subseteq {"cmd", "trans"}
        /\ errs' \subseteq {"CmdTimeout", "CmdCrc", "DatTimeout", "DatCrc", "Adma"}
    BY <1>13 DEF SleepDone, hardware
  <2>9. QED
    BY <2>1, <2>2, <2>3, <2>4, <2>5, <2>6, <2>7, <2>8
<1>14. CASE CardAnswers
  <2>1. req' \in Requests
    BY <1>14 DEF CardAnswers, After, driver, Requests
  <2>2. cmd' \in Commands
    BY <1>14 DEF CardAnswers, After, driver, Commands, Requests
  <2>3. poll' \in Polls
    BY <1>14 DEF CardAnswers, After, driver, Polls, Controllers, Responses, CardStates
  <2>4. ctl' \in Controllers
    <3>1. PICK resp \in Responses, dat \in {"busy", "idle"} :
            ctl' = [ctl EXCEPT !.cmd = "idle", !.resp = resp, !.dat = dat]
      BY <1>14 DEF CardAnswers, Responses
    <3>2. QED
      BY <3>1 DEF Controllers
  <2>5. table' \in [live : BOOLEAN, lines : Seq([addr : Int, len : Int])]
    BY <1>14 DEF CardAnswers, After, driver, Commands
  <2>6. pc' \in Labels /\ status' \in {"none", "EFI_SUCCESS", "EFI_DEVICE_ERROR",
                               "EFI_INVALID_PARAMETER", "EFI_UNSUPPORTED"}
    BY <1>14 DEF CardAnswers, After, driver
  <2>7. card' \in CardStates /\ leftRunning' \in BOOLEAN
    BY <1>14 DEF CardAnswers, After, driver, CardStates
  <2>8. sts' \subseteq {"cmd", "trans"}
        /\ errs' \subseteq {"CmdTimeout", "CmdCrc", "DatTimeout", "DatCrc", "Adma"}
    BY <1>14 DEF CardAnswers, After, driver
  <2>9. QED
    BY <2>1, <2>2, <2>3, <2>4, <2>5, <2>6, <2>7, <2>8
<1>15. CASE NoAnswer
  <2>1. req' \in Requests
    BY <1>15 DEF NoAnswer, driver, Requests
  <2>2. cmd' \in Commands
    BY <1>15 DEF NoAnswer, driver, Commands, Requests
  <2>3. poll' \in Polls
    BY <1>15 DEF NoAnswer, driver, Polls, Controllers, Responses, CardStates
  <2>4. ctl' \in Controllers
    BY <1>15 DEF NoAnswer, driver, Controllers, Commands, Responses, CardStates
  <2>5. table' \in [live : BOOLEAN, lines : Seq([addr : Int, len : Int])]
    BY <1>15 DEF NoAnswer, driver, Commands
  <2>6. pc' \in Labels /\ status' \in {"none", "EFI_SUCCESS", "EFI_DEVICE_ERROR",
                               "EFI_INVALID_PARAMETER", "EFI_UNSUPPORTED"}
    BY <1>15 DEF NoAnswer, driver
  <2>7. card' \in CardStates /\ leftRunning' \in BOOLEAN
    BY <1>15 DEF NoAnswer, driver, CardStates
  <2>8. sts' \subseteq {"cmd", "trans"}
        /\ errs' \subseteq {"CmdTimeout", "CmdCrc", "DatTimeout", "DatCrc", "Adma"}
    BY <1>15 DEF NoAnswer, driver
  <2>9. QED
    BY <2>1, <2>2, <2>3, <2>4, <2>5, <2>6, <2>7, <2>8
<1>16. CASE MoveLine
  <2>1. req' \in Requests
    BY <1>16 DEF MoveLine, driver, Requests
  <2>2. cmd' \in Commands
    BY <1>16 DEF MoveLine, driver, Commands, Requests
  <2>3. poll' \in Polls
    BY <1>16 DEF MoveLine, driver, Polls, Controllers, Responses, CardStates
  <2>4. ctl' \in Controllers
    <3>1. ctl.run.n - ctl.done \in Int /\ ctl.line + 1 \in Nat
      BY DEF Controllers, Commands
    <3>2. table.lines[ctl.line] \in [addr : Int, len : Int]
      <4>1. table.lines \in Seq([addr : Int, len : Int]) /\ ctl.line \in DOMAIN table.lines
        BY <1>16 DEF MoveLine
      <4>2. ctl.line \in 1 .. Len(table.lines)
        BY <4>1, LenProperties
      <4>3. QED
        BY <4>1, <4>2, ElementOfSeq
    <3>3. LineLen(table.lines[ctl.line]) \in Int
      BY <3>2 DEF LineLen
    <3>4. PICK k \in Int : \/ ctl' = [ctl EXCEPT !.line = @ + 1, !.done = @ + k]
                         \/ ctl' = [ctl EXCEPT !.dat = "idle", !.done = @ + k]
      BY <1>16, <3>1, <3>3, Zenon DEF MoveLine
    <3>5. ctl.done + k \in Int
      BY <3>4 DEF Controllers
    <3>6. QED
      BY <3>1, <3>4, <3>5, ZenonT(60) DEF Controllers
  <2>5. table' \in [live : BOOLEAN, lines : Seq([addr : Int, len : Int])]
    BY <1>16 DEF MoveLine, driver, Commands
  <2>6. pc' \in Labels /\ status' \in {"none", "EFI_SUCCESS", "EFI_DEVICE_ERROR",
                               "EFI_INVALID_PARAMETER", "EFI_UNSUPPORTED"}
    BY <1>16 DEF MoveLine, driver
  <2>7. card' \in CardStates /\ leftRunning' \in BOOLEAN
    BY <1>16 DEF MoveLine, driver, CardStates
  <2>8. sts' \subseteq {"cmd", "trans"}
        /\ errs' \subseteq {"CmdTimeout", "CmdCrc", "DatTimeout", "DatCrc", "Adma"}
    BY <1>16 DEF MoveLine, driver
  <2>9. QED
    BY <2>1, <2>2, <2>3, <2>4, <2>5, <2>6, <2>7, <2>8
<1>17. CASE BusyEnds
  <2>1. req' \in Requests
    BY <1>17 DEF BusyEnds, driver, Requests
  <2>2. cmd' \in Commands
    BY <1>17 DEF BusyEnds, driver, Commands, Requests
  <2>3. poll' \in Polls
    BY <1>17 DEF BusyEnds, driver, Polls, Controllers, Responses, CardStates
  <2>4. ctl' \in Controllers
    BY <1>17 DEF BusyEnds, driver, Controllers, Commands, Responses, CardStates
  <2>5. table' \in [live : BOOLEAN, lines : Seq([addr : Int, len : Int])]
    BY <1>17 DEF BusyEnds, driver, Commands
  <2>6. pc' \in Labels /\ status' \in {"none", "EFI_SUCCESS", "EFI_DEVICE_ERROR",
                               "EFI_INVALID_PARAMETER", "EFI_UNSUPPORTED"}
    BY <1>17 DEF BusyEnds, driver
  <2>7. card' \in CardStates /\ leftRunning' \in BOOLEAN
    BY <1>17 DEF BusyEnds, driver, CardStates
  <2>8. sts' \subseteq {"cmd", "trans"}
        /\ errs' \subseteq {"CmdTimeout", "CmdCrc", "DatTimeout", "DatCrc", "Adma"}
    BY <1>17 DEF BusyEnds, driver
  <2>9. QED
    BY <2>1, <2>2, <2>3, <2>4, <2>5, <2>6, <2>7, <2>8
<1>18. CASE DataTimesOut
  BY <1>18 DEF DataTimesOut, driver
<1>19. CASE DataFails
  <2>1. req' \in Requests
    BY <1>19 DEF DataFails, driver, Requests
  <2>2. cmd' \in Commands
    BY <1>19 DEF DataFails, driver, Commands, Requests
  <2>3. poll' \in Polls
    BY <1>19 DEF DataFails, driver, Polls, Controllers, Responses, CardStates
  <2>4. ctl' \in Controllers
    BY <1>19 DEF DataFails, driver, Controllers, Commands, Responses, CardStates
  <2>5. table' \in [live : BOOLEAN, lines : Seq([addr : Int, len : Int])]
    BY <1>19 DEF DataFails, driver, Commands
  <2>6. pc' \in Labels /\ status' \in {"none", "EFI_SUCCESS", "EFI_DEVICE_ERROR",
                               "EFI_INVALID_PARAMETER", "EFI_UNSUPPORTED"}
    BY <1>19 DEF DataFails, driver
  <2>7. card' \in CardStates /\ leftRunning' \in BOOLEAN
    BY <1>19 DEF DataFails, driver, CardStates
  <2>8. sts' \subseteq {"cmd", "trans"}
        /\ errs' \subseteq {"CmdTimeout", "CmdCrc", "DatTimeout", "DatCrc", "Adma"}
    BY <1>19 DEF DataFails, driver
  <2>9. QED
    BY <2>1, <2>2, <2>3, <2>4, <2>5, <2>6, <2>7, <2>8
<1>20. CASE CardFinishes
  <2>1. req' \in Requests
    BY <1>20 DEF CardFinishes, driver, Requests
  <2>2. cmd' \in Commands
    BY <1>20 DEF CardFinishes, driver, Commands, Requests
  <2>3. poll' \in Polls
    BY <1>20 DEF CardFinishes, driver, Polls, Controllers, Responses, CardStates
  <2>4. ctl' \in Controllers
    BY <1>20 DEF CardFinishes, driver, Controllers, Commands, Responses, CardStates
  <2>5. table' \in [live : BOOLEAN, lines : Seq([addr : Int, len : Int])]
    BY <1>20 DEF CardFinishes, driver, Commands
  <2>6. pc' \in Labels /\ status' \in {"none", "EFI_SUCCESS", "EFI_DEVICE_ERROR",
                               "EFI_INVALID_PARAMETER", "EFI_UNSUPPORTED"}
    BY <1>20 DEF CardFinishes, driver
  <2>7. card' \in CardStates /\ leftRunning' \in BOOLEAN
    BY <1>20 DEF CardFinishes, driver, CardStates
  <2>8. sts' \subseteq {"cmd", "trans"}
        /\ errs' \subseteq {"CmdTimeout", "CmdCrc", "DatTimeout", "DatCrc", "Adma"}
    BY <1>20 DEF CardFinishes, driver
  <2>9. QED
    BY <2>1, <2>2, <2>3, <2>4, <2>5, <2>6, <2>7, <2>8
<1>21. QED
  BY <1>1, <1>2, <1>3, <1>4, <1>5, <1>6, <1>7, <1>8, <1>9, <1>10, <1>11, <1>12, <1>13, <1>14, <1>15, <1>16, <1>17, <1>18, <1>19, <1>20 DEF Next, DriverStep, HardwareStep

(* The driver alone decides what is asked for.                             *)
LEMMA AskedStep ==
  ASSUME IInv, Next
  PROVE  Asked'
<1> USE MmcAssumption DEF IInv, TypeOK, Asked, Sending, InCommand, HasData, IsBusy, DataKinds
<1>1. CASE \E op \in DataKinds, lba \in Starts, n \in Sizes : Call(op, lba, n)
  <2>1. PICK op \in DataKinds, lba \in Starts, n \in Sizes : Call(op, lba, n)
    BY <1>1
  <2>2. pc' = "chunk" => n # 0
    BY <2>1 DEF Call, CheckCall
  <2>3. n \in Nat /\ req'.at = 0 /\ req'.n = n /\ pc' \in {"chunk", "return"}
    BY <2>1 DEF Call
  <2>4. QED
    BY <2>2, <2>3
<1>2. CASE ExitBootServices
  BY <1>2 DEF ExitBootServices, hardware
<1>3. CASE Return
  BY <1>3 DEF Return, hardware
<1>4. CASE NextChunk
  <2>1. req.n - req.at \in Nat \ {0} /\ req.at \in Nat /\ req.n \in Nat
    BY <1>4 DEF NextChunk, Requests
  <2> DEFINE chunk == Portion(req.n - req.at)
  <2>2. chunk \in Nat /\ chunk <= req.n - req.at
    BY <2>1, ChunkFits
  <2>3. /\ pc' = "lines" /\ req' = [req EXCEPT !.chunk = chunk]
        /\ cmd' = [kind |-> req.op, lba |-> req.lba + req.at, buf |-> req.at, n |-> chunk]
    BY <1>4 DEF NextChunk, ChunkBuf
  <2> HIDE DEF chunk
  <2>4. /\ req'.at = req.at /\ req'.n = req.n /\ req'.lba = req.lba /\ req'.chunk = chunk
        /\ cmd'.lba = req.lba + req.at /\ cmd'.buf = req.at /\ cmd'.n = chunk
    BY <2>3 DEF Requests
  <2>5. QED
    BY <2>1, <2>2, <2>3, <2>4, SMTT(20)
<1>5. CASE WaitForLines
  BY <1>5 DEF WaitForLines, hardware
<1>6. CASE SendCommand
  BY <1>6 DEF SendCommand, hardware
<1>7. CASE PollCommand
  BY <1>7 DEF PollCommand, hardware
<1>8. CASE PollTransfer
  BY <1>8 DEF PollTransfer, Again, hardware
<1>9. CASE PollErrors
  BY <1>9 DEF PollErrors, Again, hardware
<1>10. CASE CheckStatus
  BY <1>10 DEF CheckStatus, Reset, hardware
<1>11. CASE StopTransfer
  <2>1. pc = "answered" /\ cmd.kind \in {"read", "write"} /\ req' = req /\ pc' = "lines"
        /\ cmd' = [NoCmd EXCEPT !.kind = "stop"]
    BY <1>11 DEF StopTransfer, StopNeeded
  <2>2. cmd'.kind = "stop"
    BY <2>1 DEF NoCmd
  <2>3. QED
    BY <2>1, <2>2
<1>12. CASE ChunkDone
  <2>1. req.at \in Nat /\ req.chunk \in Nat /\ req.n \in Nat
    BY DEF Requests
  <2>2. \/ pc' = "return"
        \/ pc' = "chunk" /\ req'.at < req.n /\ req' = [req EXCEPT !.at = @ + req.chunk]
    BY <1>12 DEF ChunkDone
  <2>3. req' = [req EXCEPT !.at = @ + req.chunk] => req'.n = req.n
    BY DEF Requests
  <2>4. QED
    BY <2>2, <2>3
<1>13. CASE SleepDone
  <2>1. \/ pc' = "off"
        \/ pc' = "lines" /\ cmd' = [NoCmd EXCEPT !.kind = "sleep"]
    BY <1>13 DEF SleepDone
  <2>2. cmd' = [NoCmd EXCEPT !.kind = "sleep"] => cmd'.kind = "sleep"
    BY DEF NoCmd
  <2>3. QED
    BY <2>1, <2>2
<1>14. CASE CardAnswers
  BY <1>14 DEF CardAnswers, After, driver
<1>15. CASE NoAnswer
  BY <1>15 DEF NoAnswer, driver
<1>16. CASE MoveLine
  BY <1>16 DEF MoveLine, driver
<1>17. CASE BusyEnds
  BY <1>17 DEF BusyEnds, driver
<1>18. CASE DataTimesOut
  BY <1>18 DEF DataTimesOut, driver
<1>19. CASE DataFails
  BY <1>19 DEF DataFails, driver
<1>20. CASE CardFinishes
  BY <1>20 DEF CardFinishes, driver
<1>21. QED
  BY <1>1, <1>2, <1>3, <1>4, <1>5, <1>6, <1>7, <1>8, <1>9, <1>10, <1>11, <1>12, <1>13, <1>14, <1>15, <1>16, <1>17, <1>18, <1>19, <1>20 DEF Next, DriverStep, HardwareStep

(* No way through sdhci_cmd_complete leaves the controller at work.        *)
LEMMA EngineStep ==
  ASSUME IInv, Next
  PROVE  Engine'
<1> USE MmcAssumption DEF IInv, TypeOK, Asked, Engine, Sending, InCommand, HasData, IsBusy, DataKinds, LinesFree, Quiet
<1>1. CASE \E op \in DataKinds, lba \in Starts, n \in Sizes : Call(op, lba, n)
  BY <1>1 DEF Call, hardware
<1>2. CASE ExitBootServices
  BY <1>2 DEF ExitBootServices, hardware
<1>3. CASE Return
  <2>1. pc' = "idle" /\ sts' = sts /\ errs' = errs
        /\ (~leftRunning' => ~leftRunning \/ Quiet)
    BY <1>3 DEF Return
  <2>2. Quiet => ctl' = Idle
    BY <1>3 DEF Return
  <2>3. ~leftRunning => Quiet
    BY <1>3 DEF Return
  <2>4. QED
    BY <2>1, <2>2, <2>3 DEF Idle
<1>4. CASE NextChunk
  BY <1>4 DEF NextChunk, hardware
<1>5. CASE WaitForLines
  BY <1>5 DEF WaitForLines, hardware
<1>6. CASE SendCommand
  <2>1. ctl' = [Idle EXCEPT !.cmd = "sent", !.run = cmd]
    BY <1>6, NotCut DEF SendCommand
  <2>2. ctl'.cmd = "sent" /\ ctl'.dat = "idle" /\ ctl'.run = cmd
    BY <2>1 DEF Idle
  <2>3. /\ HasData(cmd) => table'.live /\ table'.lines = DescTable(cmd.buf, cmd.n)
        /\ ~HasData(cmd) => table'.lines = <<>>
    BY <1>6 DEF SendCommand, NoTable
  <2>4. /\ pc' = "command" /\ pc = "lines" /\ cmd' = cmd /\ sts' = sts /\ errs' = errs
        /\ leftRunning' = leftRunning
    BY <1>6 DEF SendCommand
  <2>5. ~leftRunning => sts = {} /\ errs = {}
    BY <2>4
  <2>6. QED
    BY <2>2, <2>3, <2>4, <2>5
<1>7. CASE PollCommand
  <2>1. /\ UNCHANGED <<cmd, ctl, table, errs, leftRunning>> /\ pc = "command"
    BY <1>7 DEF PollCommand
  <2>2. CASE "cmd" \in sts
    <3>1. sts' = sts \ {"cmd"} /\ poll'.ret = poll.ret
          /\ pc' = IF HasData(cmd) \/ IsBusy(cmd) THEN "transfer" ELSE "status"
      BY <1>7, <2>2 DEF PollCommand, Polls
    <3>2. ~leftRunning => ctl.cmd = "idle"
      BY <2>2 DEF Controllers
    <3>3. sts' = {} \/ "trans" \in sts
      BY <3>1
    <3>4. QED
      BY <2>1, <2>2, <3>1, <3>2, <3>3
  <2>3. CASE "cmd" \notin sts /\ errs # {}
    BY <1>7, <2>1, <2>3 DEF PollCommand
  <2>4. CASE "cmd" \notin sts /\ errs = {}
    <3>1. sts' = sts /\ (pc' = "command" \/ (pc' = "status" /\ poll'.ret = 1))
      BY <1>7, <2>4 DEF PollCommand
    <3>2. QED
      BY <2>1, <3>1
  <2>5. QED
    BY <2>2, <2>3, <2>4
<1>8. CASE PollTransfer
  BY <1>8 DEF PollTransfer, Again, hardware
<1>9. CASE PollErrors
  BY <1>9 DEF PollErrors, Again, hardware
<1>10. CASE CheckStatus
  <2>1. /\ pc = "status" /\ pc' = "answered" /\ cmd' = cmd
    BY <1>10 DEF CheckStatus
  <2>2. CASE errs # {}
    <3>1. ctl' = [ctl EXCEPT !.cmd = "idle", !.dat = "idle"] /\ sts' = {} /\ errs' = {}
      BY <1>10, <2>2 DEF CheckStatus, Reset
    <3>2. ctl'.cmd = "idle" /\ ctl'.dat = "idle"
      BY <3>1 DEF Controllers
    <3>3. QED
      BY <2>1, <3>1, <3>2
  <2>3. CASE errs = {}
    BY <1>10, <2>1, <2>3 DEF CheckStatus
  <2>4. QED
    BY <2>2, <2>3
<1>11. CASE StopTransfer
  BY <1>11 DEF StopTransfer, hardware
<1>12. CASE ChunkDone
  BY <1>12 DEF ChunkDone, hardware
<1>13. CASE SleepDone
  BY <1>13 DEF SleepDone, hardware
<1>14. CASE CardAnswers
  BY <1>14 DEF CardAnswers, After, driver
<1>15. CASE NoAnswer
  BY <1>15 DEF NoAnswer, driver
<1>16. CASE MoveLine
  <2>1. UNCHANGED driver /\ UNCHANGED <<errs, leftRunning>> /\ ctl.dat = "busy"
    BY <1>16 DEF MoveLine
  <2>2. PICK k : \/ ctl' = [ctl EXCEPT !.line = @ + 1, !.done = @ + k] /\ sts' = sts
               \/ /\ ctl' = [ctl EXCEPT !.dat = "idle", !.done = @ + k]
                  /\ sts' = sts \cup {"trans"}
    BY <1>16, Zenon DEF MoveLine
  <2>3. CASE sts' = sts /\ ctl' = [ctl EXCEPT !.line = @ + 1, !.done = @ + k]
    <3>1. ctl'.cmd = ctl.cmd /\ ctl'.dat = ctl.dat /\ ctl'.run = ctl.run
      BY <2>3 DEF Controllers
    <3>2. QED
      BY <2>1, <2>3, <3>1 DEF driver
  <2>4. CASE sts' = sts \cup {"trans"} /\ ctl' = [ctl EXCEPT !.dat = "idle", !.done = @ + k]
    <3>1. ctl'.cmd = ctl.cmd /\ ctl.cmd \in {"idle", "sent"} /\ ctl'.dat = "idle" /\ ctl'.run = ctl.run
      BY <2>4 DEF Controllers
    <3>2. QED
      BY <2>1, <2>4, <3>1 DEF driver
  <2>5. QED
    BY <2>2, <2>3, <2>4
<1>17. CASE BusyEnds
  <2>1. UNCHANGED driver /\ UNCHANGED <<errs, leftRunning>> /\ ctl.dat = "busy"
        /\ sts' = sts \cup {"trans"} /\ ctl' = [ctl EXCEPT !.dat = "idle"]
    BY <1>17 DEF BusyEnds
  <2>2. ctl'.cmd = ctl.cmd /\ ctl.cmd \in {"idle", "sent"} /\ ctl'.dat = "idle" /\ ctl'.run = ctl.run
    BY <2>1 DEF Controllers
  <2>3. QED
    BY <2>1, <2>2 DEF driver
<1>18. CASE DataTimesOut
  BY <1>18 DEF DataTimesOut, driver
<1>19. CASE DataFails
  BY <1>19 DEF DataFails, driver
<1>20. CASE CardFinishes
  BY <1>20 DEF CardFinishes, driver
<1>21. QED
  BY <1>1, <1>2, <1>3, <1>4, <1>5, <1>6, <1>7, <1>8, <1>9, <1>10, <1>11, <1>12, <1>13, <1>14, <1>15, <1>16, <1>17, <1>18, <1>19, <1>20 DEF Next, DriverStep, HardwareStep

(* A line moves the blocks that come next, to the places that come next.   *)
LEMMA LineMoved ==
  ASSUME IInv, ~leftRunning, MoveLine
  PROVE  /\ UNCHANGED driver /\ InCommand /\ HasData(cmd) /\ ctl.run = cmd
         /\ ctl.cmd = "idle" /\ ctl.dat = "busy" /\ ctl.done \in Nat
         /\ \E k \in Int :
              /\ k <= cmd.n - ctl.done
              /\ moved' = moved \cup {<<cmd.lba + ctl.done + i, cmd.buf + ctl.done + i>> : i \in 0 .. k - 1}
              /\ \/ /\ k = LineBlocks /\ sts' = sts
                    /\ ctl' = [ctl EXCEPT !.line = @ + 1, !.done = @ + k]
                 \/ /\ k = cmd.n - ctl.done /\ sts' = sts \cup {"trans"}
                    /\ ctl' = [ctl EXCEPT !.dat = "idle", !.done = @ + k]
<1> USE MmcAssumption DEF IInv, TypeOK, Asked, Engine, Moves, Sending, InCommand, HasData, IsBusy, DataKinds, LinesFree, Quiet
<1>1. /\ UNCHANGED driver /\ ctl.dat = "busy" /\ ctl.line \in DOMAIN table.lines
      /\ ctl.cmd = "idle" /\ InCommand
  BY DEF MoveLine, Controllers
<1>2. HasData(cmd) /\ ctl.run = cmd /\ table.lines = DescTable(cmd.buf, cmd.n)
  BY <1>1
<1> DEFINE line == table.lines[ctl.line]
           left == cmd.n - ctl.done
           k == IF LineLen(line) < left THEN LineLen(line) ELSE left
<1>3. /\ moved' = moved \cup {<<cmd.lba + ctl.done + i, line.addr + i>> : i \in 0 .. k - 1}
      /\ \/ k < left /\ sts' = sts /\ ctl' = [ctl EXCEPT !.line = @ + 1, !.done = @ + k]
         \/ k = left /\ sts' = sts \cup {"trans"} /\ ctl' = [ctl EXCEPT !.dat = "idle", !.done = @ + k]
  BY <1>2, SMTT(20) DEF MoveLine
<1>4. ctl.done = (ctl.line - 1) * LineBlocks
  BY <1>1
<1>5. /\ line.addr = cmd.buf + ctl.done
      /\ line.len = IF left < LineBlocks THEN left ELSE 0
  BY <1>1, <1>2, <1>4 DEF DescTable
<1>6. ctl.done \in Int /\ ctl.line \in Nat /\ cmd.n \in Int
  BY DEF Commands, Controllers
<1> HIDE DEF line
<1>7. left \in Int
  BY <1>6
<1> HIDE DEF left
<1>8. k \in Int /\ k <= left /\ (k < left => k = LineBlocks)
  BY <1>5, <1>7 DEF LineLen
<1>9. ctl.done \in Nat
  <2>1. ctl.line - 1 \in Nat
    <3>1. ctl.line \in 1 .. Lines(cmd.n)
      BY <1>1, <1>2 DEF DescTable
    <3>2. QED
      BY <1>6, <3>1
  <2>2. \A a, b \in Nat : a * b \in Nat
    OBVIOUS
  <2>3. QED
    BY <1>4, <2>1, <2>2
<1>10. /\ k <= cmd.n - ctl.done
       /\ moved' = moved \cup {<<cmd.lba + ctl.done + i, cmd.buf + ctl.done + i>> : i \in 0 .. k - 1}
       /\ \/ /\ k = LineBlocks /\ sts' = sts
             /\ ctl' = [ctl EXCEPT !.line = @ + 1, !.done = @ + k]
          \/ /\ k = cmd.n - ctl.done /\ sts' = sts \cup {"trans"}
             /\ ctl' = [ctl EXCEPT !.dat = "idle", !.done = @ + k]
  <2> HIDE DEF k
  <2>1. left = cmd.n - ctl.done
    BY DEF left
  <2>2. moved' = moved \cup {<<cmd.lba + ctl.done + i, cmd.buf + ctl.done + i>> : i \in 0 .. k - 1}
    BY <1>3, <1>5
  <2>3. QED
    BY <1>3, <1>8, <2>1, <2>2
<1> HIDE DEF k
<1>11. QED
  BY <1>1, <1>2, <1>8, <1>9, <1>10, Zenon

(* So what is moved belongs where it goes.                                 *)
LEMMA MovesStep ==
  ASSUME IInv, Next
  PROVE  Moves'
<1> USE MmcAssumption DEF IInv, TypeOK, Asked, Engine, Moves, Sending, InCommand, HasData, IsBusy, DataKinds, LinesFree, Quiet, AllBlocks
<1>1. CASE \E op \in DataKinds, lba \in Starts, n \in Sizes : Call(op, lba, n)
  BY <1>1 DEF Call, hardware
<1>2. CASE ExitBootServices
  BY <1>2 DEF ExitBootServices, hardware
<1>3. CASE Return
  <2>1. pc' = "idle" /\ moved' = {} /\ (~leftRunning' => ~leftRunning \/ Quiet)
    BY <1>3 DEF Return
  <2>2. ~leftRunning => Quiet
    BY <1>3 DEF Return
  <2>3. Quiet => ctl' = Idle
    BY <1>3 DEF Return
  <2>4. QED
    BY <2>1, <2>2, <2>3 DEF Idle
<1>4. CASE NextChunk
  BY <1>4 DEF NextChunk, hardware
<1>5. CASE WaitForLines
  BY <1>5 DEF WaitForLines, hardware
<1>6. CASE SendCommand
  <2>1. /\ pc = "lines" /\ pc' = "command" /\ moved' = moved /\ req' = req
        /\ leftRunning' = leftRunning /\ ctl' = [Idle EXCEPT !.cmd = "sent", !.run = cmd]
    BY <1>6, NotCut DEF SendCommand
  <2>2. ctl'.done = 0 /\ ctl'.line = 1
    BY <2>1 DEF Idle
  <2>3. 0 = (1 - 1) * LineBlocks
    OBVIOUS
  <2>4. QED
    BY <2>1, <2>2, <2>3
<1>7. CASE PollCommand
  BY <1>7 DEF PollCommand, hardware
<1>8. CASE PollTransfer
  BY <1>8 DEF PollTransfer, Again, hardware
<1>9. CASE PollErrors
  BY <1>9 DEF PollErrors, Again, hardware
<1>10. CASE CheckStatus
  <2>1. /\ pc = "status" /\ pc' = "answered" /\ req' = req /\ moved' = moved
        /\ (~leftRunning' => ~leftRunning)
    BY <1>10 DEF CheckStatus
  <2>2. CASE errs # {}
    <3>1. ctl' = [ctl EXCEPT !.cmd = "idle", !.dat = "idle"]
      BY <1>10, <2>2 DEF CheckStatus, Reset
    <3>2. ctl'.cmd = "idle" /\ ctl'.dat = "idle"
      BY <3>1 DEF Controllers
    <3>3. QED
      BY <2>1, <3>2
  <2>3. CASE errs = {}
    BY <1>10, <2>1, <2>3 DEF CheckStatus
  <2>4. QED
    BY <2>2, <2>3
<1>11. CASE StopTransfer
  BY <1>11 DEF StopTransfer, hardware
<1>12. CASE ChunkDone
  <2>1. /\ pc = "answered" /\ pc' \in {"return", "chunk"} /\ moved' = moved /\ ctl' = ctl
        /\ leftRunning' = leftRunning
        /\ req' = req \/ req' = [req EXCEPT !.at = @ + req.chunk]
    BY <1>12 DEF ChunkDone, hardware
  <2>2. req'.lba = req.lba /\ req'.n = req.n
    BY <2>1 DEF Requests
  <2>3. QED
    BY <2>1, <2>2
<1>13. CASE SleepDone
  BY <1>13 DEF SleepDone, hardware
<1>14. CASE CardAnswers
  BY <1>14 DEF CardAnswers, After, driver
<1>15. CASE NoAnswer
  BY <1>15 DEF NoAnswer, driver
<1>16. CASE MoveLine
  <2>1. SUFFICES ASSUME ~leftRunning
                 PROVE  /\ pc' # "idle" /\ moved' \subseteq AllBlocks'
                        /\ ctl'.dat = "busy" => ctl'.done = (ctl'.line - 1) * LineBlocks
                        /\ ctl'.cmd # "sent"
    BY <1>16 DEF MoveLine
  <2>2. /\ UNCHANGED driver /\ InCommand /\ HasData(cmd)
        /\ ctl.cmd = "idle" /\ ctl.dat = "busy" /\ ctl.done \in Nat
    BY <1>16, <2>1, LineMoved
  <2>3. PICK k \in Int :
          /\ k <= cmd.n - ctl.done
          /\ moved' = moved \cup {<<cmd.lba + ctl.done + i, cmd.buf + ctl.done + i>> : i \in 0 .. k - 1}
          /\ \/ k = LineBlocks /\ ctl' = [ctl EXCEPT !.line = @ + 1, !.done = @ + k]
             \/ ctl' = [ctl EXCEPT !.dat = "idle", !.done = @ + k]
    BY <1>16, <2>1, LineMoved
  <2>4. /\ ctl.done = (ctl.line - 1) * LineBlocks
        /\ cmd.lba = req.lba + req.at /\ cmd.buf = req.at /\ cmd.n = req.chunk
        /\ req.at + req.chunk <= req.n
    BY <2>1, <2>2
  <2>5. /\ req.lba \in Nat /\ req.at \in Nat /\ req.n \in Nat /\ req.chunk \in Nat
        /\ ctl.line \in Nat
    BY DEF Requests, Controllers
  <2>6. ASSUME NEW i \in 0 .. k - 1
        PROVE  <<cmd.lba + ctl.done + i, cmd.buf + ctl.done + i>> \in AllBlocks
    <3>1. ctl.done \in Int /\ ctl.done >= 0 /\ i \in Nat /\ i < req.chunk - ctl.done
      <4>1. \A c, d, m \in Int : m <= c - d /\ i < m => i < c - d
        OBVIOUS
      <4>2. ctl.done \in Int /\ ctl.done >= 0 /\ req.chunk \in Int /\ i \in Nat /\ i \in Int /\ i < k
        BY <2>2, <2>5
      <4>3. QED
        BY <2>3, <2>4, <4>1, <4>2, Zenon
    <3>2. req.at + ctl.done + i \in 0 .. req.n - 1
      <4>1. \A a, c, d, n \in Int : a >= 0 /\ d >= 0 /\ a + c <= n /\ i < c - d
                                    => a + d + i \in 0 .. n - 1
        BY <3>1
      <4>2. req.at \in Int /\ req.chunk \in Int /\ req.n \in Int /\ req.at >= 0
        BY <2>5
      <4>3. QED
        BY <2>4, <3>1, <4>1, <4>2, Zenon
    <3>3. /\ cmd.lba + ctl.done + i = req.lba + (req.at + ctl.done + i)
          /\ cmd.buf + ctl.done + i = req.at + ctl.done + i
      <4>1. \A a, b, d, j \in Int : a + b + d + j = a + (b + d + j)
        OBVIOUS
      <4>2. /\ cmd.lba + ctl.done + i = req.lba + req.at + ctl.done + i
            /\ cmd.buf + ctl.done + i = req.at + ctl.done + i
        BY <2>4
      <4>3. QED
        BY <2>5, <3>1, <4>1, <4>2
    <3>4. QED
      BY <3>2, <3>3
  <2>7. moved' \subseteq AllBlocks'
    <3>1. moved \subseteq AllBlocks /\ AllBlocks' = AllBlocks
      BY <2>1, <2>2 DEF driver
    <3>2. SUFFICES ASSUME NEW x \in moved' PROVE x \in AllBlocks
      BY <3>1, Zenon
    <3>3. CASE x \in moved
      BY <3>1, <3>3, Zenon
    <3>4. CASE \E i \in 0 .. k - 1 : x = <<cmd.lba + ctl.done + i, cmd.buf + ctl.done + i>>
      <4>1. PICK i \in 0 .. k - 1 : x = <<cmd.lba + ctl.done + i, cmd.buf + ctl.done + i>>
        BY <3>4
      <4>2. QED
        BY <2>6, <4>1, Zenon
    <3>5. QED
      BY <2>3, <3>3, <3>4
  <2>8. ctl'.dat = "busy" => ctl'.done = (ctl'.line - 1) * LineBlocks
    <3>1. SUFFICES ASSUME ctl'.dat = "busy" PROVE ctl'.done = (ctl'.line - 1) * LineBlocks
      OBVIOUS
    <3>2. ctl'.line = ctl.line + 1 /\ ctl'.done = ctl.done + LineBlocks
      BY <2>3, <3>1, ZenonT(60) DEF Controllers
    <3>3. \A n : n = ctl.line + 1 => ctl.done + LineBlocks = (n - 1) * LineBlocks
      BY <2>4, <2>5
    <3>4. QED
      BY <3>2, <3>3, Zenon
  <2>9. ctl'.cmd # "sent" /\ pc' # "idle"
    BY <2>2, <2>3 DEF Controllers, driver
  <2>10. QED
    BY <2>7, <2>8, <2>9, Zenon
<1>17. CASE BusyEnds
  BY <1>17 DEF BusyEnds, driver
<1>18. CASE DataTimesOut
  BY <1>18 DEF DataTimesOut, driver
<1>19. CASE DataFails
  BY <1>19 DEF DataFails, driver
<1>20. CASE CardFinishes
  BY <1>20 DEF CardFinishes, driver
<1>21. QED
  BY <1>1, <1>2, <1>3, <1>4, <1>5, <1>6, <1>7, <1>8, <1>9, <1>10, <1>11, <1>12, <1>13, <1>14, <1>15, <1>16, <1>17, <1>18, <1>19, <1>20 DEF Next, DriverStep, HardwareStep

(* A stutter changes nothing the invariant speaks of.                       *)
LEMMA StutterInv ==
  ASSUME IInv, UNCHANGED vars
  PROVE  IInv'
<1> USE DEF IInv, vars, driver, hardware
<1>1. TypeOK'
  BY DEF TypeOK
<1>2. Asked' /\ Engine' /\ Moves'
  BY DEF Asked, Engine, Moves, Sending, InCommand, Quiet, LinesFree, AllBlocks
<1>3. QED
  BY <1>1, <1>2

LEMMA Invariance == Spec => []IInv
<1>1. ASSUME IInv, [Next]_vars PROVE IInv'
  <2>1. CASE Next
    <3>1. TypeOK' /\ Asked' /\ Engine' /\ Moves'
      BY <1>1, <2>1, TypeStep, AskedStep, EngineStep, MovesStep
    <3>2. QED
      BY <3>1 DEF IInv
  <2>2. CASE UNCHANGED vars
    BY <1>1, <2>2, StutterInv
  <2>3. QED
    BY <1>1, <2>1, <2>2
<1>2. QED
  BY InitInv, <1>1, PTL DEF Spec

-----------------------------------------------------------------------------
(* Wherever a call begins and however long it is, block Lba + i of the     *)
(* medium meets block i of the buffer and no other: mmc_read's pieces,     *)
(* sdhci_prep_desc_table's lines and the way the engine counts agree.      *)
THEOREM WhereAsked == Spec => []TransfersWhereAsked
<1>1. IInv => TransfersWhereAsked
  BY DEF IInv, Moves, TransfersWhereAsked
<1>2. QED
  BY Invariance, <1>1, PTL

(* Every way out of sdhci_cmd_complete leaves the engine at rest or resets *)
(* it, but the one where the polls run out with no error reported.         *)
THEOREM WithinCommand == Spec => []DmaWithinCommand
<1>1. IInv => DmaWithinCommand
  BY DEF IInv, Engine, DmaWithinCommand, InCommand, Quiet, TypeOK
<1>2. QED
  BY Invariance, <1>1, PTL

(* The same ways leave the status registers empty for the next command.    *)
THEOREM CleanStarts == Spec => []CleanStart
<1>1. IInv => CleanStart
  BY DEF IInv, Engine, CleanStart, InCommand, Quiet, TypeOK
<1>2. QED
  BY Invariance, <1>1, PTL

-----------------------------------------------------------------------------
(* The rest of a call is one block only if its size says so.               *)
LEMMA LoneBlock ==
  ASSUME MaxTrans # 1, NEW q \in Nat, NEW n \in Nat, n = q * MaxTrans + 1
  PROVE  n % MaxTrans = 1
<1>1. MaxTrans \in Nat /\ MaxTrans > 1
  BY MmcAssumption
<1> DEFINE d == n \div MaxTrans
           r == n % MaxTrans
<1>2. d \in Int /\ r \in Int /\ 0 <= r /\ r < MaxTrans /\ n = MaxTrans * d + r
  BY <1>1
<1> HIDE DEF d, r
<1>3. MaxTrans * (q - d) = r - 1
  BY <1>1, <1>2
<1>4. q - d = 0
  <2>1. \A x \in Int : x >= 1 => MaxTrans * x >= MaxTrans
    BY <1>1
  <2>2. \A x \in Int : x <= -1 => MaxTrans * x <= -MaxTrans
    BY <1>1
  <2>3. q - d \in Int
    BY <1>2
  <2>4. ~(q - d >= 1)
    BY <1>1, <1>2, <1>3, <2>1, <2>3
  <2>5. ~(q - d <= -1)
    BY <1>1, <1>2, <1>3, <2>2, <2>3
  <2>6. QED
    BY <2>3, <2>4, <2>5
<1>5. r = 1
  BY <1>1, <1>2, <1>3, <1>4
<1>6. QED
  BY <1>5 DEF r

LEMMA DoneMore ==
  ASSUME NEW pairs, NEW more, pairs \subseteq more, NEW lba, NEW buf, NEW n, Done(pairs, lba, buf, n)
  PROVE  Done(more, lba, buf, n)
  BY DEF Done

(* What lies behind two stretches that follow each other.                  *)
LEMMA DoneJoin ==
  ASSUME NEW pairs, NEW lba \in Nat, NEW buf \in Nat, NEW m \in Nat, NEW n \in Int,
         Done(pairs, lba, buf, m), Done(pairs, lba + m, buf + m, n)
  PROVE  Done(pairs, lba, buf, m + n)
<1> SUFFICES ASSUME NEW i \in 0 .. m + n - 1 PROVE <<lba + i, buf + i>> \in pairs
  BY DEF Done
<1>1. CASE i < m
  BY <1>1 DEF Done
<1>2. CASE i >= m
  <2>1. i - m \in 0 .. n - 1
    BY <1>2
  <2>2. <<(lba + m) + (i - m), (buf + m) + (i - m)>> \in pairs
    BY <2>1 DEF Done
  <2>3. (lba + m) + (i - m) = lba + i /\ (buf + m) + (i - m) = buf + i
    OBVIOUS
  <2>4. QED
    BY <2>2, <2>3
<1>3. QED
  BY <1>1, <1>2

(* Every piece but the last is of MaxTrans blocks.                         *)
LEMMA PiecesStep ==
  ASSUME IInv, Pieces, Next
  PROVE  Pieces'
<1> USE DEF Pieces, ForCall, Sending, InCommand, DataKinds
<1>1. CASE \E op \in DataKinds, lba \in Starts, n \in Sizes : Call(op, lba, n)
  <2>1. req'.at = 0 /\ pc' \in {"chunk", "return"}
    BY <1>1 DEF Call
  <2>2. 0 \in Nat /\ 0 = 0 * MaxTrans
    BY MmcAssumption
  <2>3. QED
    BY <2>1, <2>2
<1>2. CASE ExitBootServices
  BY <1>2 DEF ExitBootServices, NoCmd
<1>3. CASE Return
  BY <1>3 DEF Return
<1>4. CASE NextChunk
  <2>1. req' = [req EXCEPT !.chunk = Portion(req.n - req.at)] /\ pc = "chunk"
    BY <1>4 DEF NextChunk
  <2>2. req'.at = req.at /\ req'.n = req.n /\ req'.chunk = Portion(req.n - req.at)
    BY <2>1 DEF IInv, TypeOK, Requests
  <2>3. req.at < req.n
    BY <2>1 DEF IInv, Asked
  <2>4. QED
    BY <2>1, <2>2, <2>3
<1>5. CASE WaitForLines
  BY <1>5 DEF WaitForLines
<1>6. CASE SendCommand
  BY <1>6 DEF SendCommand
<1>7. CASE PollCommand
  BY <1>7 DEF PollCommand
<1>8. CASE PollTransfer
  BY <1>8 DEF PollTransfer, Again
<1>9. CASE PollErrors
  BY <1>9 DEF PollErrors, Again
<1>10. CASE CheckStatus
  BY <1>10 DEF CheckStatus
<1>11. CASE StopTransfer
  BY <1>11 DEF StopTransfer, StopNeeded
<1>12. CASE ChunkDone
  <2>1. CASE pc' = "return"
    BY <2>1
  <2>2. CASE pc' # "return"
    <3>1. /\ pc = "answered" /\ ForCall /\ pc' = "chunk"
          /\ req' = [req EXCEPT !.at = @ + req.chunk] /\ req'.at < req.n
      BY <1>12, <2>2 DEF ChunkDone
    <3>2. req.at \in Nat /\ req.chunk \in Nat /\ req.n \in Nat /\ MaxTrans \in Nat \ {0}
      BY MmcAssumption DEF IInv, TypeOK, Requests
    <3>3. req'.at = req.at + req.chunk
      BY <3>1 DEF IInv, TypeOK, Requests
    <3>4. req.chunk = MaxTrans
      <4>1. req.chunk = Portion(req.n - req.at)
        BY <3>1
      <4>2. req.chunk < req.n - req.at
        BY <3>1, <3>2, <3>3
      <4>3. QED
        BY <3>2, <4>1, <4>2 DEF Portion
    <3>5. PICK q \in Nat : req.at = q * MaxTrans
      BY <3>1
    <3>6. q + 1 \in Nat /\ req'.at = (q + 1) * MaxTrans
      BY <3>2, <3>3, <3>4, <3>5
    <3>7. QED
      BY <3>1, <3>6
  <2>3. QED
    BY <2>1, <2>2
<1>13. CASE SleepDone
  BY <1>13 DEF SleepDone, NoCmd
<1>14. CASE HardwareStep
  BY <1>14 DEF HardwareStep, CardAnswers, NoAnswer, MoveLine, BusyEnds, DataTimesOut, DataFails,
               CardFinishes, driver
<1>15. QED
  BY <1>1, <1>2, <1>3, <1>4, <1>5, <1>6, <1>7, <1>8, <1>9, <1>10, <1>11, <1>12, <1>13, <1>14 DEF Next, DriverStep

(* A call only ever reports what was moved.                                *)
LEMMA ProgressStep ==
  ASSUME MaxTrans # 1, IInv, Pieces, Progress, Next
  PROVE  Progress'
<1> USE DEF IInv, TypeOK, Progress, ForCall, Sending, InCommand, HasData, DataKinds
<1>1. CASE \E op \in DataKinds, lba \in Starts, n \in Sizes : Call(op, lba, n)
  <2>1. PICK op \in DataKinds, lba \in Starts, n \in Sizes : Call(op, lba, n)
    BY <1>1
  <2>2. n \in Nat /\ req'.at = 0 /\ req'.n = n /\ pc' \in {"chunk", "return"}
    BY <2>1, MmcAssumption DEF Call
  <2>3. pc' = "return" /\ status' = "EFI_SUCCESS" => n = 0
    BY <2>1, <2>2 DEF Call, CheckCall
  <2>4. Done(moved', req'.lba, 0, 0)
    BY DEF Done
  <2>5. QED
    BY <2>2, <2>3, <2>4
<1>2. CASE ExitBootServices
  <2>1. pc' = "lines" /\ cmd'.kind = "deselect"
    BY <1>2 DEF ExitBootServices, NoCmd
  <2>2. QED
    BY <2>1
<1>3. CASE Return
  BY <1>3 DEF Return
<1>4. CASE NextChunk
  <2>1. /\ pc = "chunk" /\ pc' = "lines" /\ UNCHANGED <<moved, leftRunning>>
        /\ cmd'.kind = req.op /\ req' = [req EXCEPT !.chunk = Portion(req.n - req.at)]
    BY <1>4 DEF NextChunk, hardware
  <2>2. req'.at = req.at /\ req'.n = req.n /\ req'.lba = req.lba /\ cmd'.kind # "stop"
    BY <2>1 DEF Requests
  <2>3. QED
    BY <2>1, <2>2
<1>5. CASE WaitForLines
  BY <1>5 DEF WaitForLines, Engine, Quiet
<1>6. CASE SendCommand
  <2>1. /\ pc = "lines" /\ pc' = "command" /\ UNCHANGED <<req, cmd, sts, moved, leftRunning>>
        /\ ctl'.done = 0 /\ ctl'.resp = "none" /\ poll' = NoPoll
    BY <1>6 DEF SendCommand, Idle
  <2>2. Done(moved, cmd.lba, cmd.buf, 0)
    BY DEF Done
  <2>3. ~leftRunning => sts = {}
    BY <2>1 DEF Engine, Quiet
  <2>4. QED
    BY <2>1, <2>2, <2>3 DEF NoPoll
<1>7. CASE PollCommand
  <2>1. /\ pc = "command" /\ UNCHANGED <<req, cmd, ctl, moved, errs, leftRunning>> /\ sts' \subseteq sts
        /\ pc' \in {"command", "transfer", "status"} /\ poll'.trans = poll.trans
        /\ poll'.resp \in {poll.resp, ctl.resp}
        /\ pc' = "status" /\ HasData(cmd) => errs # {} \/ poll'.ret = 1
    BY <1>7 DEF PollCommand, Polls
  <2>2. LinesFree' = LinesFree
    BY <2>1 DEF LinesFree
  <2>3. QED
    BY <2>1, <2>2
<1>8. CASE PollTransfer
  <2>1. /\ pc = "transfer" /\ UNCHANGED <<req, cmd, ctl, moved, errs, leftRunning>> /\ sts' \subseteq sts
        /\ pc' \in {"transfer", "errors", "status"} /\ poll'.resp = poll.resp
        /\ poll'.trans => poll.trans \/ "trans" \in sts
        /\ pc' = "status" => poll'.trans \/ poll'.ret = 1
    BY <1>8 DEF PollTransfer, Again, Polls
  <2>2. LinesFree' = LinesFree
    BY <2>1 DEF LinesFree
  <2>3. QED
    BY <2>1, <2>2
<1>9. CASE PollErrors
  <2>1. /\ pc = "errors" /\ UNCHANGED <<req, cmd, ctl, sts, moved, errs, leftRunning>>
        /\ pc' \in {"transfer", "status"} /\ poll'.resp = poll.resp /\ poll'.trans = poll.trans
    BY <1>9 DEF PollErrors, Again, Polls, hardware
  <2>2. LinesFree' = LinesFree
    BY <2>1 DEF LinesFree
  <2>3. ~leftRunning => errs # {}
    BY <2>1 DEF Engine
  <2>4. QED
    BY <2>1, <2>2, <2>3
<1>10. CASE CheckStatus
  <2>1. /\ pc = "status" /\ pc' = "answered" /\ UNCHANGED <<req, cmd, moved>>
        /\ ~leftRunning' => ~leftRunning
        /\ poll'.resp = poll.resp
        /\ poll'.ret = 0 => poll.trans \/ (errs = {} /\ poll.ret = 0)
    BY <1>10 DEF CheckStatus, Reset, ErrorCounts, Polls
  <2>2. ~leftRunning /\ HasData(cmd) => errs # {} \/ poll.ret = 1 \/ poll.trans
    BY <2>1
  <2>3. ~leftRunning /\ HasData(cmd) /\ poll.trans => Done(moved, cmd.lba, cmd.buf, cmd.n)
    BY <2>1
  <2>4. ~leftRunning' /\ HasData(cmd) /\ poll'.ret = 0 => Done(moved, cmd.lba, cmd.buf, cmd.n)
    <3>1. poll.ret = 0 => poll.ret # 1
      OBVIOUS
    <3>2. QED
      BY <2>1, <2>2, <2>3, <3>1, Zenon
  <2>5. QED
    BY <2>1, <2>4
<1>11. CASE StopTransfer
  <2>1. /\ pc = "answered" /\ pc' = "lines" /\ cmd.kind \in DataKinds /\ cmd'.kind = "stop"
        /\ poll'.resp = "none" /\ UNCHANGED <<req, moved, leftRunning>>
    BY <1>11 DEF StopTransfer, StopNeeded, NoPoll, NoCmd, hardware
  <2>2. QED
    BY <2>1
<1>12. CASE ChunkDone
  <2>1. /\ pc = "answered" /\ ForCall /\ pc' \in {"chunk", "return"}
        /\ UNCHANGED <<cmd, poll, moved, leftRunning>> /\ ~StopNeeded
    BY <1>12 DEF ChunkDone, hardware
  <2>2. CASE ChunkResult # 0
    <3>1. pc' = "return" /\ status' = "EFI_DEVICE_ERROR"
      BY <1>12, <2>2 DEF ChunkDone
    <3>2. QED
      BY <3>1
  <2>3. CASE ChunkResult = 0
    <3>1. SUFFICES ASSUME ~leftRunning, req'.n % MaxTrans # 1
                   PROVE  Done(moved', req'.lba, 0, req'.at)
      <4>1. pc' = "chunk" \/ (pc' = "return" /\ req'.at = req.n)
        BY <1>12, <2>3 DEF ChunkDone
      <4>2. req'.n = req.n
        BY <1>12, <2>3 DEF ChunkDone, Requests
      <4>3. QED
        BY <2>1, <4>1, <4>2
    <3>2. /\ req'.at = req.at + req.chunk /\ req'.n = req.n /\ req'.lba = req.lba
          /\ req.lba \in Nat /\ req.at \in Nat /\ req.n \in Nat /\ req.chunk \in Nat
      BY <1>12, <2>3 DEF ChunkDone, Requests
    <3>3. Done(moved, req.lba, 0, req.at)
      BY <2>1, <3>1, <3>2
    <3>4. HasData(cmd)
      <4>1. SUFFICES ASSUME cmd.kind = "stop" PROVE FALSE
        BY <2>1
      <4>2. poll.resp \in {"none", "data", "rcv"}
        BY <2>1, <3>1, <4>1
      <4>3. QED
        BY <2>3, <4>1, <4>2 DEF ChunkResult, ParseResponse
    <3>5. cmd.lba = req.lba + req.at /\ cmd.buf = req.at /\ cmd.n = req.chunk
      BY <2>1, <3>4 DEF Asked
    <3>6. poll.ret = 0
      <4>1. SUFFICES ASSUME poll.ret # 0 PROVE FALSE
        OBVIOUS
      <4>2. poll.ret = 1
        BY <4>1 DEF Polls
      <4>3. req.chunk <= 1
        BY <2>1, <3>2, <3>4, <3>5, <4>2 DEF StopNeeded
      <4>4. req.chunk = Portion(req.n - req.at)
        BY <2>1 DEF Pieces
      <4>5. MaxTrans \in Nat /\ MaxTrans > 1
        BY MmcAssumption
      <4>6. req.n - req.at <= 1
        BY <3>2, <4>3, <4>4, <4>5 DEF Portion
      <4>7. PICK q \in Nat : req.at = q * MaxTrans
        BY <2>1 DEF Pieces
      <4>8. CASE req.n - req.at = 1
        <5>1. req.n = q * MaxTrans + 1
          <6>1. \A a, b, c \in Int : a - b = 1 /\ b = c => a = c + 1
            OBVIOUS
          <6>2. q * MaxTrans \in Int
            BY <4>5
          <6>3. QED
            BY <3>2, <4>7, <4>8, <6>1, <6>2
        <5>2. QED
          BY <3>1, <3>2, <5>1, LoneBlock
      <4>9. CASE req.n - req.at <= 0
        BY <2>1, <3>2, <4>9 DEF Pieces
      <4>10. QED
        BY <3>2, <4>6, <4>8, <4>9
    <3>7. Done(moved, req.lba + req.at, 0 + req.at, req.chunk)
      <4>1. 0 + req.at = req.at
        BY <3>2
      <4>2. QED
        BY <2>1, <3>1, <3>4, <3>5, <3>6, <4>1
    <3>8. Done(moved, req.lba, 0, req.at + req.chunk)
      <4>1. 0 \in Nat /\ req.chunk \in Int
        BY <3>2
      <4>2. QED
        BY <3>2, <3>3, <3>7, <4>1, DoneJoin, Zenon
    <3>9. QED
      BY <2>1, <3>2, <3>8
  <2>4. QED
    BY <2>2, <2>3
<1>13. CASE SleepDone
  <2>1. pc' = "off" \/ (pc' = "lines" /\ cmd'.kind = "sleep")
    BY <1>13 DEF SleepDone, NoCmd
  <2>2. QED
    BY <2>1
<1>14. CASE CardAnswers
  <2>1. /\ ctl.cmd = "sent" /\ UNCHANGED <<driver, moved, leftRunning>>
        /\ errs \subseteq errs' /\ sts' \subseteq sts \cup {"cmd"}
    BY <1>14 DEF CardAnswers
  <2>2. PICK resp \in {card} \cup (IF HasData(ctl.run) THEN {"error"} ELSE {}) :
          ctl' = [ctl EXCEPT !.cmd = "idle", !.resp = resp,
                             !.dat = IF HasData(ctl.run) \/ IsBusy(ctl.run) THEN "busy" ELSE "idle"]
    BY <1>14 DEF CardAnswers
  <2>3. ctl'.resp = resp /\ ctl'.done = ctl.done
    BY <2>2 DEF Controllers
  <2>4. ~leftRunning => InCommand /\ ctl.run = cmd
    BY <2>1 DEF Engine, Quiet, LinesFree
  <2>5. ~leftRunning /\ cmd.kind = "stop" => ctl'.resp \in {"data", "rcv"}
    BY <1>14, <2>2, <2>3, <2>4 DEF CardAnswers, Accepts
  <2>6. ~leftRunning => "trans" \notin sts /\ (HasData(cmd) => ~poll.trans)
    BY <2>1, <2>4 DEF Engine, LinesFree
  <2>7. QED
    BY <2>1, <2>3, <2>4, <2>5, <2>6 DEF driver
<1>15. CASE NoAnswer
  <2>1. /\ UNCHANGED <<driver, sts, moved, leftRunning>> /\ errs' # {}
        /\ ctl'.resp = ctl.resp /\ ctl'.done = ctl.done
        /\ LinesFree => LinesFree'
    BY <1>15 DEF NoAnswer, Controllers, LinesFree
  <2>2. QED
    BY <2>1 DEF driver
<1>16. CASE MoveLine
  <2>1. SUFFICES ASSUME ~leftRunning PROVE Progress'
    BY <1>16 DEF MoveLine
  <2>2. /\ UNCHANGED <<pc, req, status, cmd, poll>> /\ InCommand /\ HasData(cmd)
        /\ ctl.dat = "busy" /\ ctl.done \in Nat /\ UNCHANGED <<errs, leftRunning>>
    BY <1>16, <2>1, LineMoved DEF MoveLine, driver
  <2>3. PICK k \in Int :
          /\ k <= cmd.n - ctl.done
          /\ moved' = moved \cup {<<cmd.lba + ctl.done + i, cmd.buf + ctl.done + i>> : i \in 0 .. k - 1}
          /\ \/ /\ k = LineBlocks /\ sts' = sts
                /\ ctl' = [ctl EXCEPT !.line = @ + 1, !.done = @ + k]
             \/ /\ k = cmd.n - ctl.done /\ sts' = sts \cup {"trans"}
                /\ ctl' = [ctl EXCEPT !.dat = "idle", !.done = @ + k]
    BY <1>16, <2>1, LineMoved
  <2>4. moved \subseteq moved' /\ ctl'.done = ctl.done + k /\ ctl'.resp = ctl.resp /\ ctl'.cmd = ctl.cmd
    BY <2>3 DEF Controllers
  <2>5. cmd.lba \in Nat /\ cmd.buf \in Nat /\ cmd.n \in Int
    BY DEF Commands
  <2>6. Done(moved', cmd.lba, cmd.buf, ctl.done + k)
    <3>1. Done(moved', cmd.lba, cmd.buf, ctl.done)
      BY <2>1, <2>2, <2>4, DoneMore
    <3>2. Done(moved', cmd.lba + ctl.done, cmd.buf + ctl.done, k)
      BY <2>3 DEF Done
    <3>3. QED
      BY <2>2, <2>5, <3>1, <3>2, DoneJoin
  <2>7. "trans" \notin sts /\ ~poll.trans
    BY <2>1, <2>2 DEF LinesFree
  <2>8. "trans" \in sts' => LinesFree' /\ ctl'.done = cmd.n
    <3>1. "trans" \in sts' => k = cmd.n - ctl.done /\ ctl'.dat = "idle"
      BY <2>3, <2>7 DEF Controllers
    <3>2. ctl'.cmd = "idle"
      BY <1>16, <2>1, <2>4, LineMoved
    <3>3. QED
      BY <2>2, <2>4, <2>5, <3>1, <3>2 DEF LinesFree
  <2>9. (pc = "chunk" \/ ForCall) /\ req.n % MaxTrans # 1 => Done(moved', req.lba, 0, req.at)
    BY <2>1, <2>4, DoneMore
  <2>10. QED
    BY <2>1, <2>2, <2>4, <2>6, <2>7, <2>8, <2>9
<1>17. CASE BusyEnds
  <2>1. /\ UNCHANGED <<driver, errs, moved, leftRunning>> /\ ctl'.resp = ctl.resp /\ IsBusy(ctl.run)
        /\ ctl.dat = "busy"
    BY <1>17 DEF BusyEnds, Controllers
  <2>2. ~leftRunning => ~HasData(cmd) /\ InCommand
    BY <2>1 DEF Engine, Quiet, LinesFree, IsBusy
  <2>3. QED
    BY <2>1, <2>2 DEF driver
<1>18. CASE DataTimesOut
  <2>1. UNCHANGED <<driver, ctl, sts, moved, leftRunning>> /\ errs' # {}
    BY <1>18 DEF DataTimesOut
  <2>2. QED
    BY <2>1 DEF driver, LinesFree
<1>19. CASE DataFails
  <2>1. /\ UNCHANGED <<driver, sts, moved, leftRunning>> /\ errs' # {} /\ ctl.dat = "busy"
        /\ ctl'.resp = ctl.resp /\ ctl'.done = ctl.done
    BY <1>19 DEF DataFails, Controllers
  <2>2. ~LinesFree
    BY <2>1 DEF LinesFree
  <2>3. QED
    BY <2>1, <2>2 DEF driver
<1>20. CASE CardFinishes
  <2>1. UNCHANGED <<driver, ctl, sts, errs, moved, leftRunning>>
    BY <1>20 DEF CardFinishes
  <2>2. QED
    BY <2>1 DEF driver, LinesFree
<1>21. QED
  BY <1>1, <1>2, <1>3, <1>4, <1>5, <1>6, <1>7, <1>8, <1>9, <1>10, <1>11, <1>12, <1>13, <1>14, <1>15,
     <1>16, <1>17, <1>18, <1>19, <1>20 DEF Next, DriverStep, HardwareStep

(* However many commands a call takes, whatever times out, fails or is     *)
(* garbled on the way, mmc_read and mmc_write only report success once     *)
(* every block was moved - if no command is of one block alone, whose      *)
(* failure the driver does not look at.                                    *)
THEOREM SuccessIsComplete == ASSUME MaxTrans # 1 PROVE Spec => []SuccessOfManyBlocks
<1>1. Init => Pieces /\ Progress
  BY DEF Init, Pieces, Progress, ForCall, Sending, InCommand
<1>2. ASSUME IInv, Pieces, Progress, [Next]_vars PROVE Pieces' /\ Progress'
  <2>1. CASE Next
    BY <1>2, <2>1, PiecesStep, ProgressStep
  <2>2. CASE UNCHANGED vars
    <3>1. Pieces'
      BY <1>2, <2>2 DEF Pieces, ForCall, Sending, InCommand, vars, driver
    <3>2. Progress'
      BY <1>2, <2>2 DEF Progress, ForCall, Sending, InCommand, LinesFree, vars, driver, hardware
    <3>3. QED
      BY <3>1, <3>2
  <2>3. QED
    BY <1>2, <2>1, <2>2
<1>3. IInv /\ Progress => SuccessOfManyBlocks
  <2> SUFFICES ASSUME IInv, Progress, pc = "return", status = "EFI_SUCCESS",
                      req.n % MaxTrans # 1, ~leftRunning
               PROVE  moved = AllBlocks
    BY DEF SuccessOfManyBlocks
  <2>1. moved \subseteq AllBlocks
    BY DEF IInv, Moves
  <2>2. Done(moved, req.lba, 0, req.n) /\ req.n \in Nat
    BY DEF IInv, Progress, TypeOK, Requests
  <2>3. AllBlocks \subseteq moved
    BY <2>2 DEF AllBlocks, Done
  <2>4. QED
    BY <2>1, <2>3
<1>4. QED
  BY Invariance, <1>1, <1>2, <1>3, PTL DEF Spec
=============================================================================

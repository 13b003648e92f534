------------------------------ MODULE MmcBlockIo ------------------------------
(***************************************************************************)
(* Block reads and writes of Driver/SdhciMMCHSDxe: the Block I/O protocol  *)
(* of MMCHS.c, mmc_sdhci_read, mmc_sdhci_write and the stop command of     *)
(* mmc_sdhci.c, and sdhci_send_command with sdhci_cmd_complete of sdhci.c. *)
(* The driver polls: controller and card, whose steps are external here,   *)
(* move between any two of its reads of a register.  A block is the unit   *)
(* of addresses, of buffers and of descriptor lengths.                     *)
(***************************************************************************)
EXTENDS Integers, Sequences

CONSTANTS
  LastBlock,      \* of the medium
  Starts, Sizes,  \* bound: first blocks and numbers of blocks of the calls
  MaxTrans,       \* SDHCI_ADMA_MAX_TRANS_SZ in blocks, 65535 in the code
  LineBlocks,     \* SDHCI_ADMA_DESC_LINE_SZ in blocks, 128 in the code
  CountWidth,     \* values of the block count register, 65536
  slot,           \* config.slot: 1 the eMMC, 2 the SD card
  ProtectedLast,  \* last block writes to the eMMC spare, 253951
  LineRetries, CmdRetries, TransRetries  \* 10, 5000000 and 10000000

ASSUME MmcAssumption ==
  /\ LastBlock \in Nat /\ Starts \subseteq Nat /\ Sizes \subseteq Nat /\ slot \in {1, 2}
  /\ MaxTrans \in Nat \ {0} /\ LineBlocks \in Nat \ {0}
  /\ CountWidth \in Nat /\ MaxTrans < CountWidth
  /\ ProtectedLast \in Nat
  /\ LineRetries \in Nat \ {0} /\ CmdRetries \in Nat \ {0} /\ TransRetries \in Nat \ {0}

VARIABLES
  pc, req, status,      \* the call of the protocol and what it returns
  cmd, poll, table,     \* struct mmc_command; the locals; the ADMA table
  ctl, sts, errs,       \* the controller: engine, normal and error status
  card,                 \* CURRENT_STATE of the card
  moved,                \* transferred in this call: medium block, buffer block
  leftRunning           \* a poll ran out, nothing was reset, and it shows

driver == <<pc, req, status, cmd, poll, table>>
hardware == <<ctl, sts, errs, card, moved>>
vars == <<driver, hardware, leftRunning>>

NoReq == [op |-> "none", lba |-> 0, n |-> 0, at |-> 0, chunk |-> 0]
NoCmd == [kind |-> "none", lba |-> 0, buf |-> 0, n |-> 0]
NoTable == [live |-> FALSE, lines |-> <<>>]
NoPoll == [retry |-> 0, ret |-> 0, trans |-> FALSE, resp |-> "none"]
Idle == [cmd |-> "idle", dat |-> "idle", line |-> 1, done |-> 0, resp |-> "none", run |-> NoCmd]

DataKinds == {"read", "write"}
HasData(c) == c.kind \in DataKinds
IsBusy(c) == c.kind = "sleep"             \* SDHCI_CMD_RESP_R1B
LinesFree == ctl.cmd = "idle" /\ ctl.dat = "idle"
Quiet == LinesFree /\ sts = {} /\ errs = {}

Init ==
  /\ pc = "idle" /\ req = NoReq /\ status = "none"
  /\ cmd = NoCmd /\ poll = NoPoll /\ table = NoTable
  /\ ctl = Idle /\ sts = {} /\ errs = {} /\ card = "tran"
  /\ moved = {} /\ leftRunning = FALSE

-----------------------------------------------------------------------------
(* MMCHSReadBlocks, MMCHSWriteBlocks.  Lba and the sum are unsigned: a     *)
(* call for no block at block 0 is past the end of the medium.             *)

Rejected(lba, n) == lba > LastBlock \/ lba + n > LastBlock + 1 \/ (lba = 0 /\ n = 0)

CheckCall(op, lba, n) ==
  IF Rejected(lba, n) THEN "EFI_INVALID_PARAMETER"
  ELSE IF n = 0 THEN "EFI_SUCCESS"
  ELSE IF op = "write" /\ slot <= 1 /\ lba <= ProtectedLast THEN "EFI_UNSUPPORTED"
  ELSE "none"

Call(op, lba, n) ==
  /\ pc = "idle"
  /\ req' = [op |-> op, lba |-> lba, n |-> n, at |-> 0, chunk |-> 0]
  /\ status' = CheckCall(op, lba, n)
  /\ pc' = IF status' = "none" THEN "chunk" ELSE "return"
  /\ UNCHANGED <<cmd, poll, table, hardware, leftRunning>>

(* Nobody reads a local's or an idle controller's old values again.        *)
Return ==
  /\ pc = "return" /\ pc' = "idle"
  /\ req' = NoReq /\ status' = "none" /\ moved' = {}
  /\ cmd' = NoCmd /\ poll' = NoPoll
  /\ leftRunning' = (leftRunning /\ ~Quiet)
  /\ \/ LinesFree /\ ctl' = Idle /\ table' = NoTable
     \/ ~LinesFree /\ UNCHANGED <<ctl, table>>
  /\ UNCHANGED <<sts, errs, card>>

(* MMCHSExitBsUninit: mmc_put_card_to_sleep, deselect and then sleep.      *)
ExitBootServices ==
  /\ pc = "idle"
  /\ cmd' = [NoCmd EXCEPT !.kind = "deselect"]
  /\ poll' = NoPoll /\ pc' = "lines"
  /\ UNCHANGED <<req, status, table, hardware, leftRunning>>

(* mmc_read and mmc_write: the next piece the controller can take.         *)
StuckChunkBuf(at) == 0   \* faulty: sptr is not moved on

ChunkBuf(at) == at

Portion(left) == IF left > MaxTrans THEN MaxTrans ELSE left

NextChunk ==
  LET chunk == Portion(req.n - req.at)
  IN  /\ pc = "chunk" /\ pc' = "lines"
      /\ req' = [req EXCEPT !.chunk = chunk]
      /\ cmd' = [kind |-> req.op, lba |-> req.lba + req.at, buf |-> ChunkBuf(req.at), n |-> chunk]
      /\ poll' = NoPoll
      /\ UNCHANGED <<status, table, hardware, leftRunning>>

-----------------------------------------------------------------------------
(* sdhci_prep_desc_table: a length of 0 stands for a full line.            *)

Lines(n) == IF n <= LineBlocks THEN 1 ELSE (n + LineBlocks - 1) \div LineBlocks

DescTable(buf, n) ==
  [i \in 1 .. Lines(n) |->
     [addr |-> buf + (i - 1) * LineBlocks,
      len  |-> LET rest == n - (i - 1) * LineBlocks
               IN  IF rest < LineBlocks THEN rest ELSE 0]]

LineLen(line) == IF line.len = 0 THEN LineBlocks ELSE line.len

(* sdhci_send_command up to the command register.                          *)
WaitForLines ==
  /\ pc = "lines" /\ ~LinesFree
  /\ poll' = [poll EXCEPT !.retry = @ + 1,
                          !.ret = IF poll.retry + 1 = LineRetries THEN 1 ELSE 0]
  /\ pc' = IF poll'.ret = 1 THEN "answered" ELSE "lines"
  /\ UNCHANGED <<req, status, cmd, table, hardware, leftRunning>>

SendCommand ==
  /\ pc = "lines" /\ LinesFree
  /\ table' = IF HasData(cmd) THEN [live |-> TRUE, lines |-> DescTable(cmd.buf, cmd.n)]
                             ELSE NoTable
  /\ ctl' = [Idle EXCEPT !.cmd = "sent", !.run = [cmd EXCEPT !.n = @ % CountWidth]]
  /\ poll' = NoPoll /\ pc' = "command"
  /\ UNCHANGED <<req, status, cmd, sts, errs, card, moved, leftRunning>>

(* sdhci_cmd_complete, one round of the loop that waits for the command.   *)
PollCommand ==
  /\ pc = "command"
  /\ \/ /\ "cmd" \in sts
        /\ sts' = sts \ {"cmd"}
        /\ poll' = [poll EXCEPT !.retry = 0, !.resp = ctl.resp]
        /\ pc' = IF HasData(cmd) \/ IsBusy(cmd) THEN "transfer" ELSE "status"
     \/ /\ "cmd" \notin sts /\ errs # {}
        /\ pc' = "status" /\ UNCHANGED <<sts, poll>>
     \/ /\ "cmd" \notin sts /\ errs = {}
        /\ poll' = [poll EXCEPT !.retry = @ + 1,
                                !.ret = IF poll.retry + 1 = CmdRetries THEN 1 ELSE 0]
        /\ pc' = IF poll'.ret = 1 THEN "status" ELSE "command"
        /\ UNCHANGED sts
  /\ UNCHANGED <<req, status, cmd, table, ctl, errs, card, moved, leftRunning>>

(* The loop that waits for the transfer: the normal status, then, if it    *)
(* reports an error, the error status.  A data timeout is waited out.      *)
AgainUncounted ==            \* faulty: a round does not count
  poll' = [poll EXCEPT !.ret = 0] /\ pc' = "transfer"

Again ==
  /\ poll' = [poll EXCEPT !.retry = @ + 1,
                          !.ret = IF poll.retry + 1 = TransRetries THEN 1 ELSE 0]
  /\ pc' = IF poll'.ret = 1 THEN "status" ELSE "transfer"

PollTransfer ==
  /\ pc = "transfer"
  /\ \/ /\ "trans" \in sts
        /\ sts' = sts \ {"trans"} /\ poll' = [poll EXCEPT !.trans = TRUE]
        /\ pc' = "status"
     \/ "trans" \notin sts /\ errs # {} /\ pc' = "errors" /\ UNCHANGED <<sts, poll>>
     \/ "trans" \notin sts /\ errs = {} /\ Again /\ UNCHANGED sts
  /\ UNCHANGED <<req, status, cmd, table, ctl, errs, card, moved, leftRunning>>

PollErrors ==
  /\ pc = "errors"
  /\ \/ "DatTimeout" \in errs /\ Again
     \/ "DatTimeout" \notin errs /\ pc' = "status" /\ UNCHANGED poll
  /\ UNCHANGED <<req, status, cmd, table, hardware, leftRunning>>

(* The end of sdhci_cmd_complete and of sdhci_send_command: errors reset   *)
(* the lines, and the descriptor table is freed either way.                *)
LaxErrorCounts == "DatTimeout" \notin errs  \* faulty: timeouts never count

ErrorCounts == ~("DatTimeout" \in errs /\ poll.trans)

ResetCommandLine ==          \* faulty: the data line goes on
  /\ ctl' = [ctl EXCEPT !.cmd = "idle"]
  /\ sts' = {} /\ errs' = {}

ResetLinesOnly ==            \* faulty: the status registers keep their bits
  /\ ctl' = [ctl EXCEPT !.cmd = "idle", !.dat = "idle"]
  /\ UNCHANGED <<sts, errs>>

Reset ==
  /\ ctl' = [ctl EXCEPT !.cmd = "idle", !.dat = "idle"]
  /\ sts' = {} /\ errs' = {}

CheckStatus ==
  /\ pc = "status" /\ pc' = "answered"
  /\ \/ /\ errs # {} /\ Reset
        /\ poll' = [poll EXCEPT !.ret = IF ErrorCounts THEN 1 ELSE 0]
        /\ UNCHANGED leftRunning
     \/ /\ errs = {} /\ UNCHANGED <<poll, ctl, sts, errs>>
        /\ leftRunning' = (leftRunning \/ poll.ret = 1)
  /\ table' = [table EXCEPT !.live = FALSE]
  /\ UNCHANGED <<req, status, cmd, card, moved>>

-----------------------------------------------------------------------------
(* mmc_parse_response: 0 for a card that was ready and had no complaint.   *)
ParseResponse(resp) == IF resp = "tran" THEN 0 ELSE 1

(* mmc_sdhci_read and mmc_sdhci_write after the command, mmc_stop_command. *)
StopNeeded == cmd.kind \in DataKinds /\ poll.ret = 1 /\ cmd.n > 1

ChunkResult ==
  IF cmd.kind = "stop" /\ poll.ret = 1 THEN 1 ELSE ParseResponse(poll.resp)

StopTransfer ==
  /\ pc = "answered" /\ StopNeeded
  /\ cmd' = [NoCmd EXCEPT !.kind = "stop"] /\ poll' = NoPoll /\ pc' = "lines"
  /\ UNCHANGED <<req, status, table, hardware, leftRunning>>

ChunkDone ==
  /\ pc = "answered" /\ cmd.kind \in DataKinds \cup {"stop"} /\ ~StopNeeded
  /\ \/ /\ ChunkResult # 0
        /\ status' = "EFI_DEVICE_ERROR" /\ pc' = "return" /\ UNCHANGED req
     \/ /\ ChunkResult = 0
        /\ req' = [req EXCEPT !.at = @ + req.chunk]
        /\ \/ req'.at < req.n /\ pc' = "chunk" /\ UNCHANGED status
           \/ req'.at = req.n /\ pc' = "return" /\ status' = "EFI_SUCCESS"
  /\ UNCHANGED <<cmd, poll, table, hardware, leftRunning>>

SleepDone ==
  /\ pc = "answered"
  /\ \/ /\ cmd.kind = "deselect" /\ poll.ret = 0
        /\ cmd' = [NoCmd EXCEPT !.kind = "sleep"] /\ poll' = NoPoll /\ pc' = "lines"
     \/ /\ cmd.kind = "sleep" \/ (cmd.kind = "deselect" /\ poll.ret = 1)
        /\ pc' = "off" /\ UNCHANGED <<cmd, poll>>
  /\ UNCHANGED <<req, status, table, hardware, leftRunning>>

-----------------------------------------------------------------------------
(* External: the controller and the card.  A response tells the state the  *)
(* card was in when the command reached it.                                *)
Accepts(kind) ==
  CASE kind \in DataKinds -> {"tran"}
    [] kind = "stop"      -> {"data", "rcv"}
    [] kind = "sleep"     -> {"stby"}
    [] OTHER              -> {"tran", "data", "rcv", "stby", "slp"}

After(kind) ==
  CASE kind = "read"     -> "data"
    [] kind = "write"    -> "rcv"
    [] kind = "stop"     -> "tran"
    [] kind = "deselect" -> "stby"
    [] OTHER             -> "slp"

(* The card takes the command, or answers that it will not; the answer may *)
(* arrive garbled.                                                         *)
CardAnswers ==
  /\ ctl.cmd = "sent" /\ card \in Accepts(ctl.run.kind)
  /\ \E resp \in {card} \cup (IF HasData(ctl.run) THEN {"error"} ELSE {}) :
       /\ ctl' = [ctl EXCEPT !.cmd = "idle", !.resp = resp,
                             !.dat = IF HasData(ctl.run) \/ IsBusy(ctl.run) THEN "busy" ELSE "idle"]
       /\ card' = IF resp = "error" THEN card ELSE After(ctl.run.kind)
  /\ \/ sts' = sts \cup {"cmd"} /\ UNCHANGED errs
     \/ /\ ctl.run.kind # "deselect"
        /\ errs' = errs \cup {"CmdCrc"} /\ sts' \in {sts, sts \cup {"cmd"}}
  /\ UNCHANGED <<driver, moved, leftRunning>>

NoAnswer ==
  /\ ctl.cmd = "sent" /\ ctl.run.kind # "deselect"
  /\ ctl' = [ctl EXCEPT !.cmd = "idle"]
  /\ errs' = errs \cup {"CmdTimeout"}
  /\ UNCHANGED <<driver, sts, card, moved, leftRunning>>

(* One line of the descriptor table is transferred.                        *)
MoveLine ==
  /\ ctl.dat = "busy" /\ card \in {"data", "rcv"} /\ ctl.line \in DOMAIN table.lines
  /\ LET line  == table.lines[ctl.line]
         left  == ctl.run.n - ctl.done
         k     == IF LineLen(line) < left THEN LineLen(line) ELSE left
         block == ctl.run.lba + ctl.done
     IN  /\ moved' = moved \cup {<<block + i, line.addr + i>> : i \in 0 .. k - 1}
         /\ \/ /\ k < left
               /\ ctl' = [ctl EXCEPT !.line = @ + 1, !.done = @ + k]
               /\ UNCHANGED <<sts, card>>
            \/ /\ k = left
               /\ ctl' = [ctl EXCEPT !.dat = "idle", !.done = @ + k]
               /\ sts' = sts \cup {"trans"} /\ card' = "tran"
  /\ UNCHANGED <<driver, errs, leftRunning>>

BusyEnds ==
  /\ ctl.dat = "busy" /\ IsBusy(ctl.run)
  /\ ctl' = [ctl EXCEPT !.dat = "idle"] /\ sts' = sts \cup {"trans"}
  /\ UNCHANGED <<driver, errs, card, moved, leftRunning>>

(* The data timeout is reported and the transfer may still go on.          *)
DataTimesOut ==
  /\ ctl.dat = "busy" /\ errs' = errs \cup {"DatTimeout"}
  /\ UNCHANGED <<driver, ctl, sts, card, moved, leftRunning>>

DataFails ==
  /\ ctl.dat = "busy" /\ HasData(ctl.run)
  /\ ctl' = [ctl EXCEPT !.dat = "halted"]
  /\ card' = IF ctl.run.n = 1 THEN "tran" ELSE card
  /\ \E e \in {"DatCrc", "Adma"} : errs' = errs \cup {e}
  /\ UNCHANGED <<driver, sts, moved, leftRunning>>

(* The card has sent all that was asked for, though nobody took it.        *)
CardFinishes ==
  /\ card = "data" /\ ctl.dat # "busy" /\ card' = "tran"
  /\ UNCHANGED <<driver, ctl, sts, errs, moved, leftRunning>>

-----------------------------------------------------------------------------
DriverStep ==
  \/ Return \/ NextChunk \/ WaitForLines \/ SendCommand
  \/ PollCommand \/ PollTransfer \/ PollErrors \/ CheckStatus
  \/ StopTransfer \/ ChunkDone \/ SleepDone

HardwareStep ==
  \/ CardAnswers \/ NoAnswer \/ MoveLine \/ BusyEnds
  \/ DataTimesOut \/ DataFails \/ CardFinishes

Next ==
  \/ \E op \in DataKinds, lba \in Starts, n \in Sizes : Call(op, lba, n)
  \/ ExitBootServices
  \/ DriverStep
  \/ HardwareStep

(* The driver's loops run on whatever the hardware does; the hardware is   *)
(* not assumed to do anything.                                             *)
Spec == Init /\ [][Next]_vars /\ WF_vars(DriverStep)

-----------------------------------------------------------------------------
Labels == {"idle", "chunk", "lines", "command", "transfer", "errors", "status", "answered",
           "return", "off"}
Commands == [kind : DataKinds \cup {"none", "stop", "deselect", "sleep"},
             lba : Nat, buf : Nat, n : 0 .. MaxTrans]
Requests == [op : DataKinds \cup {"none"}, lba : Nat, n : Nat, at : Nat, chunk : 0 .. MaxTrans]
CardStates == {"tran", "data", "rcv", "stby", "slp"}
Responses == CardStates \cup {"none", "error"}
Polls == [retry : Nat, ret : {0, 1}, trans : BOOLEAN, resp : Responses]
Controllers == [cmd : {"idle", "sent"}, dat : {"idle", "busy", "halted"},
                line : Nat, done : Int, resp : Responses, run : Commands]

TypeOK ==
  /\ pc \in Labels /\ req \in Requests /\ cmd \in Commands /\ poll \in Polls
  /\ status \in {"none", "EFI_SUCCESS", "EFI_DEVICE_ERROR", "EFI_INVALID_PARAMETER",
                 "EFI_UNSUPPORTED"}
  /\ table \in [live : BOOLEAN, lines : Seq([addr : Int, len : Int])]
  /\ ctl \in Controllers /\ card \in CardStates
  /\ sts \subseteq {"cmd", "trans"}
  /\ errs \subseteq {"CmdTimeout", "CmdCrc", "DatTimeout", "DatCrc", "Adma"}
  /\ leftRunning \in BOOLEAN

AllBlocks == {<<req.lba + i, i>> : i \in 0 .. req.n - 1}

(* However a call is cut into commands and descriptor lines, block Lba + i *)
(* of the medium is only ever exchanged with block i of the buffer.        *)
TransfersWhereAsked == leftRunning \/ moved \subseteq AllBlocks

(* A call that reports success has transferred all its blocks, if it is    *)
(* carried out by commands of more than one block.                         *)
SuccessOfManyBlocks ==
  pc = "return" /\ status = "EFI_SUCCESS" /\ req.n % MaxTrans # 1 /\ ~leftRunning
    => moved = AllBlocks

(* The comment of mmc_read: 0 on success, non zero on failure.             *)
SuccessMeansMoved ==
  pc = "return" /\ status = "EFI_SUCCESS" /\ ~leftRunning => moved = AllBlocks

(* No command and no transfer outlives the call of sdhci_send_command that *)
(* started it, so that none uses a freed descriptor table or a buffer that *)
(* was given back - unless a poll ran out with no error to reset for.      *)
DmaWithinCommand ==
  ~LinesFree /\ ~leftRunning
    => pc \in {"command", "transfer", "errors", "status"} /\ (HasData(ctl.run) => table.live)

(* A command finds no trace of the one before it in the status registers:  *)
(* what it takes for its answer is its own.                                *)
CleanStart == pc = "lines" /\ LinesFree /\ ~leftRunning => sts = {} /\ errs = {}

(* Every call returns and the way to sleep ends, whatever the card does.   *)
CallsReturn == pc # "idle" ~> pc \in {"idle", "off"}
==============================================================================

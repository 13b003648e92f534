-------------------------------- MODULE I2cQup --------------------------------
(***************************************************************************)
(* qup_i2c_xfer and qup_i2c_interrupt of Driver/I2cQupDxe/i2c_qup.c.       *)
(* The driver packs messages, each byte with a tag, into the output FIFO   *)
(* of the QUP controller, which works through it on its own; the interrupt *)
(* handler runs between any two steps of the transfer.  FIFO entries are   *)
(* counted where the code counts bytes of two: idx here is *idx / 2, so a  *)
(* word is an even entry and the odd one after it.                         *)
(***************************************************************************)
EXTENDS Integers, FiniteSets, SequencesExt, FiniteSetsExt

CONSTANTS
  out_blk_sz, out_fifo_sz, \* entries of a block and of the output FIFO
  ReadLimit,               \* bytes of one read command, 256 in the code
  Transfers                \* the message arrays callers pass

ASSUME QupAssumption ==
  /\ out_blk_sz \in Nat /\ out_blk_sz > 2 /\ out_blk_sz % 2 = 0
  /\ out_fifo_sz \in Nat /\ out_fifo_sz >= 2 * out_blk_sz /\ out_fifo_sz % 2 = 0
  /\ ReadLimit \in Nat \ {0}
  /\ Transfers \subseteq Seq([addr : Nat, rd : BOOLEAN, len : Nat \ {0}]) \ {<<>>}

VARIABLES
  pc,
  msgs, msg,       \* the array; the number of the message `msgs' points at
  rem,             \* messages left, this one included
  pos, cnt,        \* dev->pos, dev->cnt
  wr_sz, filled,
  devmsg, err,     \* dev->msg, 0 for NULL; dev->err
  xfer_progress, masked,
  ret,             \* "none" while a transfer runs, "num" or "error"
  qstate, configured, \* the controller: its state; the I2C core is set up
  out, infifo,     \* its FIFOs
  due,             \* bytes of the read command still to be received
  flagged,         \* error in its status registers
  wire,            \* what it has done on the bus in this transfer
  sent,            \* bytes the slave has sent in this transfer
  got,             \* bytes stored in buffers: message, place, byte
  clean            \* no error was flagged in this transfer

position == <<msg, rem, pos, cnt>>
mode     == <<wr_sz, filled>>
irq      == <<xfer_progress, masked>>
fifos    == <<out, infifo, due>>
bus      == <<wire, sent>>
controller == <<qstate, configured, fifos, flagged, bus, clean>>
vars == <<pc, msgs, position, mode, devmsg, err, irq, ret, controller, got>>

Errors == {"none", "nack", "bus", "qup"}
I2cErrors == {"nack", "bus"}  \* flags of QUP_I2C_STATUS: positive in dev->err

(* An entry, with the place in message m the bus has come to after it; a   *)
(* read command has the number of its bytes too.                           *)
Item(tag, m, n) == [tag |-> tag, msg |-> m, n |-> n, bytes |-> 0]
Command(tag, m, n, bytes) == [tag |-> tag, msg |-> m, n |-> n + bytes, bytes |-> bytes]
Odd(n) == n % 2 = 1

Init ==
  /\ pc = "idle" /\ ret = "none"
  /\ msgs = <<>> /\ msg = 0 /\ rem = 0 /\ pos = 0 /\ cnt = 0
  /\ wr_sz = 0 /\ filled = FALSE /\ devmsg = 0 /\ err = "none"
  /\ xfer_progress = FALSE /\ masked = TRUE
  /\ qstate = "reset" /\ configured = FALSE /\ out = <<>> /\ infifo = <<>> /\ due = 0
  /\ flagged = "none" /\ wire = <<>> /\ sent = 0 /\ got = <<>> /\ clean = TRUE

Goto(label) == pc' = label
Fails == pc' = "out" /\ ret' = "error"

(* What entering RESET_STATE does to the controller.                       *)
Flushed == out' = <<>> /\ infifo' = <<>> /\ due' = 0

-----------------------------------------------------------------------------
(* Packing.  s has the loop's variables: msg, rem, pos, cnt, idx, carry    *)
(* (an entry that waits for its other half), filled, and put, the entries  *)
(* written so far.                                                         *)

(* The other half that goes out with the first entry of a message.         *)
Held(s) == IF Odd(s.idx) THEN s.carry ELSE <<>>

(* Faulty: forgets the half-written word.                                  *)
IssueReadBare(s) ==
  [s EXCEPT !.idx = @ + 2,
            !.put = @ \o <<Item("start", s.msg, s.pos), Command("rec", s.msg, s.pos, s.cnt)>>]

(* Start and command in different blocks: an extra byte may be read.       *)
IssueRead(s) ==
  LET rec == Command(IF s.idx + 1 >= wr_sz THEN "split" ELSE "rec", s.msg, s.pos, s.cnt)
  IN  [s EXCEPT !.idx = @ + 2, !.put = @ \o Held(s) \o <<Item("start", s.msg, s.pos), rec>>]

(* The write at hand leaves one entry of the block, and a read of the same *)
(* address follows, whose start would be parted from its command.          *)
ReadLeftOneAhead(s, slot) ==  \* faulty: where that would be an entry later
  /\ s.rem > 1 /\ slot = wr_sz - 1
  /\ msgs[s.msg + 1].addr = msgs[s.msg].addr /\ msgs[s.msg + 1].rd
ReadLeftOne(s, slot) ==
  /\ s.rem > 1 /\ slot = wr_sz - 2
  /\ msgs[s.msg + 1].addr = msgs[s.msg].addr /\ msgs[s.msg + 1].rd

IssueWrite(s) ==
  LET m == msgs[s.msg]
      lead == IF s.pos = 0 THEN Held(s) \o <<Item("start", s.msg, 0)>>
              ELSE <<Item("nop", s.msg, s.pos)>>
      entries == Min({s.cnt + 1, wr_sz - s.idx})
      bytes == Max({entries - 1, 1})
      slot == s.idx + bytes
      end == s.pos + bytes
      body == lead \o [i \in 1 .. bytes - 1 |-> Item("data", s.msg, s.pos + i)]
      final == Item(IF end < m.len \/ s.rem > 1 THEN "data" ELSE "stop", s.msg, end)
      addressEnds == end = m.len /\ slot < wr_sz /\ msgs[s.msg + 1].addr # m.addr
      written(tail, width, carry) ==
        [s EXCEPT !.put = @ \o body \o tail, !.idx = slot + width, !.carry = carry,
                  !.pos = end, !.cnt = m.len - end]
  IN  CASE Odd(slot) \/ s.rem <= 1 -> written(<<final>>, 1, s.carry)
        [] ~Odd(slot) /\ ReadLeftOne(s, slot) -> written(<<final, Item("nop", s.msg, end)>>, 2, s.carry)
        [] ~Odd(slot) /\ s.rem > 1 /\ ~ReadLeftOne(s, slot) ->
             IF addressEnds THEN written(<<Item("stop", s.msg, end)>>, 2, s.carry)
                            ELSE written(<<>>, 1, <<final>>)

(* After each message: the block is full, or the next message to the same  *)
(* address follows in it.                                                  *)
NextToFill(s) ==
  LET full == s.idx >= wr_sz
      joins == ~full /\ ~msgs[s.msg].rd /\ s.rem > 1 /\ msgs[s.msg + 1].addr = msgs[s.msg].addr
  IN  IF joins
      THEN [s EXCEPT !.rem = @ - 1, !.msg = @ + 1, !.pos = 0,
                     !.cnt = Min({msgs[s.msg + 1].len, ReadLimit})]
      ELSE [s EXCEPT !.filled = TRUE]

Issue(s) == NextToFill(IF msgs[s.msg].rd THEN IssueRead(s) ELSE IssueWrite(s))

(* At most one turn per message.                                           *)
Unpacked == [msg |-> msg, rem |-> rem, pos |-> pos, cnt |-> cnt, idx |-> 0,
             carry |-> <<>>, filled |-> filled, put |-> <<>>]
Packed ==
  LET turn[k \in 0 .. Len(msgs)] ==
        IF k = 0 THEN Unpacked
        ELSE IF turn[k - 1].filled THEN turn[k - 1] ELSE Issue(turn[k - 1])
  IN  turn[Len(msgs)]

-----------------------------------------------------------------------------
(* qup_i2c_xfer                                                            *)

(* Nothing of the last transfer is left in the controller after the        *)
(* software reset; if it does not come out of reset its core is not set up *)
(* and the next poll for it fails.                                         *)
Xfer ==
  /\ pc = "idle"
  /\ msgs' \in Transfers
  /\ xfer_progress' = TRUE /\ masked' = FALSE /\ ret' = "none"
  /\ msg' = 1 /\ rem' = Len(msgs')
  /\ configured' \in BOOLEAN /\ qstate' = "reset" /\ flagged' = "none" /\ Flushed
  /\ wire' = <<>> /\ sent' = 0 /\ got' = <<>> /\ clean' = TRUE
  /\ Goto("message")
  /\ UNCHANGED <<pos, cnt, mode, devmsg, err>>

(* The messages qup_set_wr_mode counts with the one at hand.               *)
WrittenAlong == {m \in msg + 1 .. msg + rem - 1 :
                   \A k \in msg + 1 .. m : ~msgs[k].rd /\ msgs[k].addr = msgs[msg].addr}
BlockMode ==
  /\ ~msgs[msg].rd
  /\ MapThenSumSet(LAMBDA m : msgs[m].len + 1, WrittenAlong) + msgs[msg].len >= out_fifo_sz - 1

(* From the top of while (rem) to the first QUP_RUN_STATE.                 *)
StartMessage ==
  /\ pc = "message"
  /\ devmsg' = msg /\ err' = "none"
  /\ LET left == msgs[msg].len - pos
     IN  cnt' = IF msgs[msg].rd THEN Min({left, ReadLimit}) ELSE left
  /\ wr_sz' = IF BlockMode THEN out_blk_sz ELSE out_fifo_sz
  /\ filled' = BlockMode
  /\ \/ configured /\ qstate' = "run" /\ Goto("pause") /\ UNCHANGED ret
     \/ Fails /\ UNCHANGED qstate
  /\ UNCHANGED <<msgs, msg, rem, pos, irq, configured, fifos, flagged, bus, clean, got>>

(* "Transition to PAUSE state only possible from RUN"                      *)
Pause ==
  /\ pc = "pause"
  /\ \/ qstate = "run" /\ qstate' = "pause" /\ Goto("fill") /\ UNCHANGED ret
     \/ Fails /\ UNCHANGED qstate
  /\ UNCHANGED <<msgs, position, mode, devmsg, err, irq, configured, fifos, flagged, bus, clean, got>>

(* while (filled == false); entries that do not fit are lost and flagged.  *)
Fill ==
  /\ pc = "fill"
  /\ LET s == Packed
         room == out_fifo_sz - Len(out)
         overrun == Len(s.put) > room
     IN  /\ msg' = s.msg /\ rem' = s.rem /\ pos' = s.pos /\ cnt' = s.cnt
         /\ filled' = TRUE /\ devmsg' = IF s.msg = msg THEN devmsg ELSE s.msg
         /\ out' = out \o SubSeq(s.put, 1, Min({room, Len(s.put)}))
         /\ flagged' = IF overrun THEN "qup" ELSE flagged
         /\ clean' = (clean /\ ~overrun)
  /\ Goto("run")
  /\ UNCHANGED <<msgs, wr_sz, err, irq, ret, qstate, configured, infifo, due, bus, got>>

Run ==
  /\ pc = "run"
  /\ \/ qstate' = "run" /\ Goto("check") /\ UNCHANGED ret
     \/ Fails /\ UNCHANGED qstate
  /\ UNCHANGED <<msgs, position, mode, devmsg, err, irq, configured, fifos, flagged, bus, clean, got>>

(* if (dev->err): an I2C error other than a missing acknowledgement is     *)
(* followed by the recovery of the bus.                                    *)
CheckError ==
  /\ pc = "check" /\ err # "none"
  /\ ret' = "error"
  /\ Goto(IF err = "bus" THEN "recover" ELSE "out")
  /\ UNCHANGED <<msgs, position, mode, devmsg, err, irq, controller, got>>

(* The bytes the loop takes: all there are, up to the end of the buffer.   *)
(* The loop reads words of two bytes, tests QUP_IN_NOT_EMPTY for the lower *)
(* half only and takes the upper half unseen.  The model counts bytes: the *)
(* controller is taken to show a word when both halves are in it, or when  *)
(* the read ends with the lower one.                                       *)
Taken == Min({Len(infifo), msgs[devmsg].len - pos})
CountDownNot(n) == n \in Nat /\ cnt' = cnt   \* faulty: what is taken is not counted
CountDown(n) == cnt' = cnt - n

TakeInput ==
  /\ pc = "check" /\ err = "none" /\ msgs[devmsg].rd
  /\ got' = got \o [i \in 1 .. Taken |-> [msg |-> devmsg, pos |-> pos + i, byte |-> infifo[i]]]
  /\ infifo' = SubSeq(infifo, Taken + 1, Len(infifo))
  /\ pos' = pos + Taken
  /\ CountDown(Taken)
  /\ Goto(IF cnt' > 0 THEN "pause" ELSE "end")
  /\ UNCHANGED <<msgs, msg, rem, mode, devmsg, err, irq, ret, qstate, configured, out, due, flagged, bus, clean>>

Refill ==
  /\ pc = "check" /\ err = "none" /\ ~msgs[devmsg].rd
  /\ filled' = FALSE
  /\ Goto(IF cnt > 0 THEN "pause" ELSE "end")
  /\ UNCHANGED <<msgs, position, wr_sz, devmsg, err, irq, ret, controller, got>>

(* qup_i2c_poll_clock_ready                                                *)
ClockReady == out = <<>> /\ due = 0

(* After the inner loop: on to the next message, which the controller      *)
(* starts from RESET_STATE.                                                *)
EndMessage ==
  LET over == cnt = 0 /\ msgs[msg].len = pos
      left == IF over THEN rem - 1 ELSE rem
  IN  /\ pc = "end"
      /\ rem' = left
      /\ msg' = IF over THEN msg + 1 ELSE msg
      /\ pos' = IF over THEN 0 ELSE pos
      /\ \/ /\ cnt # 0 \/ left = 0
            /\ Goto("ready") /\ UNCHANGED <<ret, qstate, fifos, flagged>>
         \/ /\ cnt = 0 /\ left > 0 /\ ClockReady
            /\ qstate' = "reset" /\ Flushed
            /\ flagged' = IF flagged \in I2cErrors THEN "none" ELSE flagged
            /\ Goto("ready") /\ UNCHANGED ret
         \/ /\ cnt = 0 /\ left > 0
            /\ Fails /\ UNCHANGED <<qstate, fifos, flagged>>
      /\ UNCHANGED <<msgs, cnt, mode, devmsg, err, irq, configured, bus, clean, got>>

(* The bus is busy until the FIFO is worked off, unless an error stops it. *)
BusActive == qstate = "run" /\ flagged = "none" /\ ~ClockReady

(* qup_i2c_poll_writeready, then the end of while (rem).                   *)
WriteReady == (msgs[devmsg].rd \/ rem = 0) => ~BusActive
PollWriteReady ==
  /\ pc = "ready"
  /\ \/ WriteReady /\ rem > 0 /\ Goto("message") /\ UNCHANGED ret
     \/ WriteReady /\ rem = 0 /\ Goto("out") /\ ret' = "num"
     \/ Fails
  /\ UNCHANGED <<msgs, position, mode, devmsg, err, irq, controller, got>>

(* qup_i2c_recover_bus_busy: each of its tries resets the controller.      *)
RecoverBusBusy ==
  /\ pc = "recover"
  /\ configured' \in BOOLEAN /\ qstate' \in {"reset", "run"} /\ flagged' = "none" /\ Flushed
  /\ masked' = FALSE
  /\ Goto("out")
  /\ UNCHANGED <<msgs, position, mode, devmsg, err, xfer_progress, ret, bus, clean, got>>

(* out_err:                                                                *)
OutErr ==
  /\ pc = "out"
  /\ masked' = TRUE /\ xfer_progress' = FALSE
  /\ devmsg' = 0 /\ pos' = 0 /\ err' = "none" /\ cnt' = 0
  /\ Goto("idle")
  /\ UNCHANGED <<msgs, msg, rem, mode, ret, controller, got>>

-----------------------------------------------------------------------------
(* qup_i2c_interrupt; one interrupt, level triggered.                      *)

Handles == ~masked /\ xfer_progress /\ devmsg # 0

ErrorInterrupt ==
  /\ Handles /\ flagged # "none"
  /\ err' = flagged /\ flagged' = "none"
  /\ \/ flagged \in I2cErrors /\ qstate' = "reset" /\ Flushed
     \/ flagged \notin I2cErrors /\ UNCHANGED <<qstate, fifos>>
  /\ UNCHANGED <<pc, msgs, position, mode, devmsg, irq, ret, configured, bus, clean, got>>

(* An interrupt without an error stores that there is none.                *)
ServiceInterrupt ==
  /\ Handles /\ flagged = "none" /\ qstate = "run"
  /\ msgs[devmsg].rd => infifo # <<>>
  /\ err' = "none"
  /\ UNCHANGED <<pc, msgs, position, mode, devmsg, irq, ret, controller, got>>

-----------------------------------------------------------------------------
(* The controller and the bus (external): in RUN_STATE it works through    *)
(* the FIFO in order until an error is flagged.                            *)

ControllerWorks == qstate = "run" /\ flagged = "none"

TakeEntry ==
  /\ ControllerWorks /\ out # <<>> /\ due = 0
  /\ LET item == Head(out)
     IN  /\ wire' = IF item.tag = "nop" THEN wire ELSE Append(wire, item)
         /\ due' = item.bytes + (IF item.tag = "split" THEN 1 ELSE 0)
  /\ out' = Tail(out)
  /\ UNCHANGED <<pc, msgs, position, mode, devmsg, err, irq, ret, qstate, configured, infifo, flagged, sent, clean, got>>

ReceiveByte ==
  /\ ControllerWorks /\ due > 0
  /\ due' = due - 1 /\ sent' = sent + 1 /\ infifo' = Append(infifo, sent + 1)
  /\ UNCHANGED <<pc, msgs, position, mode, devmsg, err, irq, ret, qstate, configured, out, flagged, wire, clean, got>>

BusError ==
  /\ ControllerWorks /\ ~ClockReady
  /\ flagged' \in Errors \ {"none"} /\ clean' = FALSE
  /\ UNCHANGED <<pc, msgs, position, mode, devmsg, err, irq, ret, qstate, configured, fifos, bus, got>>

Driver == \/ StartMessage \/ Pause \/ Fill \/ Run \/ CheckError \/ TakeInput \/ Refill
          \/ EndMessage \/ PollWriteReady \/ RecoverBusBusy \/ OutErr
Interrupt == ErrorInterrupt \/ ServiceInterrupt
Controller == TakeEntry \/ ReceiveByte \/ BusError

Next == Xfer \/ Driver \/ Interrupt \/ Controller
Spec == Init /\ [][Next]_vars
(* The driver runs on, interrupts are delivered, and the controller, which *)
(* each turn of the driver's loop pauses and lets run again, gets on.      *)
FairSpec == /\ Spec /\ WF_vars(Driver) /\ WF_vars(ErrorInterrupt)
            /\ SF_vars(TakeEntry) /\ SF_vars(ReceiveByte)

-----------------------------------------------------------------------------
(* The entry that is due on the bus after entry e: a message begins with   *)
(* its start, bytes follow one by one, and reads are commands of at most   *)
(* ReadLimit bytes, each after a start of its own.                         *)
Following(e) ==
  LET m == msgs[e.msg]
  IN  CASE m.rd /\ e.tag = "start" -> Command("rec", e.msg, e.n, Min({m.len - e.n, ReadLimit}))
        [] m.rd /\ e.tag # "start" /\ e.n < m.len -> Item("start", e.msg, e.n)
        [] ~m.rd /\ e.n < m.len -> Item("data", e.msg, e.n + 1)
        [] e.n = m.len /\ ~(m.rd /\ e.tag = "start") -> Item("start", e.msg + 1, 0)

(* With or without its stop.                                               *)
Plain(item) == IF item.tag = "stop" THEN [item EXCEPT !.tag = "data"] ELSE item

Succeeded == pc = "idle" /\ ret = "num"

(* However messages are cut into blocks and blocks into words, as long as  *)
(* no error shows, what reaches the bus is the messages, byte by byte, and *)
(* all of them when the transfer succeeds; a stop ends the last message or *)
(* one before another address, and nothing else.                           *)
WireFollowsMessages ==
  clean =>
    /\ \A i \in 1 .. Len(wire) :
         /\ Plain(wire[i]) = IF i = 1 THEN Item("start", 1, 0) ELSE Following(wire[i - 1])
         /\ wire[i].msg <= Len(msgs)
    /\ Succeeded => /\ wire # <<>> /\ Last(wire).tag # "start"
                    /\ Last(wire).msg = Len(msgs) /\ Last(wire).n = msgs[Len(msgs)].len
    /\ \A i \in 1 .. Len(wire) : wire[i].tag = "stop" =>
         LET m == wire[i].msg
         IN  wire[i].n = msgs[m].len /\ (m < Len(msgs) => msgs[m + 1].addr # msgs[m].addr)

(* A transfer that succeeds has stored every byte the slave sent, once, in *)
(* order, in the buffers of the messages that read, and has had the slave  *)
(* send no other; also when an error in between was missed.                *)
ReadIntact ==
  Succeeded =>
    /\ sent = Len(got)
    /\ \A i \in 1 .. Len(got) :
         /\ got[i].byte = i /\ msgs[got[i].msg].rd
         /\ i > 1 => \/ got[i - 1].msg < got[i].msg
                     \/ got[i - 1].msg = got[i].msg /\ got[i - 1].pos < got[i].pos
    /\ \A m \in 1 .. Len(msgs) : msgs[m].rd =>
         \A p \in 1 .. msgs[m].len : \E i \in 1 .. Len(got) : got[i].msg = m /\ got[i].pos = p

(* Every transfer comes to its end, whatever errors the bus shows.         *)
XferEnds == (pc # "idle") ~> (pc = "idle")
==============================================================================

----------------------------- MODULE SmdChannel -----------------------------
(***************************************************************************)
(* The shared-memory channel between the application processor and the     *)
(* RPM processor: Driver/SmdRpmDxe (smd.c, rpm-smd.c, Driver.c).           *)
(*                                                                         *)
(* Three parties run concurrently:                                         *)
(*   - the driver's main line (RpmDxeInitialize, its clients and the       *)
(*     ExitBootServices callback), one step per access another party can   *)
(*     observe;                                                            *)
(*   - smd_irq_handler, which preempts the main line at any step and runs  *)
(*     to completion before it continues, while the RPM goes on;           *)
(*   - the RPM, which is external: it wakes at a doorbell, follows the     *)
(*     stream state it reads in ch0, answers requests, and interrupts.     *)
(* Packets are whole here; SmdReceive has the words of the receive FIFO.   *)
(***************************************************************************)
EXTENDS Naturals, Sequences

CONSTANTS
  ChannelAccessRetry, \* SMD_CHANNEL_ACCESS_RETRY
  ExitPollLimit,      \* polls before smd_uninit_exit_bs resets the machine
  MaxRequests,        \* bound: requests sent in one behaviour
  Builds,             \* values of PcdInstallRpmProtocol
  StallSettles        \* gBS->Stall(100) before smd_uninit outlasts every
                      \* doorbell and interrupt the request has caused

ASSUME SmdAssumption ==
  /\ ChannelAccessRetry \in Nat \ {0}
  /\ ExitPollLimit \in Nat
  /\ MaxRequests \in Nat \ {0}
  /\ Builds \subseteq BOOLEAN
  /\ StallSettles \in BOOLEAN

VARIABLES
  InstallRpmProtocol, \* PcdInstallRpmProtocol of this build
  ch0State,    \* ch0.stream_state, written by the application processor
  ch1State,    \* ch1.stream_state, written by the RPM
  req,         \* requests in the send FIFO the RPM has not read, by msg_id
  ack,         \* acknowledgements in the receive FIFO not yet read
  doorbell,    \* the RPM's interrupt, raised by smd_notify_rpm
  rpmBusy,     \* the RPM is serving a doorbell
  irqPending,  \* PcdSmdIrq is pending at the interrupt controller
  irqMasked,   \* ... and masked
  tableReady,  \* the RPM has put the channel into the allocation table
  current,     \* smd_channel_info_t.current_state
  hpc,         \* where smd_irq_handler stands
  pc,          \* where the main line stands
  probes,      \* timeout of smd_init
  polls,       \* TimeoutCount of smd_uninit_exit_bs
  msgId,       \* msg_id of rpm-smd.c
  ret,         \* what smd_write returned
  answered,    \* the msg_id of the last acknowledgement read
  closedEvent, \* the event smd_closed is signalled
  allocFreed,  \* smd_channel_alloc_freed
  exiting      \* smd_exit_bs_in_progress

shared == <<ch0State, ch1State, req, ack>>
irq    == <<doorbell, rpmBusy, irqPending, irqMasked, tableReady>>
local  == <<probes, polls, msgId, ret, answered>>
flags  == <<closedEvent, allocFreed, exiting, InstallRpmProtocol>>
vars   == <<shared, irq, local, flags, current, hpc, pc>>

Streams == {"CLOSED", "OPENING", "OPENED", "CLOSING"}

HandlerPcs == {"idle", "compare", "sync", "close"}

MainPcs ==
  {"probe", "opening", "opening_commit", "opening_ring",
   "send", "send_ring", "recv", "recv_wait", "read_done", "check", "stall",
   "idle", "closing", "closing_commit", "closing_ring",
   "wait_closed", "exit_poll", "finished", "asserted", "reset"}

(***************************************************************************)
(* smd_set_state: what becomes of ch0.stream_state when its value is cur   *)
(* and the state target is asked for.  current_state becomes target        *)
(* whether or not ch0 followed.                                            *)
(***************************************************************************)
NextStream(cur, target) ==
  CASE target = "CLOSED"                                -> IF cur = "OPENED" THEN "CLOSING" ELSE "CLOSED"
    [] target = "OPENING" /\ cur \in {"CLOSING", "CLOSED"} -> "OPENING"
    [] target = "OPENED"  /\ cur = "OPENING"            -> "OPENED"
    [] target = "CLOSING" /\ cur = "OPENED"             -> "CLOSING"
    [] OTHER                                            -> cur

is_channel_open == ch0State = "OPENED" /\ ch1State = "OPENED"

Init ==
  /\ InstallRpmProtocol \in Builds
  /\ \E s \in {"CLOSED", "OPENED"} : ch0State = s /\ ch1State = s
  /\ req = <<>> /\ ack = <<>>
  /\ doorbell = FALSE /\ rpmBusy = FALSE
  /\ irqPending = FALSE /\ irqMasked = TRUE
  /\ tableReady = FALSE
  /\ current = "CLOSED"
  /\ hpc = "idle" /\ pc = "probe"
  /\ probes = ChannelAccessRetry /\ polls = 0
  /\ msgId = 0 /\ ret = 0 /\ answered = 0
  /\ closedEvent = FALSE /\ allocFreed = FALSE /\ exiting = FALSE

-----------------------------------------------------------------------------
(* The main line.  It moves only while the handler is not running.         *)

Goto(from, to) == hpc = "idle" /\ pc = from /\ pc' = to /\ UNCHANGED hpc

(* One turn of the loop of smd_init: the countdown is tested after it was  *)
(* taken down, whether or not this turn found the channel.                 *)
Probe ==
  /\ Goto("probe", IF probes = 1 THEN "asserted"
                   ELSE IF tableReady THEN "opening" ELSE "probe")
  /\ probes' = probes - 1
  /\ UNCHANGED <<shared, irq, flags, current, polls, msgId, ret, answered>>

(* smd_set_state writes ch0 first ...                                      *)
OpeningWrite ==
  /\ Goto("opening", "opening_commit")
  /\ ch0State' = NextStream(ch0State, "OPENING")
  /\ UNCHANGED <<ch1State, req, ack, irq, local, flags, current>>

(* ... and current_state after it.                                         *)
OpeningCommit ==
  /\ Goto("opening_commit", "opening_ring")
  /\ current' = "OPENING"
  /\ UNCHANGED <<shared, irq, local, flags>>

(* smd_notify_rpm, then unmask_interrupt.  RpmDxeInitialize goes on to     *)
(* rpm_5vsw_enable at once.                                                *)
OpeningRing ==
  /\ Goto("opening_ring", "send")
  /\ doorbell' = TRUE
  /\ irqMasked' = FALSE
  /\ UNCHANGED <<shared, rpmBusy, irqPending, tableReady, local, flags, current>>

(* rpm_smd_send_data(RPM_REQUEST_TYPE) up to the flags smd_write sets.     *)
SendWrite ==
  /\ msgId' = msgId + 1
  /\ \/ /\ is_channel_open
        /\ Goto("send", "send_ring")
        /\ req' = Append(req, msgId + 1)
        /\ ret' = 0
     \/ /\ ~is_channel_open
        /\ Goto("send", "recv")
        /\ ret' = 1
        /\ UNCHANGED req
  /\ UNCHANGED <<ch0State, ch1State, ack, irq, flags, current, probes, polls, answered>>

SendRing ==
  /\ Goto("send_ring", "recv")
  /\ doorbell' = TRUE
  /\ UNCHANGED <<shared, rpmBusy, irqPending, irqMasked, tableReady, local, flags, current>>

(* Faulty: the answer to a request is not read.                            *)
RecvSkipped ==
  /\ Goto("recv", "check")
  /\ UNCHANGED <<shared, irq, local, flags, current>>

(* smd_read is entered whatever smd_write returned; without the RPM's DTR  *)
(* it asserts.                                                             *)
RecvEnter ==
  /\ Goto("recv", IF ch1State = "OPENED" THEN "recv_wait" ELSE "asserted")
  /\ UNCHANGED <<shared, irq, local, flags, current>>

(* Faulty: smd_read may give up waiting.                                   *)
RecvGivesUp ==
  \/ Goto("recv_wait", "read_done") /\ UNCHANGED <<shared, irq, local, flags, current>>
  \/ /\ ack # <<>>
     /\ Goto("recv_wait", "read_done")
     /\ answered' = Head(ack) /\ ack' = Tail(ack)
     /\ UNCHANGED <<ch0State, ch1State, req, irq, flags, current, probes, polls, msgId, ret>>

(* smd_read spins until a packet is in the receive FIFO.                   *)
RecvPacket ==
  /\ ack # <<>>
  /\ Goto("recv_wait", "read_done")
  /\ answered' = Head(ack)
  /\ ack' = Tail(ack)
  /\ UNCHANGED <<ch0State, ch1State, req, irq, flags, current, probes, polls, msgId, ret>>

(* smd_signal_read_complete.                                               *)
SignalReadComplete ==
  /\ Goto("read_done", "check")
  /\ doorbell' = TRUE
  /\ UNCHANGED <<shared, rpmBusy, irqPending, irqMasked, tableReady, local, flags, current>>

(* ASSERT(rpm_send_data(...) == 0) around every request of Driver.c.       *)
CheckResult ==
  /\ Goto("check", IF ret = 0 THEN "stall" ELSE "asserted")
  /\ UNCHANGED <<shared, irq, local, flags, current>>

(* gBS->Stall(100).  Without the RPM protocol rpm_smd_uninit follows, which*)
(* creates the event smd_closed.                                           *)
Stall ==
  /\ Goto("stall", IF InstallRpmProtocol THEN "idle" ELSE "closing")
  /\ StallSettles /\ ~InstallRpmProtocol => ~doorbell /\ ~rpmBusy /\ ~irqPending
  /\ UNCHANGED <<shared, irq, local, flags, current>>

(* A client of the protocol sends another request.                         *)
ClientSend ==
  /\ msgId < MaxRequests
  /\ Goto("idle", "send")
  /\ UNCHANGED <<shared, irq, local, flags, current>>

(* RpmDxeDeInitialize enters smd_uninit_exit_bs.                           *)
ExitBootServices ==
  /\ Goto("idle", "closing")
  /\ exiting' = TRUE
  /\ UNCHANGED <<shared, irq, local, closedEvent, allocFreed, InstallRpmProtocol, current>>

ClosingWrite ==
  /\ Goto("closing", "closing_commit")
  /\ ch0State' = NextStream(ch0State, "CLOSING")
  /\ UNCHANGED <<ch1State, req, ack, irq, local, flags, current>>

ClosingCommit ==
  /\ Goto("closing_commit", "closing_ring")
  /\ current' = "CLOSING"
  /\ UNCHANGED <<shared, irq, local, flags>>

(* Faulty: smd_uninit does not tell the RPM.                               *)
ClosingRingSilent ==
  /\ Goto("closing_ring", IF exiting THEN "exit_poll" ELSE "wait_closed")
  /\ UNCHANGED <<shared, irq, local, flags, current>>

ClosingRing ==
  /\ Goto("closing_ring", IF exiting THEN "exit_poll" ELSE "wait_closed")
  /\ doorbell' = TRUE
  /\ UNCHANGED <<shared, rpmBusy, irqPending, irqMasked, tableReady, local, flags, current>>

(* WaitForEvent(smd_closed) of smd_uninit.                                 *)
WaitClosed ==
  /\ closedEvent
  /\ Goto("wait_closed", "finished")
  /\ closedEvent' = FALSE
  /\ UNCHANGED <<shared, irq, local, allocFreed, exiting, InstallRpmProtocol, current>>

(* One turn of the loop of smd_uninit_exit_bs.                             *)
ExitPoll ==
  /\ \/ allocFreed /\ Goto("exit_poll", "finished") /\ UNCHANGED polls
     \/ ~allocFreed /\ polls > ExitPollLimit /\ Goto("exit_poll", "reset") /\ UNCHANGED polls
     \/ ~allocFreed /\ polls <= ExitPollLimit /\ Goto("exit_poll", "exit_poll") /\ polls' = polls + 1
  /\ UNCHANGED <<shared, irq, flags, current, probes, msgId, ret, answered>>

Main ==
  \/ Probe \/ OpeningWrite \/ OpeningCommit \/ OpeningRing
  \/ SendWrite \/ SendRing \/ RecvEnter \/ RecvPacket \/ SignalReadComplete
  \/ CheckResult \/ Stall \/ ClientSend \/ ExitBootServices
  \/ ClosingWrite \/ ClosingCommit \/ ClosingRing \/ WaitClosed \/ ExitPoll

-----------------------------------------------------------------------------
(* smd_irq_handler.  The interrupt is acknowledged on entry; the handler   *)
(* reads ch1.stream_state twice, and the RPM may write it in between.      *)

HandlerEnter ==
  /\ irqPending /\ ~irqMasked
  /\ hpc = "idle" /\ pc # "reset"
  /\ irqPending' = FALSE
  /\ hpc' = "compare"
  /\ UNCHANGED <<shared, doorbell, rpmBusy, irqMasked, tableReady, local, flags, current, pc>>

HandlerCompare ==
  /\ hpc = "compare"
  /\ \/ /\ current = "CLOSED"
        /\ closedEvent' = (closedEvent \/ ~exiting)
        /\ allocFreed' = TRUE
        /\ hpc' = "idle"
     \/ /\ current # "CLOSED"
        /\ hpc' = IF current # ch1State THEN "sync"
                  ELSE IF current = "CLOSING" THEN "close" ELSE "idle"
        /\ UNCHANGED <<closedEvent, allocFreed>>
  /\ UNCHANGED <<shared, irq, local, exiting, InstallRpmProtocol, current, pc>>

(* smd_set_state(ch1.stream_state, 0)                                      *)
HandlerSync ==
  /\ hpc = "sync"
  /\ ch0State' = NextStream(ch0State, ch1State)
  /\ current' = ch1State
  /\ hpc' = IF ch1State = "CLOSING" THEN "close" ELSE "idle"
  /\ UNCHANGED <<ch1State, req, ack, irq, local, flags, pc>>

(* Faulty: the event is signalled here, not at the RPM's next interrupt.   *)
HandlerCloseSignals ==
  /\ hpc = "close"
  /\ ch0State' = NextStream(ch0State, "CLOSED")
  /\ current' = "CLOSED"
  /\ doorbell' = TRUE
  /\ allocFreed' = TRUE /\ closedEvent' = ~exiting
  /\ hpc' = "idle"
  /\ UNCHANGED <<ch1State, req, ack, rpmBusy, irqPending, irqMasked, tableReady, local, exiting, InstallRpmProtocol, pc>>

(* Faulty: the RPM is not told that ch0 is closed.                         *)
HandlerCloseSilent ==
  /\ hpc = "close"
  /\ ch0State' = NextStream(ch0State, "CLOSED")
  /\ current' = "CLOSED"
  /\ allocFreed' = TRUE
  /\ hpc' = "idle"
  /\ UNCHANGED <<ch1State, req, ack, irq, local, closedEvent, exiting, InstallRpmProtocol, pc>>

(* smd_set_state(SMD_SS_CLOSED, 1), smd_notify_rpm, alloc_freed.           *)
HandlerClose ==
  /\ hpc = "close"
  /\ ch0State' = NextStream(ch0State, "CLOSED")
  /\ current' = "CLOSED"
  /\ doorbell' = TRUE
  /\ allocFreed' = TRUE
  /\ hpc' = "idle"
  /\ UNCHANGED <<ch1State, req, ack, rpmBusy, irqPending, irqMasked, tableReady, local, closedEvent, exiting, InstallRpmProtocol, pc>>

Handler == HandlerEnter \/ HandlerCompare \/ HandlerSync \/ HandlerClose

-----------------------------------------------------------------------------
(* The RPM (external).                                                     *)

(* The state the RPM moves its stream to on reading ch0State.              *)
Follow(s0, s1) ==
  CASE s0 = "OPENING" /\ s1 = "CLOSED"                -> "OPENING"
    [] s0 \in {"OPENING", "OPENED"} /\ s1 = "OPENING" -> "OPENED"
    [] s0 = "CLOSING" /\ s1 \in {"OPENING", "OPENED"} -> "CLOSING"
    [] s0 = "CLOSED" /\ s1 = "CLOSING"                -> "CLOSED"
    [] OTHER                                          -> s1

RpmPopulate ==
  /\ ~tableReady
  /\ tableReady' = TRUE
  /\ UNCHANGED <<shared, doorbell, rpmBusy, irqPending, irqMasked, local, flags, current, hpc, pc>>

RpmWake ==
  /\ doorbell /\ ~rpmBusy
  /\ doorbell' = FALSE
  /\ rpmBusy' = TRUE
  /\ UNCHANGED <<shared, irqPending, irqMasked, tableReady, local, flags, current, hpc, pc>>

RpmFollow ==
  /\ rpmBusy
  /\ Follow(ch0State, ch1State) # ch1State
  /\ ch1State' = Follow(ch0State, ch1State)
  /\ irqPending' = TRUE
  /\ UNCHANGED <<ch0State, req, ack, doorbell, rpmBusy, irqMasked, tableReady, local, flags, current, hpc, pc>>

RpmServe ==
  /\ rpmBusy
  /\ ch1State = "OPENED" /\ req # <<>>
  /\ ack' = Append(ack, Head(req))
  /\ req' = Tail(req)
  /\ irqPending' = TRUE
  /\ UNCHANGED <<ch0State, ch1State, doorbell, rpmBusy, irqMasked, tableReady, local, flags, current, hpc, pc>>

RpmSleep ==
  /\ rpmBusy
  /\ Follow(ch0State, ch1State) = ch1State
  /\ ~(ch1State = "OPENED" /\ req # <<>>)
  /\ rpmBusy' = FALSE
  /\ UNCHANGED <<shared, doorbell, irqPending, irqMasked, tableReady, local, flags, current, hpc, pc>>

Rpm == RpmPopulate \/ RpmWake \/ RpmFollow \/ RpmServe \/ RpmSleep

Next == Main \/ Handler \/ Rpm

(* The processor keeps executing, the interrupt controller delivers what   *)
(* is pending and unmasked, and the RPM answers its doorbell.              *)
Spec == Init /\ [][Next]_vars
FairSpec == Spec /\ WF_vars(Main) /\ WF_vars(Handler) /\ WF_vars(Rpm)

-----------------------------------------------------------------------------
TypeOK ==
  /\ InstallRpmProtocol \in Builds
  /\ ch0State \in Streams /\ ch1State \in Streams /\ current \in Streams
  /\ req \in Seq(Nat) /\ ack \in Seq(Nat)
  /\ doorbell \in BOOLEAN /\ rpmBusy \in BOOLEAN
  /\ irqPending \in BOOLEAN /\ irqMasked \in BOOLEAN /\ tableReady \in BOOLEAN
  /\ hpc \in HandlerPcs /\ pc \in MainPcs
  /\ probes \in Nat /\ polls \in 0 .. ExitPollLimit + 1
  /\ msgId \in Nat /\ ret \in {0, 1} /\ answered \in Nat
  /\ closedEvent \in BOOLEAN /\ allocFreed \in BOOLEAN /\ exiting \in BOOLEAN

(* Nothing is in flight once the channel starts to close: a request or an  *)
(* acknowledgement left in a FIFO would be met by the next owner of the    *)
(* channel (smd_uninit runs after every rpm_smd_send_data has read its     *)
(* answer).                                                                *)
NothingInFlightWhenClosing ==
  ch0State = "CLOSING" \/ (ch0State = "CLOSED" /\ pc # "probe") => req = <<>> /\ ack = <<>>

(* rpm_smd_recv_data never looks at the identifier in the answer: the      *)
(* answer it reads belongs to the request just sent all the same.          *)
AnswerMatchesRequest ==
  pc \in {"read_done", "check"} => answered = msgId /\ ret = 0

(* Once smd_uninit has returned, both ends have closed the channel (comment*)
(* "Wait for the SMD-RPM channel to be closed").                           *)
UninitReturnsClosed ==
  pc = "finished" /\ ~exiting => ch0State = "CLOSED" /\ ch1State = "CLOSED"

(* smd_channel_alloc_freed, which lets ExitBootServices go on, is set only *)
(* when the RPM has been told, or is about to read, that ch0 is closed.    *)
FreedIsAnnounced ==
  allocFreed => /\ ch0State = "CLOSED"
                /\ ch1State = "CLOSED" \/ doorbell \/ rpmBusy

(* No wake-up is lost: smd_uninit does not wait while every party is at    *)
(* rest and the event is not signalled.                                    *)
Quiet == ~doorbell /\ ~rpmBusy /\ ~irqPending /\ hpc = "idle"
CloseNotLost == pc = "wait_closed" /\ Quiet => closedEvent

(* Closing the channel ends: the driver entry point or the                 *)
(* ExitBootServices callback it belongs to returns, or resets the machine. *)
CloseEnds == (pc = "closing") ~> (pc \in {"finished", "reset"})

(* "ASSERT(rpm_send_data(...) == 0)" (Driver.c:189): a request smd_write   *)
(* refused stops the driver at the assertion.  It fails, since smd_read is *)
(* called after a refused request as well and waits for an answer nobody   *)
(* owes.                                                                   *)
RefusalReachesAssert == (pc = "recv" /\ ret = 1) ~> (pc = "asserted")
=============================================================================

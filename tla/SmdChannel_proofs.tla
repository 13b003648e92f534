--------------------------- MODULE SmdChannel_proofs ---------------------------
(***************************************************************************)
(* The safety properties of SmdChannel for every number of requests and of *)
(* polls, and every interleaving of driver, interrupt handler and RPM.     *)
(***************************************************************************)
EXTENDS SmdChannel, TLAPS

Opening == {"probe", "opening", "opening_commit", "opening_ring"}
Closing == {"closing_commit", "closing_ring", "wait_closed", "exit_poll", "finished", "reset"}
Streamed(s0, s1) == ch0State = s0 /\ ch1State = s1
BothOpened == Streamed("OPENED", "OPENED")
BeingOpened == ch0State = "OPENING" /\ ch1State \in {"CLOSED", "OPENING", "OPENED"}

(* Where the streams stand as the main line goes on, and when the handler  *)
(* may run.                                                                *)
Handshake ==
  /\ irqMasked => Quiet /\ pc \in Opening \cup {"asserted"}
  /\ pc \in Opening => irqMasked
  /\ pc = "probe" => probes # 0
  /\ pc \in {"probe", "opening"} => BothOpened \/ Streamed("CLOSED", "CLOSED")
  /\ pc \in {"opening_commit", "opening_ring"} => BothOpened \/ Streamed("OPENING", "CLOSED")
  /\ pc = "opening_ring" => current = "OPENING"
  /\ pc \in {"send", "recv", "recv_wait"} => BothOpened \/ BeingOpened
  /\ pc = "asserted" => BothOpened \/ BeingOpened \/ (irqMasked /\ Streamed("CLOSED", "CLOSED"))
  /\ pc \in {"send_ring", "read_done", "check", "stall", "idle", "closing"} => BothOpened
  /\ pc \in {"recv", "recv_wait"} /\ ret = 0 => BothOpened
  /\ pc \in Closing => \/ Streamed("CLOSING", "OPENED") \/ Streamed("CLOSING", "CLOSING")
                       \/ Streamed("CLOSED", "CLOSING") \/ Streamed("CLOSED", "CLOSED")
  /\ Streamed("OPENING", "CLOSED") => ~irqPending /\ hpc = "idle"
  /\ hpc = "close" => pc \in Closing /\ ch1State \in {"CLOSING", "CLOSED"}
  /\ ~irqMasked /\ current = "CLOSED" => ch0State = "CLOSED"
  /\ Streamed("CLOSED", "CLOSING") => doorbell \/ rpmBusy
  /\ allocFreed \/ closedEvent => pc \in Closing /\ ch0State = "CLOSED"

(* One request at most is on its way, and it is the last one sent.         *)
Waiting == pc \in {"send_ring", "recv", "recv_wait"} /\ ret = 0

OneRequest ==
  /\ Waiting => \/ req = <<msgId>> /\ ack = <<>>
                \/ req = <<>> /\ ack = <<msgId>>
  /\ ~Waiting => req = <<>> /\ ack = <<>>
  /\ pc = "send_ring" => ret = 0
  /\ pc \in {"read_done", "check"} => ret = 0 /\ answered = msgId

(* The close of smd_uninit, which starts when everybody is at rest, goes   *)
(* from one party to the next, one interrupt or doorbell at a time.        *)
CloseStages ==
  /\ pc = "wait_closed" => ~exiting
  /\ pc = "exit_poll" => exiting
  /\ pc \in {"closing", "closing_commit", "closing_ring"} /\ ~exiting => Quiet
  /\ pc \in {"closing_commit", "closing_ring"} /\ ~exiting => Streamed("CLOSING", "OPENED")
  /\ pc = "closing_ring" /\ ~exiting => current = "CLOSING"
  /\ pc \in {"wait_closed", "finished"} /\ ~exiting =>
       \/ /\ Streamed("CLOSING", "OPENED") /\ current = "CLOSING" /\ pc = "wait_closed"
          /\ ~irqPending /\ hpc = "idle" /\ (doorbell \/ rpmBusy)
       \/ /\ Streamed("CLOSING", "CLOSING") /\ current = "CLOSING" /\ pc = "wait_closed"
          /\ (irqPending /\ hpc = "idle") \/ (~irqPending /\ hpc \in {"compare", "close"})
       \/ /\ Streamed("CLOSED", "CLOSING") /\ current = "CLOSED" /\ pc = "wait_closed"
          /\ ~irqPending /\ hpc = "idle" /\ (doorbell \/ rpmBusy) /\ ~closedEvent
       \/ /\ Streamed("CLOSED", "CLOSED") /\ current = "CLOSED" /\ hpc \in {"idle", "compare"}
          /\ irqPending \/ hpc = "compare" \/ closedEvent \/ pc = "finished"

IInv == TypeOK /\ Handshake /\ OneRequest
-----------------------------------------------------------------------------
LEMMA InitInv == Init => IInv /\ CloseStages
<1> SUFFICES ASSUME Init PROVE IInv /\ CloseStages
  OBVIOUS
<1> USE SmdAssumption DEF Init
<1>1. TypeOK
  <2>1. /\ doorbell \in BOOLEAN /\ rpmBusy \in BOOLEAN /\ irqPending \in BOOLEAN
        /\ irqMasked \in BOOLEAN /\ tableReady \in BOOLEAN /\ closedEvent \in BOOLEAN
        /\ allocFreed \in BOOLEAN /\ exiting \in BOOLEAN
    BY Zenon
  <2>2. QED
    BY <2>1 DEF TypeOK, Streams, HandlerPcs, MainPcs
<1>2. Handshake
  BY DEF Handshake, Quiet, Opening, Closing, Streamed, BothOpened, BeingOpened
<1>3. OneRequest /\ CloseStages
  BY DEF OneRequest, Waiting, CloseStages
<1>4. QED
  BY <1>1, <1>2, <1>3 DEF IInv

(* Every step keeps the types.                                             *)
LEMMA TypeStep ==
  ASSUME IInv, Next
  PROVE  TypeOK'
<1> USE SmdAssumption DEF IInv, TypeOK, Streams, HandlerPcs, MainPcs, Handshake
<1>1. CASE Probe
  BY <1>1 DEF Probe, Goto, shared, irq, local, flags
<1>2. CASE OpeningWrite
  BY <1>2 DEF OpeningWrite, NextStream, Goto, shared, irq, local, flags
<1>3. CASE OpeningCommit
  BY <1>3 DEF OpeningCommit, Goto, shared, irq, local, flags
<1>4. CASE OpeningRing
  BY <1>4, ZenonT(60) DEF OpeningRing, Goto, shared, irq, local, flags
<1>5. CASE SendWrite
  <2>1. req' \in Seq(Nat) /\ msgId' \in Nat /\ ret' \in {0, 1}
    <3>1. msgId + 1 \in Nat
      OBVIOUS
    <3>2. Append(req, msgId + 1) \in Seq(Nat)
      BY <3>1
    <3>3. msgId' = msgId + 1 /\ ret' \in {0, 1} /\ req' \in {req, Append(req, msgId + 1)}
      BY <1>5 DEF SendWrite, is_channel_open, Goto, shared, irq, local, flags
    <3>4. QED
      BY <3>1, <3>2, <3>3
  <2>2. pc' \in {"send_ring", "recv"} /\ hpc' = hpc
    BY <1>5 DEF SendWrite, is_channel_open, Goto, shared, irq, local, flags
  <2>3. QED
    BY <1>5, <2>1, <2>2 DEF SendWrite, is_channel_open, Goto, shared, irq, local, flags
<1>6. CASE SendRing
  BY <1>6 DEF SendRing, Goto, shared, irq, local, flags
<1>7. CASE RecvEnter
  BY <1>7 DEF RecvEnter, Goto, shared, irq, local, flags
<1>8. CASE RecvPacket
  BY <1>8 DEF RecvPacket, Goto, shared, irq, local, flags
<1>9. CASE SignalReadComplete
  BY <1>9 DEF SignalReadComplete, Goto, shared, irq, local, flags
<1>10. CASE CheckResult
  BY <1>10 DEF CheckResult, Goto, shared, irq, local, flags
<1>11. CASE Stall
  BY <1>11 DEF Stall, Goto, shared, irq, local, flags
<1>12. CASE ClientSend
  BY <1>12 DEF ClientSend, Goto, shared, irq, local, flags
<1>13. CASE ExitBootServices
  BY <1>13 DEF ExitBootServices, Goto, shared, irq, local, flags
<1>14. CASE ClosingWrite
  BY <1>14 DEF ClosingWrite, NextStream, Goto, shared, irq, local, flags
<1>15. CASE ClosingCommit
  BY <1>15 DEF ClosingCommit, Goto, shared, irq, local, flags
<1>16. CASE ClosingRing
  BY <1>16 DEF ClosingRing, Goto, shared, irq, local, flags
<1>17. CASE WaitClosed
  <2>1. /\ doorbell' \in BOOLEAN /\ rpmBusy' \in BOOLEAN /\ irqPending' \in BOOLEAN
        /\ irqMasked' \in BOOLEAN /\ tableReady' \in BOOLEAN /\ closedEvent' \in BOOLEAN
        /\ allocFreed' \in BOOLEAN /\ exiting' \in BOOLEAN
    BY <1>17, Zenon DEF WaitClosed, Goto, shared, irq, local, flags
  <2>2. QED
    BY <1>17, <2>1 DEF WaitClosed, Goto, shared, irq, local, flags
<1>18. CASE ExitPoll
  BY <1>18 DEF ExitPoll, Goto, shared, irq, local, flags
<1>19. CASE HandlerEnter
  <2>1. /\ doorbell' \in BOOLEAN /\ rpmBusy' \in BOOLEAN /\ irqPending' \in BOOLEAN
        /\ irqMasked' \in BOOLEAN /\ tableReady' \in BOOLEAN /\ closedEvent' \in BOOLEAN
        /\ allocFreed' \in BOOLEAN /\ exiting' \in BOOLEAN
    BY <1>19, Zenon DEF HandlerEnter, shared, irq, local, flags
  <2>2. QED
    BY <1>19, <2>1 DEF HandlerEnter, shared, irq, local, flags
<1>20. CASE HandlerCompare
  <2>1. /\ doorbell' \in BOOLEAN /\ rpmBusy' \in BOOLEAN /\ irqPending' \in BOOLEAN
        /\ irqMasked' \in BOOLEAN /\ tableReady' \in BOOLEAN /\ closedEvent' \in BOOLEAN
        /\ allocFreed' \in BOOLEAN /\ exiting' \in BOOLEAN
    BY <1>20, Zenon DEF HandlerCompare, shared, irq, local, flags
  <2>2. QED
    BY <1>20, <2>1 DEF HandlerCompare, shared, irq, local, flags
<1>21. CASE HandlerSync
  BY <1>21 DEF HandlerSync, NextStream, shared, irq, local, flags
<1>22. CASE HandlerClose
  BY <1>22 DEF HandlerClose, NextStream, shared, irq, local, flags
<1>23. CASE RpmPopulate
  BY <1>23 DEF RpmPopulate, shared, irq, local, flags
<1>24. CASE RpmWake
  <2>1. /\ doorbell' \in BOOLEAN /\ rpmBusy' \in BOOLEAN /\ irqPending' \in BOOLEAN
        /\ irqMasked' \in BOOLEAN /\ tableReady' \in BOOLEAN /\ closedEvent' \in BOOLEAN
        /\ allocFreed' \in BOOLEAN /\ exiting' \in BOOLEAN
    BY <1>24, Zenon DEF RpmWake, shared, irq, local, flags
  <2>2. QED
    BY <1>24, <2>1 DEF RpmWake, shared, irq, local, flags
<1>25. CASE RpmFollow
  BY <1>25 DEF RpmFollow, Follow, shared, irq, local, flags
<1>26. CASE RpmServe
  BY <1>26 DEF RpmServe, shared, irq, local, flags
<1>27. CASE RpmSleep
  <2>1. /\ doorbell' \in BOOLEAN /\ rpmBusy' \in BOOLEAN /\ irqPending' \in BOOLEAN
        /\ irqMasked' \in BOOLEAN /\ tableReady' \in BOOLEAN /\ closedEvent' \in BOOLEAN
        /\ allocFreed' \in BOOLEAN /\ exiting' \in BOOLEAN
    BY <1>27, Zenon DEF RpmSleep, Follow, shared, irq, local, flags
  <2>2. QED
    BY <1>27, <2>1 DEF RpmSleep, Follow, shared, irq, local, flags
<1>28. QED
  BY <1>1, <1>2, <1>3, <1>4, <1>5, <1>6, <1>7, <1>8, <1>9, <1>10, <1>11, <1>12, <1>13, <1>14, <1>15, <1>16, <1>17, <1>18, <1>19, <1>20, <1>21, <1>22, <1>23, <1>24, <1>25, <1>26, <1>27 DEF Next, Main, Handler, Rpm

(* Each party moves its stream only as the other one's allows.              *)
LEMMA HandshakeStep ==
  ASSUME IInv, Next
  PROVE  Handshake'
<1> USE SmdAssumption DEF IInv, TypeOK, Streams, HandlerPcs, MainPcs, Handshake, OneRequest, Waiting, Quiet, Opening, Closing, Streamed, BothOpened, BeingOpened
<1>1. CASE Probe
  BY <1>1 DEF Probe, Goto, shared, irq, local, flags
<1>2. CASE OpeningWrite
  BY <1>2 DEF OpeningWrite, NextStream, Goto, shared, irq, local, flags
<1>3. CASE OpeningCommit
  BY <1>3 DEF OpeningCommit, Goto, shared, irq, local, flags
<1>4. CASE OpeningRing
  BY <1>4 DEF OpeningRing, Goto, shared, irq, local, flags
<1>5. CASE SendWrite
  BY <1>5 DEF SendWrite, is_channel_open, Goto, shared, irq, local, flags
<1>6. CASE SendRing
  BY <1>6 DEF SendRing, Goto, shared, irq, local, flags
<1>7. CASE RecvEnter
  BY <1>7 DEF RecvEnter, Goto, shared, irq, local, flags
<1>8. CASE RecvPacket
  BY <1>8 DEF RecvPacket, Goto, shared, irq, local, flags
<1>9. CASE SignalReadComplete
  BY <1>9 DEF SignalReadComplete, Goto, shared, irq, local, flags
<1>10. CASE CheckResult
  BY <1>10 DEF CheckResult, Goto, shared, irq, local, flags
<1>11. CASE Stall
  BY <1>11 DEF Stall, Goto, shared, irq, local, flags
<1>12. CASE ClientSend
  BY <1>12 DEF ClientSend, Goto, shared, irq, local, flags
<1>13. CASE ExitBootServices
  BY <1>13 DEF ExitBootServices, Goto, shared, irq, local, flags
<1>14. CASE ClosingWrite
  BY <1>14 DEF ClosingWrite, NextStream, Goto, shared, irq, local, flags
<1>15. CASE ClosingCommit
  BY <1>15 DEF ClosingCommit, Goto, shared, irq, local, flags
<1>16. CASE ClosingRing
  BY <1>16 DEF ClosingRing, Goto, shared, irq, local, flags
<1>17. CASE WaitClosed
  BY <1>17 DEF WaitClosed, Goto, shared, irq, local, flags
<1>18. CASE ExitPoll
  BY <1>18 DEF ExitPoll, Goto, shared, irq, local, flags
<1>19. CASE HandlerEnter
  BY <1>19 DEF HandlerEnter, shared, irq, local, flags
<1>20. CASE HandlerCompare
  BY <1>20 DEF HandlerCompare, shared, irq, local, flags
<1>21. CASE HandlerSync
  BY <1>21 DEF HandlerSync, NextStream, shared, irq, local, flags
<1>22. CASE HandlerClose
  BY <1>22 DEF HandlerClose, NextStream, shared, irq, local, flags
<1>23. CASE RpmPopulate
  BY <1>23 DEF RpmPopulate, shared, irq, local, flags
<1>24. CASE RpmWake
  BY <1>24 DEF RpmWake, shared, irq, local, flags
<1>25. CASE RpmFollow
  BY <1>25 DEF RpmFollow, Follow, shared, irq, local, flags
<1>26. CASE RpmServe
  BY <1>26 DEF RpmServe, shared, irq, local, flags
<1>27. CASE RpmSleep
  BY <1>27 DEF RpmSleep, Follow, shared, irq, local, flags
<1>28. QED
  BY <1>1, <1>2, <1>3, <1>4, <1>5, <1>6, <1>7, <1>8, <1>9, <1>10, <1>11, <1>12, <1>13, <1>14, <1>15, <1>16, <1>17, <1>18, <1>19, <1>20, <1>21, <1>22, <1>23, <1>24, <1>25, <1>26, <1>27 DEF Next, Main, Handler, Rpm

(* A request is answered before the next one is sent.                       *)
LEMMA RequestStep ==
  ASSUME IInv, Next
  PROVE  OneRequest'
<1> USE SmdAssumption DEF IInv, TypeOK, Streams, HandlerPcs, MainPcs, Handshake, OneRequest, Waiting, Quiet, Opening, Closing, Streamed, BothOpened, BeingOpened
<1>1. CASE Probe
  BY <1>1 DEF Probe, Goto, shared, irq, local, flags
<1>2. CASE OpeningWrite
  BY <1>2 DEF OpeningWrite, NextStream, Goto, shared, irq, local, flags
<1>3. CASE OpeningCommit
  BY <1>3 DEF OpeningCommit, Goto, shared, irq, local, flags
<1>4. CASE OpeningRing
  BY <1>4 DEF OpeningRing, Goto, shared, irq, local, flags
<1>5. CASE SendWrite
  <2>1. req = <<>> /\ ack = <<>> /\ ack' = ack /\ msgId' = msgId + 1
    BY <1>5 DEF SendWrite, is_channel_open, Goto, shared, irq, local, flags
  <2>2. CASE is_channel_open
    <3>1. pc' = "send_ring" /\ ret' = 0 /\ req' = Append(req, msgId + 1)
      BY <1>5, <2>2 DEF SendWrite, is_channel_open, Goto, shared, irq, local, flags
    <3>2. req' = <<msgId'>>
      BY <2>1, <3>1
    <3>3. QED
      BY <2>1, <3>1, <3>2
  <2>3. CASE ~is_channel_open
    BY <1>5, <2>1, <2>3 DEF SendWrite, is_channel_open, Goto, shared, irq, local, flags
  <2>4. QED
    BY <2>2, <2>3
<1>6. CASE SendRing
  BY <1>6 DEF SendRing, Goto, shared, irq, local, flags
<1>7. CASE RecvEnter
  BY <1>7 DEF RecvEnter, Goto, shared, irq, local, flags
<1>8. CASE RecvPacket
  BY <1>8, SMTT(20) DEF RecvPacket, Goto, shared, irq, local, flags
<1>9. CASE SignalReadComplete
  BY <1>9 DEF SignalReadComplete, Goto, shared, irq, local, flags
<1>10. CASE CheckResult
  BY <1>10 DEF CheckResult, Goto, shared, irq, local, flags
<1>11. CASE Stall
  BY <1>11 DEF Stall, Goto, shared, irq, local, flags
<1>12. CASE ClientSend
  BY <1>12 DEF ClientSend, Goto, shared, irq, local, flags
<1>13. CASE ExitBootServices
  BY <1>13 DEF ExitBootServices, Goto, shared, irq, local, flags
<1>14. CASE ClosingWrite
  BY <1>14 DEF ClosingWrite, NextStream, Goto, shared, irq, local, flags
<1>15. CASE ClosingCommit
  BY <1>15 DEF ClosingCommit, Goto, shared, irq, local, flags
<1>16. CASE ClosingRing
  BY <1>16 DEF ClosingRing, Goto, shared, irq, local, flags
<1>17. CASE WaitClosed
  BY <1>17 DEF WaitClosed, Goto, shared, irq, local, flags
<1>18. CASE ExitPoll
  BY <1>18 DEF ExitPoll, Goto, shared, irq, local, flags
<1>19. CASE HandlerEnter
  BY <1>19 DEF HandlerEnter, shared, irq, local, flags
<1>20. CASE HandlerCompare
  BY <1>20 DEF HandlerCompare, shared, irq, local, flags
<1>21. CASE HandlerSync
  BY <1>21 DEF HandlerSync, NextStream, shared, irq, local, flags
<1>22. CASE HandlerClose
  BY <1>22 DEF HandlerClose, NextStream, shared, irq, local, flags
<1>23. CASE RpmPopulate
  BY <1>23 DEF RpmPopulate, shared, irq, local, flags
<1>24. CASE RpmWake
  BY <1>24 DEF RpmWake, shared, irq, local, flags
<1>25. CASE RpmFollow
  BY <1>25 DEF RpmFollow, Follow, shared, irq, local, flags
<1>26. CASE RpmServe
  <2>1. Waiting /\ req = <<msgId>> /\ ack = <<>> /\ req # <<>>
    BY <1>26 DEF RpmServe, shared, irq, local, flags
  <2>2. Head(req) = msgId /\ Tail(req) = <<>> /\ Append(ack, msgId) = <<msgId>>
    BY <2>1
  <2>3. req' = <<>> /\ ack' = <<msgId>> /\ UNCHANGED <<pc, msgId, ret, answered>>
    BY <1>26, <2>2 DEF RpmServe, shared, irq, local, flags
  <2>4. QED
    BY <2>1, <2>3
<1>27. CASE RpmSleep
  BY <1>27 DEF RpmSleep, Follow, shared, irq, local, flags
<1>28. QED
  BY <1>1, <1>2, <1>3, <1>4, <1>5, <1>6, <1>7, <1>8, <1>9, <1>10, <1>11, <1>12, <1>13, <1>14, <1>15, <1>16, <1>17, <1>18, <1>19, <1>20, <1>21, <1>22, <1>23, <1>24, <1>25, <1>26, <1>27 DEF Next, Main, Handler, Rpm

(* Nobody moves but the party whose turn it is.                             *)
LEMMA CloseStep ==
  ASSUME IInv, Next, CloseStages, StallSettles
  PROVE  CloseStages'
<1> USE SmdAssumption DEF IInv, TypeOK, Streams, HandlerPcs, MainPcs, Handshake, CloseStages, OneRequest, Waiting, Quiet, Opening, Closing, Streamed, BothOpened, BeingOpened
<1>1. CASE Probe
  BY <1>1 DEF Probe, Goto, shared, irq, local, flags
<1>2. CASE OpeningWrite
  BY <1>2 DEF OpeningWrite, NextStream, Goto, shared, irq, local, flags
<1>3. CASE OpeningCommit
  BY <1>3 DEF OpeningCommit, Goto, shared, irq, local, flags
<1>4. CASE OpeningRing
  BY <1>4 DEF OpeningRing, Goto, shared, irq, local, flags
<1>5. CASE SendWrite
  BY <1>5 DEF SendWrite, is_channel_open, Goto, shared, irq, local, flags
<1>6. CASE SendRing
  BY <1>6 DEF SendRing, Goto, shared, irq, local, flags
<1>7. CASE RecvEnter
  BY <1>7 DEF RecvEnter, Goto, shared, irq, local, flags
<1>8. CASE RecvPacket
  BY <1>8 DEF RecvPacket, Goto, shared, irq, local, flags
<1>9. CASE SignalReadComplete
  BY <1>9 DEF SignalReadComplete, Goto, shared, irq, local, flags
<1>10. CASE CheckResult
  BY <1>10 DEF CheckResult, Goto, shared, irq, local, flags
<1>11. CASE Stall
  BY <1>11 DEF Stall, Goto, shared, irq, local, flags
<1>12. CASE ClientSend
  BY <1>12 DEF ClientSend, Goto, shared, irq, local, flags
<1>13. CASE ExitBootServices
  BY <1>13 DEF ExitBootServices, Goto, shared, irq, local, flags
<1>14. CASE ClosingWrite
  BY <1>14 DEF ClosingWrite, NextStream, Goto, shared, irq, local, flags
<1>15. CASE ClosingCommit
  BY <1>15 DEF ClosingCommit, Goto, shared, irq, local, flags
<1>16. CASE ClosingRing
  BY <1>16 DEF ClosingRing, Goto, shared, irq, local, flags
<1>17. CASE WaitClosed
  BY <1>17 DEF WaitClosed, Goto, shared, irq, local, flags
<1>18. CASE ExitPoll
  BY <1>18 DEF ExitPoll, Goto, shared, irq, local, flags
<1>19. CASE HandlerEnter
  BY <1>19 DEF HandlerEnter, shared, irq, local, flags
<1>20. CASE HandlerCompare
  BY <1>20 DEF HandlerCompare, shared, irq, local, flags
<1>21. CASE HandlerSync
  BY <1>21 DEF HandlerSync, NextStream, shared, irq, local, flags
<1>22. CASE HandlerClose
  BY <1>22 DEF HandlerClose, NextStream, shared, irq, local, flags
<1>23. CASE RpmPopulate
  BY <1>23 DEF RpmPopulate, shared, irq, local, flags
<1>24. CASE RpmWake
  BY <1>24 DEF RpmWake, shared, irq, local, flags
<1>25. CASE RpmFollow
  BY <1>25 DEF RpmFollow, Follow, shared, irq, local, flags
<1>26. CASE RpmServe
  BY <1>26 DEF RpmServe, shared, irq, local, flags
<1>27. CASE RpmSleep
  BY <1>27 DEF RpmSleep, Follow, shared, irq, local, flags
<1>28. QED
  BY <1>1, <1>2, <1>3, <1>4, <1>5, <1>6, <1>7, <1>8, <1>9, <1>10, <1>11, <1>12, <1>13, <1>14, <1>15, <1>16, <1>17, <1>18, <1>19, <1>20, <1>21, <1>22, <1>23, <1>24, <1>25, <1>26, <1>27 DEF Next, Main, Handler, Rpm

(* A stutter changes nothing the invariants speak of.                       *)
LEMMA StutterInv ==
  ASSUME IInv, UNCHANGED vars
  PROVE  IInv' /\ (CloseStages => CloseStages')
<1> USE DEF IInv, vars, shared, irq, local, flags
<1>1. TypeOK'
  BY DEF TypeOK
<1>2. Handshake'
  BY DEF Handshake, Quiet, Streamed, BothOpened, BeingOpened
<1>3. OneRequest' /\ (CloseStages => CloseStages')
  BY DEF OneRequest, Waiting, CloseStages, Quiet, Streamed
<1>4. QED
  BY <1>1, <1>2, <1>3

LEMMA StepInv ==
  ASSUME IInv, [Next]_vars
  PROVE  IInv'
<1>1. CASE Next
  BY <1>1, TypeStep, HandshakeStep, RequestStep DEF IInv
<1>2. CASE UNCHANGED vars
  BY <1>2, StutterInv
<1>3. QED
  BY <1>1, <1>2

LEMMA Invariance == Spec => []IInv
BY InitInv, StepInv, PTL DEF Spec

LEMMA CloseInvariance ==
  ASSUME StallSettles
  PROVE  Spec => [](IInv /\ CloseStages)
<1>1. ASSUME IInv, CloseStages, [Next]_vars PROVE CloseStages'
  <2>1. CASE Next
    BY <1>1, <2>1, CloseStep
  <2>2. CASE UNCHANGED vars
    BY <1>1, <2>2, StutterInv
  <2>3. QED
    BY <1>1, <2>1, <2>2
<1>2. QED
  BY InitInv, StepInv, <1>1, PTL DEF Spec

-----------------------------------------------------------------------------
(* rpm_smd_recv_data does not compare identifiers, and need not: however   *)
(* many requests are sent, one is in the FIFOs at a time.                  *)
THEOREM AnswersMatch == Spec => []AnswerMatchesRequest
<1>1. IInv => AnswerMatchesRequest
  BY DEF IInv, OneRequest, AnswerMatchesRequest
<1>2. QED
  BY Invariance, <1>1, PTL

(* No request or answer is left behind for the next owner of the channel.  *)
THEOREM NothingLeft == Spec => []NothingInFlightWhenClosing
<1>1. IInv => NothingInFlightWhenClosing
  BY DEF IInv, TypeOK, Handshake, OneRequest, Waiting, NothingInFlightWhenClosing, MainPcs,
         Opening, Closing, Streamed, BothOpened, BeingOpened
<1>2. QED
  BY Invariance, <1>1, PTL

(* smd_channel_alloc_freed is not set before ch0 is closed and the RPM told. *)
THEOREM FreedAfterClose == Spec => []FreedIsAnnounced
<1>1. IInv => FreedIsAnnounced
  BY DEF IInv, Handshake, FreedIsAnnounced, Streamed
<1>2. QED
  BY Invariance, <1>1, PTL

(* If the stall before smd_uninit outlasts what the last request stirred,  *)
(* smd_uninit returns with both ends closed ...                            *)
THEOREM ReturnsClosed ==
  ASSUME StallSettles
  PROVE  Spec => []UninitReturnsClosed
<1>1. CloseStages => UninitReturnsClosed
  BY DEF CloseStages, UninitReturnsClosed, Streamed
<1>2. QED
  BY CloseInvariance, <1>1, PTL

(* ... and never waits for an event that nobody is left to signal.         *)
THEOREM NoLostClose ==
  ASSUME StallSettles
  PROVE  Spec => []CloseNotLost
<1>1. CloseStages => CloseNotLost
  BY DEF CloseStages, CloseNotLost, Quiet
<1>2. QED
  BY CloseInvariance, <1>1, PTL
=============================================================================

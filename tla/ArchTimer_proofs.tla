--------------------------- MODULE ArchTimer_proofs ---------------------------
(***************************************************************************)
(* The safety properties of ArchTimer for every set of periods, the ones  *)
(* that are cut off by the 64-bit product or by the register included.     *)
(***************************************************************************)
EXTENDS ArchTimer, TLAPS

(* Between RaiseTPL and RestoreTPL; before the timer is enabled again.     *)
HighSteps == {"period", "tval", "ctl", "ticks", "restore"}
OffSteps == {"zero", "mask", "raise", "period", "tval", "ctl"}

(* Enough time is left for the handler to be told of period p next.        *)
Covers(p) == since + left >= Loaded(TicksOf(p))

ControlOK ==
  /\ tplHigh <=> pc \in HighSteps
  /\ pc \in OffSteps => ~timerOn
  /\ pc = "ticks" => timerOn
  /\ pc \in HighSteps \cup {"raise", "source"} => req \in Periods /\ stage = "ready"
  /\ pc # "idle" => ~exited
  /\ exited => stage = "ready" /\ ~timerOn
  /\ stage \in {"quieted", "registered"} => ~timerOn
  /\ source => stage \in {"registered", "ready"}
  /\ irq # "none" => timerOn /\ ~tplHigh /\ stage \in {"registered", "ready"}

(* A timer that runs was set by SetTimerPeriod.                            *)
SettingsOK ==
  /\ timerOn /\ stage = "ready" => mTimerPeriod \in Periods
  /\ timerOn /\ stage = "ready" /\ pc # "ticks" => mTimerTicks = TicksOf(mTimerPeriod)
  /\ pc \in {"tval", "ctl", "ticks", "restore"} => mTimerPeriod = req

TimeOK ==
  /\ pc = "ctl" => Covers(req)
  /\ timerOn /\ stage = "ready" /\ irq # "notified" => Covers(mTimerPeriod)
  /\ irq = "taken" => left = 0

IInv == TypeOK /\ ControlOK /\ SettingsOK /\ TimeOK

LEMMA TicksType == ASSUME NEW p \in Periods PROVE TicksOf(p) \in Nat
<1> DEFINE w == (p * Num) % Wide
<1>1. p * Num \in Nat /\ Wide \in Nat \ {0} /\ Den \in Nat \ {0}
  BY TimerAssumption
<1>2. w \in Nat
  BY <1>1
<1> HIDE DEF w
<1>3. w \div Den \in Nat
  BY <1>1, <1>2
<1>4. QED
  BY <1>3 DEF TicksOf, w

(* Whatever is written to the register, it counts down from less than half *)
(* its range.                                                              *)
LEMMA LoadedType ==
  ASSUME NEW t \in Nat
  PROVE  Loaded(t) \in 0 .. TvalHalf - 1 /\ Loaded(t) <= Longest
<1> DEFINE v == t % (2 * TvalHalf)
<1>1. v \in Nat /\ TvalHalf \in Nat \ {0} /\ Longest \in Nat /\ TvalHalf <= Longest
  BY TimerAssumption
<1> HIDE DEF v
<1>2. QED
  BY <1>1 DEF Loaded, v

(* A countable period loses less than one counter tick to the division.    *)
LEMMA CountableLoses ==
  ASSUME NEW p \in Periods, Countable(p)
  PROVE  Loaded(TicksOf(p)) = TicksOf(p) /\ Den * (TicksOf(p) + 1) > Num * p
<1> DEFINE t == TicksOf(p)
           x == p * Num
<1>1. x \in Nat /\ Wide \in Nat \ {0} /\ Den \in Nat \ {0} /\ x = Num * p
  BY TimerAssumption
<1>2. x < Wide /\ t < TvalHalf /\ t \in Nat /\ TvalHalf \in Nat \ {0}
  BY TicksType, TimerAssumption DEF Countable
<1>3. t = (x % Wide) \div Den
  BY DEF TicksOf
<1> HIDE DEF x, t
<1>4. x % Wide = x
  BY <1>1, <1>2
<1>5. Den * (x \div Den + 1) > x
  BY <1>1
<1>6. Den * (t + 1) > Num * p
  BY <1>1, <1>3, <1>4, <1>5
<1>7. t % (2 * TvalHalf) = t
  BY <1>2
<1>8. Loaded(t) = t
  BY <1>2, <1>7 DEF Loaded
<1>9. QED
  BY <1>6, <1>8 DEF t

LEMMA InitInv == Init => IInv
<1> SUFFICES ASSUME Init PROVE IInv
  OBVIOUS
<1>1. TypeOK
  <2>1. /\ mTimerNotifyFunction \in BOOLEAN /\ tplHigh \in BOOLEAN /\ exited \in BOOLEAN
        /\ timerOn \in BOOLEAN /\ source \in BOOLEAN /\ active \in BOOLEAN
    BY Zenon DEF Init
  <2>2. 0 \in 0 .. TvalHalf - 1 /\ Longest \in 0 .. Longest /\ 0 \in Nat
    BY TimerAssumption
  <2>3. QED
    BY <2>1, <2>2 DEF Init, TypeOK
<1>2. ControlOK
  <2>1. pc = "idle" /\ stage = "start" /\ irq = "none" /\ tplHigh = FALSE /\ exited = FALSE
        /\ source = FALSE
    BY DEF Init
  <2>2. pc \notin HighSteps /\ pc \notin OffSteps /\ pc # "raise" /\ pc # "source"
    BY <2>1 DEF HighSteps, OffSteps
  <2>3. QED
    BY <2>1, <2>2 DEF ControlOK
<1>3. SettingsOK /\ TimeOK
  BY DEF Init, SettingsOK, TimeOK
<1>4. QED
  BY <1>1, <1>2, <1>3 DEF IInv

(* SetTimerPeriod's writes, with the interrupt held off where it must be.  *)
LEMMA DriverInv ==
  ASSUME IInv, DriverStep
  PROVE  IInv'
<1> USE TimerAssumption DEF IInv, TypeOK, ControlOK, SettingsOK, TimeOK, Covers,
                            HighSteps, OffSteps, Step, mode, settings, counter, gic, thread
<1>1. CASE ZeroPeriod
  BY <1>1 DEF ZeroPeriod
<1>2. CASE DisableInterruptSource
  BY <1>2 DEF DisableInterruptSource
<1>3. CASE RaiseTPL
  BY <1>3 DEF RaiseTPL, GoHigh
<1>4. CASE SavePeriod
  BY <1>4 DEF SavePeriod
<1>5. CASE WriteTval
  <2>1. /\ req \in Periods /\ left' = Loaded(TicksOf(req)) /\ left' \in 0 .. TvalHalf - 1
    BY <1>5, TicksType, LoadedType DEF WriteTval
  <2> HIDE DEF TicksOf
  <2>2. QED
    BY <1>5, <2>1 DEF WriteTval
<1>6. CASE WriteCtl
  BY <1>6 DEF WriteCtl
<1>7. CASE SaveTicks
  <2>1. req \in Periods /\ TicksOf(req) \in Nat
    BY <1>7, TicksType DEF SaveTicks
  <2> HIDE DEF TicksOf
  <2>2. QED
    BY <1>7, <2>1 DEF SaveTicks
<1>8. CASE RestoreTPL
  BY <1>8 DEF RestoreTPL
<1>9. CASE EnableInterruptSource
  BY <1>9 DEF EnableInterruptSource
<1>10. CASE Quiet
  BY <1>10 DEF Quiet, Enter, LibQcomDxeTimerDisable
<1>11. CASE RegisterInterruptSource
  BY <1>11 DEF RegisterInterruptSource
<1>12. CASE StartDefault
  BY <1>12 DEF StartDefault, Enter, LibQcomDxeTimerDisable
<1>13. QED
  BY <1>1, <1>2, <1>3, <1>4, <1>5, <1>6, <1>7, <1>8, <1>9, <1>10, <1>11, <1>12
  DEF DriverStep

LEMMA HandlerInv ==
  ASSUME IInv, Handler
  PROVE  IInv'
<1> USE TimerAssumption DEF IInv, TypeOK, ControlOK, SettingsOK, TimeOK, Covers,
                            HighSteps, OffSteps, mode, settings, counter, gic, thread
<1>1. CASE TakeInterrupt
  BY <1>1 DEF TakeInterrupt
<1>2. CASE NotifyFunction
  BY <1>2 DEF NotifyFunction
<1>3. CASE LibQcomDxeTimerFinishIrq
  <2>1. stage = "ready" /\ timerOn /\ pc # "ticks"
    BY <1>3 DEF LibQcomDxeTimerFinishIrq
  <2>2. left' = Loaded(TicksOf(mTimerPeriod)) /\ left' \in 0 .. TvalHalf - 1
    BY <1>3, <2>1, TicksType, LoadedType DEF LibQcomDxeTimerFinishIrq, Rearm
  <2>3. QED
    BY <1>3, <2>1, <2>2 DEF LibQcomDxeTimerFinishIrq
<1>4. CASE EndOfInterrupt
  BY <1>4 DEF EndOfInterrupt, Deactivate
<1>5. QED
  BY <1>1, <1>2, <1>3, <1>4 DEF Handler

LEMMA CallerInv ==
  ASSUME IInv, Caller
  PROVE  IInv'
<1> USE TimerAssumption DEF IInv, TypeOK, ControlOK, SettingsOK, TimeOK, Covers,
                            HighSteps, OffSteps, mode, settings, counter, gic, thread
<1>1. CASE \E p \in Periods \cup {0} : SetTimerPeriod(p)
  <2>1. PICK p \in Periods \cup {0} : SetTimerPeriod(p)
    BY <1>1
  <2>2. p \in Nat /\ (p # 0 => p \in Periods)
    OBVIOUS
  <2>3. /\ pc = "idle" /\ irq = "none" /\ irq' = "none" /\ ~exited /\ ~exited'
        /\ stage = "ready" /\ stage' = "ready" /\ timerOn' = FALSE /\ req' = p
        /\ pc' \in {"zero", "raise"} /\ (pc' = "raise" => p # 0)
        /\ UNCHANGED <<tplHigh, mTimerNotifyFunction, mTimerPeriod, mTimerTicks, left,
                       source, active, since>>
    BY <2>1 DEF SetTimerPeriod, Enter, LibQcomDxeTimerDisable
  <2> HIDE DEF TicksOf
  <2>4. TypeOK'
    <3>1. timerOn' \in BOOLEAN
      <4>1. timerOn' = FALSE
        BY <2>3
      <4>2. QED
        BY ONLY <4>1
    <3>2. (/\ mTimerNotifyFunction \in BOOLEAN /\ tplHigh \in BOOLEAN /\ exited \in BOOLEAN
           /\ source \in BOOLEAN /\ active \in BOOLEAN)'
      BY <2>1 DEF SetTimerPeriod, Enter
    <3>3. (/\ req \in Periods \cup {0} /\ mTimerPeriod \in Periods \cup {0}
           /\ mTimerTicks \in Nat /\ left \in 0 .. TvalHalf - 1 /\ since \in 0 .. Longest)'
      BY <2>2, <2>3
    <3>4. QED
      BY <2>3, <3>1, <3>2, <3>3
  <2>5. ControlOK'
    BY <2>2, <2>3
  <2>6. SettingsOK' /\ TimeOK'
    BY <2>3
  <2>7. QED
    BY <2>4, <2>5, <2>6
<1>2. CASE \E f \in BOOLEAN : RegisterHandler(f)
  BY <1>2 DEF RegisterHandler
<1>3. CASE ExitBootServicesEvent
  BY <1>3 DEF ExitBootServicesEvent, LibQcomDxeTimerDisable
<1>4. QED
  BY <1>1, <1>2, <1>3 DEF Caller

(* Time moves from left to since.                                          *)
LEMMA TimeInv ==
  ASSUME IInv, CountTick
  PROVE  IInv'
<1>1. \A p \in Periods : Covers(p) => Covers(p)'
  <2>1. SUFFICES ASSUME NEW p \in Periods, Covers(p)
                 PROVE  Covers(p)'
    OBVIOUS
  <2> DEFINE n == Loaded(TicksOf(p))
  <2>2. n \in Nat /\ n <= Longest
    BY TicksType, LoadedType
  <2>3. since \in 0 .. Longest /\ left \in 0 .. TvalHalf - 1
    BY DEF IInv, TypeOK
  <2>4. since + left >= n
    BY <2>1 DEF Covers
  <2> HIDE DEF n
  <2>5. (since + left >= n)'
    BY <2>2, <2>3, <2>4, TimerAssumption DEF CountTick
  <2>6. QED
    BY <2>5 DEF Covers, n
<1>2. UNCHANGED <<thread, mode, settings, timerOn, gic, irq>>
  BY DEF CountTick
<1>3. TypeOK'
  BY <1>2, TimerAssumption
  DEF IInv, TypeOK, CountTick, mode, settings, gic, thread
<1>4. ControlOK' /\ SettingsOK'
  BY <1>2 DEF IInv, ControlOK, SettingsOK, mode, settings, gic, thread
<1>5. TimeOK'
  <2>1. (irq = "taken" => left = 0)'
    BY <1>2 DEF IInv, TimeOK, CountTick
  <2>2. pc' = "ctl" => Covers(req)'
    BY <1>1, <1>2 DEF IInv, ControlOK, TimeOK, HighSteps, Covers, thread
  <2>3. (timerOn /\ stage = "ready" /\ irq # "notified" => Covers(mTimerPeriod))'
    BY <1>1, <1>2 DEF IInv, SettingsOK, TimeOK, Covers, mode, settings
  <2>4. QED
    BY <2>1, <2>2, <2>3, <1>2 DEF TimeOK
<1>6. QED
  BY <1>3, <1>4, <1>5 DEF IInv

LEMMA NextInv ==
  ASSUME IInv, [Next]_vars
  PROVE  IInv'
<1>1. CASE UNCHANGED vars
  BY <1>1 DEF vars, thread, mode, settings, counter, gic,
       IInv, TypeOK, ControlOK, SettingsOK, TimeOK, Covers
<1>2. QED
  BY <1>1, DriverInv, HandlerInv, CallerInv, TimeInv DEF Next

LEMMA Invariance == Spec => []IInv
  BY InitInv, NextInv, PTL DEF Spec

(* Every variable stays in its range.                                      *)
THEOREM TypeCorrect == Spec => []TypeOK
<1>1. IInv => TypeOK
  BY DEF IInv
<1>2. QED
  BY <1>1, Invariance, PTL

(* No tick is being handled once the timer was stopped or boot services    *)
(* have ended.                                                             *)
THEOREM StopIsQuiet == Spec => []StoppedIsQuiet
<1>1. IInv => StoppedIsQuiet
  BY TimerAssumption DEF IInv, ControlOK, SettingsOK, StoppedIsQuiet
<1>2. QED
  BY <1>1, Invariance, PTL

(* The handler reloads the counter for the period it passes on.            *)
THEOREM ReloadFits == Spec => []ReloadFitsPeriod
<1>1. IInv => ReloadFitsPeriod
  BY DEF IInv, ControlOK, SettingsOK, ReloadFitsPeriod, HighSteps
<1>2. QED
  BY <1>1, Invariance, PTL

(* The handler is told of a period only after the count for it has run    *)
(* down, which for a countable period is less than a counter tick short.   *)
THEOREM TicksNotEarly == Spec => TickNotEarly
<1> DEFINE p == mTimerPeriod
           Late == /\ since >= Loaded(TicksOf(p))
                   /\ Countable(p) => Den * (since + 1) > Num * p
<1>1. ASSUME IInv, TickTold PROVE Late
  <2>1. p \in Periods /\ p \in Nat /\ since + 0 >= Loaded(TicksOf(p)) /\ since \in Nat
    BY <1>1, TimerAssumption DEF IInv, TypeOK, ControlOK, SettingsOK, TimeOK, Covers, TickTold
  <2>2. since >= Loaded(TicksOf(p))
    BY <2>1
  <2>3. ASSUME Countable(p) PROVE Den * (since + 1) > Num * p
    <3> DEFINE t == TicksOf(p)
    <3>1. t \in Nat /\ Loaded(t) = t /\ Den * (t + 1) > Num * p
      BY <2>1, <2>3, TicksType, CountableLoses
    <3>2. since >= t /\ Den \in Nat /\ Num * p \in Nat
      BY <2>1, <2>2, <3>1, TimerAssumption
    <3> HIDE DEF t
    <3>3. Den * (since + 1) >= Den * (t + 1) /\ Den * (since + 1) \in Nat /\ Den * (t + 1) \in Nat
      BY <2>1, <3>1, <3>2
    <3>4. QED
      BY <3>1, <3>2, <3>3
  <2>4. QED
    BY <2>2, <2>3
<1>2. IInv /\ [Next]_vars => (TickTold => Late)
  BY <1>1
<1>3. QED
  BY <1>2, Invariance, PTL DEF Spec, TickNotEarly
=============================================================================

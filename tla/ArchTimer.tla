------------------------------ MODULE ArchTimer ------------------------------
(***************************************************************************)
(* The timer architectural protocol: Driver/TimerDxe/TimerDxe.c over       *)
(* Library/QTimerLib/QcomQTimerDxeTimerLib.c, with the down counter it     *)
(* programs and the interrupt that preempts every one of its steps below   *)
(* TPL_HIGH_LEVEL.  Time is relative: `left' runs down to the next         *)
(* interrupt, `since' runs up from the last call of the tick handler.      *)
(***************************************************************************)
EXTENDS Integers

CONSTANTS
  Periods,        \* arguments of SetTimerPeriod, in units of 100 ns
  DefaultPeriod,  \* PcdTimerPeriod
  Num, Den,       \* counter ticks per unit: 19200000 / 10000000 in the code
  Wide,           \* 2^64: the product of period and frequency is a UINT64
  TvalHalf,       \* half the range of the 32-bit register CNTP_TVAL
  Longest         \* bound: `since' stops here

TicksOf(p) == ((p * Num) % Wide) \div Den

ASSUME TimerAssumption ==
  /\ Num \in Nat \ {0} /\ Den \in Nat \ {0}
  /\ Wide \in Nat \ {0} /\ TvalHalf \in Nat \ {0}
  /\ Periods \subseteq Nat \ {0} /\ DefaultPeriod \in Periods
  /\ Longest \in Nat /\ TvalHalf <= Longest

VARIABLES
  pc, req,        \* SetTimerPeriod: its next step and its argument
  stage,          \* how far TimerInitialize is
  mTimerPeriod, mTimerTicks, mTimerNotifyFunction,
  tplHigh, exited,
  timerOn, left,  \* CNTP_CTL: enabled and not masked; ticks to the compare value
  source, active, \* the interrupt controller: source enabled; being handled
  irq,            \* where TimerInterruptHandler is
  since

settings == <<mTimerPeriod, mTimerTicks>>
counter  == <<timerOn, left>>
gic      == <<source, active>>
mode     == <<stage, mTimerNotifyFunction, exited>>
thread   == <<pc, req, tplHigh>>
vars == <<thread, mode, settings, counter, gic, irq, since>>

Init ==
  /\ pc = "idle" /\ req = 0 /\ stage = "start"
  /\ mTimerPeriod = 0 /\ mTimerTicks = 0 /\ mTimerNotifyFunction = FALSE
  /\ tplHigh = FALSE /\ exited = FALSE
  /\ timerOn \in BOOLEAN /\ left = 0  \* as the boot loader left it
  /\ source = FALSE /\ active = FALSE /\ irq = "none"
  /\ since = Longest

(* A value written to CNTP_TVAL: taken as signed, so the upper half of the *)
(* range is a compare value already passed.                                *)
Loaded(ticks) ==
  LET v == ticks % (2 * TvalHalf) IN IF v < TvalHalf THEN v ELSE 0

-----------------------------------------------------------------------------
(* SetTimerPeriod, a step for each write that an interrupt could part.     *)

LeaveRunning == UNCHANGED timerOn  \* faulty
LibQcomDxeTimerDisable == timerOn' = FALSE

Enter(p) ==
  /\ pc = "idle" /\ irq = "none" /\ ~exited
  /\ LibQcomDxeTimerDisable
  /\ req' = p
  /\ pc' = IF p = 0 THEN "zero" ELSE "raise"
  /\ UNCHANGED <<tplHigh, mTimerNotifyFunction, exited, settings, left, gic, irq, since>>

SetTimerPeriod(p) == stage = "ready" /\ Enter(p) /\ UNCHANGED stage

Step(from, to) == pc = from /\ irq = "none" /\ pc' = to /\ UNCHANGED <<req, mode, irq, since>>

ZeroPeriod ==
  /\ Step("zero", "mask")
  /\ mTimerPeriod' = 0
  /\ UNCHANGED <<tplHigh, mTimerTicks, counter, gic>>

(* In TimerInitialize's first call gVector is still 0: another source.     *)
DisableInterruptSource ==
  /\ Step("mask", "idle")
  /\ source' = (source /\ stage = "quieted")
  /\ UNCHANGED <<tplHigh, settings, counter, active>>

StayLow == UNCHANGED tplHigh  \* faulty
GoHigh == tplHigh' = TRUE

RaiseTPL ==
  /\ Step("raise", "period") /\ GoHigh
  /\ UNCHANGED <<settings, counter, gic>>

SavePeriod ==
  /\ Step("period", "tval")
  /\ mTimerPeriod' = req
  /\ UNCHANGED <<tplHigh, mTimerTicks, counter, gic>>

WriteTval ==
  /\ Step("tval", "ctl")
  /\ left' = Loaded(TicksOf(req))
  /\ UNCHANGED <<tplHigh, settings, timerOn, gic>>

WriteCtl ==
  /\ Step("ctl", "ticks")
  /\ timerOn' = TRUE
  /\ UNCHANGED <<tplHigh, settings, left, gic>>

SaveTicks ==
  /\ Step("ticks", "restore")
  /\ mTimerTicks' = TicksOf(req)
  /\ UNCHANGED <<tplHigh, mTimerPeriod, counter, gic>>

RestoreTPL ==
  /\ Step("restore", "source")
  /\ tplHigh' = FALSE
  /\ UNCHANGED <<settings, counter, gic>>

EnableInterruptSource ==
  /\ Step("source", "idle")
  /\ source' = TRUE
  /\ UNCHANGED <<tplHigh, settings, counter, active>>

-----------------------------------------------------------------------------
(* TimerInitialize: quiet, register the handler, set the default period.   *)

Quiet == stage = "start" /\ Enter(0) /\ stage' = "quieted"

RegisterInterruptSource ==
  /\ stage = "quieted" /\ pc = "idle" /\ irq = "none"
  /\ source' = TRUE /\ stage' = "registered"
  /\ UNCHANGED <<thread, mTimerNotifyFunction, exited, settings, counter, active, irq, since>>

StartDefault == stage = "registered" /\ Enter(DefaultPeriod) /\ stage' = "ready"

RegisterHandler(f) ==
  /\ stage = "ready" /\ pc = "idle" /\ irq = "none" /\ ~exited
  /\ mTimerNotifyFunction # f  \* else EFI_ALREADY_STARTED, EFI_INVALID_PARAMETER
  /\ mTimerNotifyFunction' = f
  /\ UNCHANGED <<thread, stage, exited, settings, counter, gic, irq, since>>

ExitBootServicesEvent ==
  /\ stage = "ready" /\ pc = "idle" /\ irq = "none" /\ ~exited
  /\ exited' = TRUE
  /\ LibQcomDxeTimerDisable
  /\ UNCHANGED <<thread, stage, mTimerNotifyFunction, settings, left, gic, irq, since>>

-----------------------------------------------------------------------------
(* TimerInterruptHandler.  RaiseTPL keeps everything but time out of it.   *)

TakeInterrupt ==
  /\ irq = "none" /\ ~tplHigh
  /\ timerOn /\ left = 0 /\ source /\ ~active
  /\ irq' = "taken" /\ active' = TRUE
  /\ UNCHANGED <<thread, mode, settings, counter, source, since>>

NotifyFunction ==
  /\ irq = "taken" /\ irq' = "notified"
  /\ since' = IF mTimerNotifyFunction THEN 0 ELSE since
  /\ UNCHANGED <<thread, mode, settings, counter, gic>>

NotRearmed == UNCHANGED left  \* faulty
Rearm == left' = Loaded(mTimerTicks)

LibQcomDxeTimerFinishIrq ==
  /\ irq = "notified" /\ irq' = "rearmed" /\ Rearm
  /\ UNCHANGED <<thread, mode, settings, timerOn, gic, since>>

StaysActive == UNCHANGED active  \* faulty
Deactivate == active' = FALSE

EndOfInterrupt ==
  /\ irq = "rearmed" /\ irq' = "none" /\ Deactivate
  /\ UNCHANGED <<thread, mode, settings, counter, source, since>>

-----------------------------------------------------------------------------
(* The counter: one tick of time, at any point of the code.                *)
CountTick ==
  /\ left' = IF left > 0 THEN left - 1 ELSE 0
  /\ since' = IF since < Longest THEN since + 1 ELSE Longest
  /\ <<left, since>>' # <<left, since>>
  /\ UNCHANGED <<thread, mode, settings, timerOn, gic, irq>>

DriverStep ==
  \/ ZeroPeriod \/ DisableInterruptSource
  \/ RaiseTPL \/ SavePeriod \/ WriteTval \/ WriteCtl \/ SaveTicks \/ RestoreTPL
  \/ EnableInterruptSource
  \/ Quiet \/ RegisterInterruptSource \/ StartDefault
Handler ==
  TakeInterrupt \/ NotifyFunction \/ LibQcomDxeTimerFinishIrq \/ EndOfInterrupt
Caller ==
  \/ \E p \in Periods \cup {0} : SetTimerPeriod(p)
  \/ \E f \in BOOLEAN : RegisterHandler(f)
  \/ ExitBootServicesEvent

Next == DriverStep \/ Handler \/ Caller \/ CountTick
Spec == Init /\ [][Next]_vars

(* Code that was entered goes on, and time passes; nobody has to call.     *)
FairSpec == Spec /\ WF_vars(DriverStep) /\ WF_vars(Handler) /\ WF_vars(CountTick)

-----------------------------------------------------------------------------
TypeOK ==
  /\ pc \in {"idle", "zero", "mask", "raise", "period", "tval", "ctl", "ticks",
             "restore", "source"}
  /\ req \in Periods \cup {0} /\ mTimerPeriod \in Periods \cup {0}
  /\ stage \in {"start", "quieted", "registered", "ready"}
  /\ mTimerTicks \in Nat
  /\ mTimerNotifyFunction \in BOOLEAN /\ tplHigh \in BOOLEAN /\ exited \in BOOLEAN
  /\ timerOn \in BOOLEAN /\ left \in 0 .. TvalHalf - 1
  /\ source \in BOOLEAN /\ active \in BOOLEAN
  /\ irq \in {"none", "taken", "notified", "rearmed"}
  /\ since \in 0 .. Longest

(* The tick handler is told that mTimerPeriod has passed.                  *)
TickTold == irq = "taken" /\ irq' = "notified" /\ mTimerNotifyFunction

(* What the conversion to counter ticks keeps of a period: nothing was cut *)
(* off its product, and the register takes the count for one to come.      *)
Countable(p) == p * Num < Wide /\ TicksOf(p) < TvalHalf

(* However SetTimerPeriod is interleaved with the interrupt, the handler   *)
(* is called only when the count for the period it is told of has run down *)
(* since it was called last.  For a countable period this is less than one *)
(* counter tick short of the period, the fraction TimerDxe.c:130 drops.    *)
TickNotEarly ==
  [][TickTold =>
       /\ since >= Loaded(TicksOf(mTimerPeriod))
       /\ Countable(mTimerPeriod) => Den * (since + 1) > Num * mTimerPeriod]_vars

(* What TimerDxe.c:219-221 says: "TimerPeriod defines the minimum time     *)
(* between timer interrupts, so TimerPeriod will also be the minimum time  *)
(* between calls to the registered handler".  It fails for a period that   *)
(* is no whole number of counter ticks, and for one that is not countable. *)
MinimumPeriod == [][TickTold => Den * since >= Num * mTimerPeriod]_vars

(* Once the period is 0 or boot services have ended no tick is on its way: *)
(* the handler never passes a time of 0 nor runs into the loaded system.   *)
StoppedIsQuiet == (exited \/ mTimerPeriod = 0) => irq = "none"

(* The reload value and the time passed belong to the same period whenever *)
(* the handler runs, though SetTimerPeriod writes them at different times. *)
ReloadFitsPeriod == irq # "none" => mTimerTicks = TicksOf(mTimerPeriod)

(* A running timer with a handler ticks again and again: no interrupt is   *)
(* the last one, unless the period is being changed or the timer stopped.  *)
Running == pc = "idle" /\ mTimerPeriod > 0 /\ mTimerNotifyFunction /\ ~exited
TicksGoOn == Running ~> (irq = "notified" \/ ~Running)
=============================================================================

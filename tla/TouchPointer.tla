----------------------------- MODULE TouchPointer -----------------------------
(***************************************************************************)
(* Driver/SynapticsTouchDxe/SynapticsTouchDxe.c: the probe that looks for  *)
(* the touch function of the controller, the timer that polls it, and the  *)
(* absolute pointer protocol, whose caller the timer preempts.  A reading  *)
(* of the touched panel is known by its number.                            *)
(***************************************************************************)
EXTENDS Integers, Sequences, FiniteSets

CONSTANTS
  Devices,       \* controllers: page tables, and whether pages can be selected
  F12,           \* number of the touch function
  TOUCH_RMI_MAX_FUNCTIONS,
  TOUCH_RMI_PAGE_INFO_ADDRESS, TOUCH_RMI_PAGE_INFO_BYTES,
  MaxReadings    \* bound: readings of the touched panel

ASSUME TouchAssumption ==
  /\ {TOUCH_RMI_MAX_FUNCTIONS, TOUCH_RMI_PAGE_INFO_BYTES} \subseteq Nat \ {0}
  /\ TOUCH_RMI_PAGE_INFO_ADDRESS \in 0 .. 255  \* a UINT8
  /\ TOUCH_RMI_PAGE_INFO_ADDRESS > TOUCH_RMI_MAX_FUNCTIONS * TOUCH_RMI_PAGE_INFO_BYTES
  /\ \A d \in Devices : d.paged \in BOOLEAN /\ d.pages \in Seq(Seq(1 .. 255))
  /\ F12 \in 1 .. 255 /\ MaxReadings \in Nat

VARIABLES
  device, selected,         \* the controller and its page register
  pc,                       \* of the driver binding
  Page, Address, Function,  \* locals of Start
  opened, installed, polling,
  Initialized, PageF12, TouchDataAddress,
  LastX, LastY, StateChanged,
  level,                    \* task priority of the caller of the protocol
  call, State,              \* its call, and the state it fills in
  readings,                 \* history: readings of the touched panel so far,
  kept,                     \* the newest one taken between two calls,
  got                       \* and the newest state delivered

instance == <<Initialized, PageF12, TouchDataAddress>>
point    == <<LastX, LastY, StateChanged>>
probe    == <<Page, Address, Function>>
binding  == <<pc, opened, installed, polling>>
caller   == <<level, call, State, got>>
controller == <<device, selected>>
vars == <<controller, binding, probe, instance, point, caller, readings, kept>>

First == TOUCH_RMI_PAGE_INFO_ADDRESS
Nowhere == [x |-> 0, y |-> 0]

Init ==
  /\ device \in Devices /\ selected = 0
  /\ pc = "idle"
  /\ Page = 0 /\ Address = First /\ Function = 0
  /\ opened = FALSE /\ installed = FALSE /\ polling = FALSE
  /\ Initialized = FALSE /\ PageF12 = 0 /\ TouchDataAddress = 0
  /\ LastX = 0 /\ LastY = 0 /\ StateChanged = FALSE
  /\ level \in {"application", "callback"} /\ call = "none" /\ State = Nowhere
  /\ readings = 0 /\ kept = 0 /\ got = Nowhere

-----------------------------------------------------------------------------
(* The controller.  A page of the table is the sequence of its functions;  *)
(* an entry that is not there reads as 0.  An entry's address stands for   *)
(* the data address it names.                                              *)
InfoAt(page, address) ==
  LET entry == 1 + (First - address) \div TOUCH_RMI_PAGE_INFO_BYTES
      table == IF page < Len(device.pages) THEN device.pages[page + 1] ELSE <<>>
  IN  IF entry <= Len(table) THEN table[entry] ELSE 0

SelectPage(page) == selected' = IF device.paged THEN page ELSE selected

-----------------------------------------------------------------------------
(* Start.  A failure keeps the device opened.                              *)

OpenProtocol ==
  /\ pc = "idle" /\ ~opened  \* else EFI_ALREADY_STARTED
  /\ opened' = TRUE /\ pc' = "read"
  /\ UNCHANGED <<controller, installed, polling, probe, instance, point, caller, readings, kept>>

Fail == pc' = "idle"
Probing == UNCHANGED <<device, opened, installed, polling, Initialized, point, caller,
                       readings, kept>>

(* SynaPowerUpController, the suspended flag, SynaI2cRead and SynaI2cWrite.*)
BusFails ==
  /\ pc \in {"read", "switch"} /\ Fail
  /\ Probing /\ UNCHANGED <<selected, probe, PageF12, TouchDataAddress>>

RecordAddressOnly ==  \* faulty
  PageF12' = PageF12 /\ TouchDataAddress' = Address
RecordF12 == PageF12' = Page /\ TouchDataAddress' = Address

LocatedF12 ==
  /\ pc = "read" /\ InfoAt(selected, Address) = F12
  /\ RecordF12 /\ pc' = "found"
  /\ Probing /\ UNCHANGED <<selected, probe>>

LastPage ==
  /\ pc = "read" /\ InfoAt(selected, Address) = 0 /\ Address = First
  /\ pc' = "found"
  /\ Probing /\ UNCHANGED <<selected, probe, PageF12, TouchDataAddress>>

ResetCount == Function' = 0  \* faulty
KeepCount == UNCHANGED Function

NextPage ==
  /\ pc = "read" /\ InfoAt(selected, Address) = 0 /\ Address # First
  /\ Page' = (Page + 1) % 256 /\ Address' = First /\ pc' = "switch"
  /\ KeepCount
  /\ Probing /\ UNCHANGED <<selected, PageF12, TouchDataAddress>>

(* The condition of the loop.                                              *)
GoesOn(address, function) == address > 0 /\ function < TOUCH_RMI_MAX_FUNCTIONS

NextFunction ==
  /\ pc = "read" /\ InfoAt(selected, Address) \notin {0, F12}
  /\ Function' = Function + 1
  /\ Address' = (Address - TOUCH_RMI_PAGE_INFO_BYTES) % 256
  /\ pc' = IF GoesOn(Address', Function') THEN "read" ELSE "found"
  /\ Probing /\ UNCHANGED <<selected, Page, PageF12, TouchDataAddress>>

SwitchPage ==
  /\ pc = "switch" /\ SelectPage(Page)
  /\ pc' = IF GoesOn(Address, Function) THEN "read" ELSE "found"
  /\ Probing /\ UNCHANGED <<probe, PageF12, TouchDataAddress>>

(* The final result; the events and the protocol.                          *)
FinishStart ==
  /\ pc = "found"
  /\ IF Function >= TOUCH_RMI_MAX_FUNCTIONS \/ Address <= 0
     THEN Fail /\ UNCHANGED <<Initialized, polling, installed>>
     ELSE pc' = "idle" /\ Initialized' = TRUE /\ polling' = TRUE /\ installed' = TRUE
  /\ UNCHANGED <<controller, opened, probe, PageF12, TouchDataAddress, point, caller,
                 readings, kept>>

(* Stop.  The uninstall is refused while somebody has the protocol open.   *)
UninstallProtocol ==
  /\ pc = "idle" /\ call = "none" /\ installed
  /\ installed' = FALSE /\ pc' = "close"
  /\ UNCHANGED <<controller, opened, polling, probe, instance, point, caller, readings, kept>>

CloseEvents ==
  /\ pc = "close" /\ pc' = "idle" /\ polling' = FALSE
  /\ UNCHANGED <<controller, opened, installed, probe, instance, point, caller, readings, kept>>

-----------------------------------------------------------------------------
(* SyncPollCallback, in one step: it runs at TPL_NOTIFY.                   *)

Touched ==
  /\ readings < MaxReadings
  /\ readings' = readings + 1
  /\ LastX' = readings' /\ LastY' = readings' /\ StateChanged' = TRUE

ForgetOnRelease == StateChanged' = FALSE /\ UNCHANGED <<LastX, LastY, readings>>  \* faulty
Released == UNCHANGED <<point, readings>>

TransferFails == UNCHANGED <<selected, point, readings>>

SyncPoll ==
  \/ TransferFails
  \/ SelectPage(PageF12) /\ (Touched \/ Released)

(* The timer's callback waits while a caller at its own priority runs.     *)
AtAnyTime == polling  \* faulty
MayPoll == polling /\ (call = "none" \/ level = "application")

Between == call \in {"none", "wait"}
Keep == kept' = IF Between /\ readings' # readings THEN readings' ELSE kept

PollTimer ==
  /\ MayPoll /\ SyncPoll /\ Keep
  /\ UNCHANGED <<device, binding, probe, instance, caller>>

-----------------------------------------------------------------------------
(* The protocol, for one caller.                                           *)

Calling == UNCHANGED <<controller, binding, probe, instance, level, readings, kept>>

Begin(what) ==
  /\ installed /\ pc = "idle" /\ call = "none" /\ call' = what
  /\ UNCHANGED <<point, State, got>> /\ Calling

Goes(from, to) == call = from /\ call' = to /\ Calling

KeepChanged == UNCHANGED StateChanged  \* faulty
Consume == StateChanged' = FALSE

AbsPGetState == StateChanged /\ Begin("x")  \* else EFI_NOT_READY
ReadX == Goes("x", "y") /\ State' = [State EXCEPT !.x = LastX] /\ UNCHANGED <<point, got>>
ReadY == Goes("y", "clear") /\ State' = [State EXCEPT !.y = LastY] /\ UNCHANGED <<point, got>>
Deliver ==
  /\ Goes("clear", "none") /\ Consume /\ UNCHANGED <<LastX, LastY>>
  /\ got' = State /\ State' = Nowhere

AbsPReset == Begin("zero_x")
ResetX == Goes("zero_x", "zero_y") /\ LastX' = 0 /\ UNCHANGED <<LastY, StateChanged, State, got>>
ResetY == Goes("zero_y", "forget") /\ LastY' = 0 /\ UNCHANGED <<LastX, StateChanged, State, got>>

(* What was read before is gone: for the history, as if it was delivered.  *)
ResetChanged ==
  /\ Goes("forget", "none") /\ StateChanged' = FALSE
  /\ got' = [x |-> readings, y |-> readings]
  /\ UNCHANGED <<LastX, LastY, State>>

(* WaitForEvent, for callers at TPL_APPLICATION: it checks the event until *)
(* it is signalled, and checking polls the panel at TPL_NOTIFY.            *)
WaitForEvent == level = "application" /\ Begin("wait")

AbsPWaitForInput ==
  /\ call = "wait" /\ SyncPoll /\ Keep
  /\ call' = IF StateChanged' THEN "none" ELSE "wait"
  /\ UNCHANGED <<device, binding, probe, instance, level, State, got>>

-----------------------------------------------------------------------------
StartStep ==
  \/ BusFails \/ LocatedF12 \/ LastPage \/ NextPage \/ NextFunction \/ SwitchPage
  \/ FinishStart \/ CloseEvents
CallStep == ReadX \/ ReadY \/ Deliver \/ ResetX \/ ResetY \/ ResetChanged \/ AbsPWaitForInput

Next ==
  \/ OpenProtocol \/ StartStep \/ UninstallProtocol
  \/ PollTimer
  \/ AbsPGetState \/ AbsPReset \/ WaitForEvent \/ CallStep

Spec == Init /\ [][Next]_vars

(* The code of Start that was entered goes on.                             *)
FairSpec == Spec /\ WF_vars(StartStep)

-----------------------------------------------------------------------------
(* The types; the address and the count of functions stay in their limits. *)
TypeOK ==
  /\ pc \in {"idle", "read", "switch", "found", "close"}
  /\ call \in {"none", "x", "y", "clear", "zero_x", "zero_y", "forget", "wait"}
  /\ level \in {"application", "callback"}
  /\ {opened, installed, polling, Initialized, StateChanged} \subseteq BOOLEAN
  /\ Function \in 0 .. TOUCH_RMI_MAX_FUNCTIONS /\ Address \in 1 .. First
  /\ {Page, PageF12, selected} \subseteq 0 .. 255
  /\ {LastX, LastY, State.x, State.y, got.x, got.y, kept} \subseteq 0 .. readings
  /\ readings \in 0 .. MaxReadings

(* Where the touch function is, for a controller whose earlier pages can   *)
(* be selected, have entries and leave it among the first functions.       *)
EntriesBefore(page) == UNION {{p} \X DOMAIN device.pages[p] : p \in 1 .. page}
HasF12(page, entry) ==
  /\ page + 1 \in DOMAIN device.pages /\ entry \in DOMAIN device.pages[page + 1]
  /\ device.pages[page + 1][entry] = F12
IsF12At(page, entry) ==
  /\ HasF12(page, entry)
  /\ \A e \in 1 .. entry - 1 : device.pages[page + 1][e] # F12
  /\ \A p \in 1 .. page : device.pages[p] # <<>>
  /\ \A p \in 1 .. page : \A e \in DOMAIN device.pages[p] : device.pages[p][e] # F12
  /\ page > 0 => device.paged
  /\ Cardinality(EntriesBefore(page)) + entry - 1 < TOUCH_RMI_MAX_FUNCTIONS

(* The probe of such a controller ends with its touch function, at its     *)
(* page and entry, unless the bus fails: pages are switched at their end,  *)
(* entries are counted down from the top of each.                          *)
ProbeFindsF12 ==
  [][\A page \in 0 .. Len(device.pages), entry \in 1 .. TOUCH_RMI_MAX_FUNCTIONS :
       pc = "found" /\ IsF12At(page, entry)
         => /\ Initialized' /\ PageF12 = page
            /\ TouchDataAddress = First - (entry - 1) * TOUCH_RMI_PAGE_INFO_BYTES]_vars

(* Start ends on every controller, one that ignores the page register and  *)
(* shows the same table for ever included.                                 *)
ProbeEnds == opened ~> pc \in {"idle", "close"}

(* A caller at the priority of the timer's callback, as the start screen   *)
(* is, gets the two coordinates of one reading.                            *)
OneReadingAtCallback == level = "callback" => got.x = got.y

(* Whatever is delivered, torn or not, was read from the touched panel     *)
(* after all that was delivered or reset before, Y no earlier than X: the  *)
(* zeros of AbsPReset and old points never come out, however the timer     *)
(* falls between the steps of AbsPReset and AbsPGetState.                  *)
NewerEachTime ==
  [][call = "clear" /\ call' = "none" => got.y < State.x /\ State.x <= State.y]_vars

(* A touch read while no call was in progress is not lost: it, or a newer  *)
(* one, is delivered or still announced.                                   *)
TouchKept == Between => StateChanged \/ kept <= got.y
=============================================================================

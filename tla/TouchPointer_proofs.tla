------------------------- MODULE TouchPointer_proofs -------------------------
(***************************************************************************)
(* What the caller of the absolute pointer protocol gets, for every        *)
(* controller, any number of readings and every placing of the timer; and  *)
(* that the probe finds the touch function.                                *)
(***************************************************************************)
EXTENDS TouchPointer, FiniteSetTheorems, SequenceTheorems, TLAPS

Calls == {"none", "x", "y", "clear", "zero_x", "zero_y", "forget", "wait"}
Resetting == {"zero_x", "zero_y", "forget"}
States == [x : 0 .. readings, y : 0 .. readings]

HistoryOK ==
  /\ call \in Calls
  /\ readings \in Nat /\ kept \in 0 .. readings
  /\ LastX \in 0 .. readings /\ LastY \in 0 .. readings
  /\ State \in States /\ got \in States

(* The point a caller finds announced, outside of a reset.                 *)
AnnouncedOK ==
  StateChanged /\ call \notin Resetting =>
    /\ got.y < LastX /\ LastX <= LastY
    /\ level = "callback" => LastX = LastY

(* The part of it that AbsPGetState has copied.                            *)
CopiedOK ==
  /\ call \in {"x", "y", "clear"} => StateChanged
  /\ call = "y" =>
       /\ got.y < State.x /\ State.x <= LastY
       /\ level = "callback" => State.x = LastY
  /\ call = "clear" =>
       /\ got.y < State.x /\ State.x <= State.y
       /\ level = "callback" => State.x = State.y
  /\ level = "callback" => got.x = got.y

KeptOK ==
  /\ call \in {"none", "wait", "x", "y"} /\ StateChanged => kept <= LastY
  /\ call = "clear" => kept <= State.y
  /\ call \in {"none", "wait"} /\ ~StateChanged => kept <= got.y

IInv == HistoryOK /\ AnnouncedOK /\ CopiedOK /\ KeptOK

-----------------------------------------------------------------------------
(* The probe.  Nothing else of the driver runs before it has ended.        *)
BindingOK ==
  /\ device \in Devices
  /\ ~opened =>
       /\ pc = "idle" /\ ~polling /\ ~installed
       /\ selected = 0 /\ Page = 0 /\ Address = First /\ Function = 0
  /\ pc \in {"read", "switch", "found"} => opened /\ ~polling /\ ~installed
  /\ call # "none" => installed

(* The entries passed on the page being read, when the probe stands at the *)
(* given one.                                                              *)
EntryAddress(entry) == First - (entry - 1) * TOUCH_RMI_PAGE_INFO_BYTES
Before(page) == Cardinality(EntriesBefore(page))

Passes(page, entry, p, cur) ==
  /\ p \in 0 .. page /\ cur \in Nat \ {0}
  /\ p = page => cur <= entry
  /\ p < page => cur <= Len(device.pages[p + 1]) + 1

AtEntry(page, entry, cur) ==
  /\ Passes(page, entry, Page, cur)
  /\ Address = EntryAddress(cur) /\ Function = Before(Page) + cur - 1

OnTheWay(page) == Page \in 0 .. page /\ Page <= Before(Page)

(* Its way to the touch function that is there.                            *)
ProbeOK(page, entry) ==
  /\ pc = "read" =>
       OnTheWay(page) /\ selected = Page /\ (\E cur \in Nat \ {0} : AtEntry(page, entry, cur))
  /\ pc = "switch" =>
       OnTheWay(page) /\ Page > 0 /\ Address = First /\ Function = Before(Page)
  /\ pc = "found" =>
       /\ PageF12 = page /\ TouchDataAddress = EntryAddress(entry)
       /\ Function \in 0 .. TOUCH_RMI_MAX_FUNCTIONS - 1 /\ Address \in 1 .. First

Places == Nat \X (Nat \ {0})
ProbeInv ==
  /\ BindingOK
  /\ \A place \in Places : IsF12At(place[1], place[2]) => ProbeOK(place[1], place[2])

-----------------------------------------------------------------------------
seen == <<LastX, LastY, StateChanged, level, call, State, got, readings, kept>>

LEMMA InitInv == Init => IInv
<1> SUFFICES ASSUME Init PROVE IInv
  OBVIOUS
<1>1. HistoryOK
  BY DEF Init, HistoryOK, Calls, States, Nowhere
<1>2. AnnouncedOK /\ CopiedOK /\ KeptOK
  BY DEF Init, AnnouncedOK, CopiedOK, KeptOK, Nowhere
<1>3. QED
  BY <1>1, <1>2 DEF IInv

LEMMA UnseenInv == ASSUME IInv, UNCHANGED seen PROVE IInv'
  BY DEF seen, IInv, HistoryOK, AnnouncedOK, CopiedOK, KeptOK, States

(* Starting and stopping the driver does not touch the protocol's state.   *)
LEMMA BindingInv ==
  ASSUME IInv, OpenProtocol \/ StartStep \/ UninstallProtocol
  PROVE  IInv'
<1>1. UNCHANGED seen
  BY DEF OpenProtocol, StartStep, UninstallProtocol, BusFails, LocatedF12, LastPage, NextPage,
         NextFunction, SwitchPage, FinishStart, CloseEvents, Probing, seen, caller, point
<1>2. QED
  BY <1>1, UnseenInv

(* The poll: all it can change is the point, to a new reading.             *)
LEMMA PollLemma ==
  ASSUME SyncPoll
  PROVE  \/ UNCHANGED <<LastX, LastY, StateChanged, readings>>
         \/ /\ readings' = readings + 1
            /\ LastX' = readings + 1 /\ LastY' = readings + 1 /\ StateChanged' = TRUE
  BY DEF SyncPoll, TransferFails, Released, Touched, point

LEMMA PollTimerInv ==
  ASSUME IInv, PollTimer
  PROVE  IInv'
<1>1. UNCHANGED <<level, call, State, got>> /\ (call = "none" \/ level = "application")
  BY DEF PollTimer, MayPoll, caller
<1>2. CASE UNCHANGED <<LastX, LastY, StateChanged, readings>>
  <2>1. UNCHANGED seen
    BY <1>1, <1>2 DEF PollTimer, Keep, seen
  <2>2. QED
    BY <2>1, UnseenInv
<1>3. CASE /\ readings' = readings + 1
           /\ LastX' = readings + 1 /\ LastY' = readings + 1 /\ StateChanged' = TRUE
  <2>1. readings' # readings /\ kept' = IF Between THEN readings' ELSE kept
    BY <1>3 DEF PollTimer, Keep, IInv, HistoryOK
  <2>2. HistoryOK'
    BY <1>1, <1>3, <2>1 DEF IInv, HistoryOK, States
  <2>3. AnnouncedOK'
    BY <1>1, <1>3 DEF IInv, HistoryOK, AnnouncedOK, States
  <2>4. CopiedOK'
    BY <1>1, <1>3 DEF IInv, HistoryOK, CopiedOK, States
  <2>5. KeptOK'
    BY <1>1, <1>3, <2>1 DEF IInv, HistoryOK, KeptOK, Between, States
  <2>6. QED
    BY <2>2, <2>3, <2>4, <2>5 DEF IInv
<1>4. QED
  BY <1>2, <1>3, PollLemma DEF PollTimer

LEMMA WaitInv ==
  ASSUME IInv, AbsPWaitForInput
  PROVE  IInv'
<1>1. /\ UNCHANGED <<level, State, got>> /\ call = "wait" /\ call' \in {"none", "wait"}
      /\ Between
  BY DEF AbsPWaitForInput, Between
<1>2. CASE UNCHANGED <<LastX, LastY, StateChanged, readings>>
  <2>1. kept' = kept
    BY <1>2 DEF AbsPWaitForInput, Keep
  <2>2. QED
    BY <1>1, <1>2, <2>1
    DEF IInv, HistoryOK, AnnouncedOK, CopiedOK, KeptOK, Calls, Resetting, States
<1>3. CASE /\ readings' = readings + 1
           /\ LastX' = readings + 1 /\ LastY' = readings + 1 /\ StateChanged' = TRUE
  <2>1. kept' = readings + 1
    BY <1>1, <1>3 DEF AbsPWaitForInput, Keep, IInv, HistoryOK
  <2>2. HistoryOK'
    BY <1>1, <1>3, <2>1 DEF IInv, HistoryOK, Calls, States
  <2>3. AnnouncedOK' /\ CopiedOK'
    BY <1>1, <1>3 DEF IInv, HistoryOK, AnnouncedOK, CopiedOK, States
  <2>4. KeptOK'
    BY <1>1, <1>3, <2>1 DEF IInv, HistoryOK, KeptOK
  <2>5. QED
    BY <2>2, <2>3, <2>4 DEF IInv
<1>4. QED
  BY <1>2, <1>3, PollLemma DEF AbsPWaitForInput

(* The steps of the caller's own calls.                                    *)
LEMMA CallInv ==
  ASSUME IInv,
         \/ AbsPGetState \/ AbsPReset \/ WaitForEvent
         \/ ReadX \/ ReadY \/ Deliver \/ ResetX \/ ResetY \/ ResetChanged
  PROVE  IInv'
<1> USE DEF IInv, HistoryOK, AnnouncedOK, CopiedOK, KeptOK, Calls, Resetting, States,
            Begin, Goes, Calling, point
<1>1. CASE AbsPGetState
  BY <1>1 DEF AbsPGetState
<1>2. CASE AbsPReset
  BY <1>2 DEF AbsPReset
<1>3. CASE WaitForEvent
  BY <1>3 DEF WaitForEvent
<1>4. CASE ReadX
  BY <1>4 DEF ReadX
<1>5. CASE ReadY
  BY <1>5 DEF ReadY
<1>6. CASE Deliver
  BY <1>6 DEF Deliver, Consume, Nowhere
<1>7. CASE ResetX
  BY <1>7 DEF ResetX
<1>8. CASE ResetY
  BY <1>8 DEF ResetY
<1>9. CASE ResetChanged
  BY <1>9 DEF ResetChanged
<1>10. QED
  BY <1>1, <1>2, <1>3, <1>4, <1>5, <1>6, <1>7, <1>8, <1>9

LEMMA NextInv == IInv /\ [Next]_vars => IInv'
<1> SUFFICES ASSUME IInv, [Next]_vars PROVE IInv'
  OBVIOUS
<1>1. CASE UNCHANGED vars
  <2>1. UNCHANGED seen
    BY <1>1 DEF vars, seen, point, caller
  <2>2. QED
    BY <2>1, UnseenInv
<1>2. QED
  BY <1>1, BindingInv, PollTimerInv, WaitInv, CallInv DEF Next, CallStep

LEMMA Invariance == Spec => []IInv
  BY InitInv, NextInv, PTL DEF Spec

(* A touch read between two calls is delivered or still announced.         *)
THEOREM TouchIsKept == Spec => []TouchKept
<1>1. IInv => TouchKept
  BY DEF IInv, KeptOK, TouchKept, Between
<1>2. QED
  BY <1>1, Invariance, PTL

(* The start screen's caller gets both coordinates from one reading.       *)
THEOREM OneReading == Spec => []OneReadingAtCallback
<1>1. IInv => OneReadingAtCallback
  BY DEF IInv, CopiedOK, OneReadingAtCallback
<1>2. QED
  BY <1>1, Invariance, PTL

(* No point is delivered twice, none from before a reset, and no zeros.    *)
THEOREM EachIsNewer == Spec => NewerEachTime
<1>1. IInv /\ [Next]_vars
        => (call = "clear" /\ call' = "none" => got.y < State.x /\ State.x <= State.y)
  BY DEF IInv, CopiedOK
<1>2. QED
  BY <1>1, Invariance, PTL DEF Spec, NewerEachTime

-----------------------------------------------------------------------------
(* The tables of the devices, and the entries counted on the way.          *)
LEMMA DeviceTables ==
  ASSUME device \in Devices
  PROVE  /\ device.pages \in Seq(Seq(1 .. 255))
         /\ \A p \in DOMAIN device.pages :
              device.pages[p] \in Seq(1 .. 255) /\ DOMAIN device.pages[p] = 1 .. Len(device.pages[p])
<1>1. device.pages \in Seq(Seq(1 .. 255))
  BY TouchAssumption
<1>2. QED
  BY <1>1

LEMMA PageCount ==
  ASSUME device \in Devices, NEW p \in DOMAIN device.pages
  PROVE  /\ IsFiniteSet({p} \X DOMAIN device.pages[p])
         /\ Cardinality({p} \X DOMAIN device.pages[p]) = Len(device.pages[p])
<1> DEFINE n == Len(device.pages[p])
<1>1. DOMAIN device.pages[p] = 1 .. n /\ n \in Nat
  BY DeviceTables
<1>2. IsFiniteSet(1 .. n) /\ Cardinality(1 .. n) = n
  BY <1>1, FS_Interval
<1>3. IsFiniteSet({p}) /\ Cardinality({p}) = 1
  BY FS_Singleton
<1>4. IsFiniteSet({p} \X (1 .. n)) /\ Cardinality({p} \X (1 .. n)) = 1 * n
  BY <1>2, <1>3, FS_Product, ZenonT(60)
<1>5. QED
  BY <1>1, <1>4

LEMMA CountBefore ==
  ASSUME device \in Devices, NEW page \in Nat, page <= Len(device.pages)
  PROVE  IsFiniteSet(EntriesBefore(page)) /\ Before(page) \in Nat
<1> DEFINE Of(p) == {p} \X DOMAIN device.pages[p]
           All == {Of(p) : p \in 1 .. page}
           f == [p \in 1 .. page |-> Of(p)]
<1>1. 1 .. page \subseteq DOMAIN device.pages
  BY DeviceTables
<1>2. f \in Surjection(1 .. page, All)
  BY DEF Surjection
<1>3. IsFiniteSet(All)
  BY <1>2, FS_Surjection, FS_Interval
<1>4. \A T \in All : IsFiniteSet(T)
  BY <1>1, PageCount
<1>5. IsFiniteSet(UNION All)
  <2> HIDE DEF All
  <2> QED BY <1>3, <1>4, FS_UNION
<1>6. QED
  BY <1>5, FS_CardinalityType DEF EntriesBefore, Before

LEMMA CountNext ==
  ASSUME device \in Devices, NEW page \in Nat, page + 1 \in DOMAIN device.pages
  PROVE  Before(page + 1) = Before(page) + Len(device.pages[page + 1])
<1> DEFINE S == EntriesBefore(page)
           T == {page + 1} \X DOMAIN device.pages[page + 1]
<1>1. page <= Len(device.pages)
  BY DeviceTables
<1>2. IsFiniteSet(S) /\ Before(page) \in Nat
  BY <1>1, CountBefore
<1>3. IsFiniteSet(T) /\ Cardinality(T) = Len(device.pages[page + 1])
  BY PageCount
<1>4. 1 .. page + 1 = (1 .. page) \cup {page + 1} /\ page + 1 \notin 1 .. page
  OBVIOUS
<1>5. EntriesBefore(page + 1) = S \cup T
  BY <1>4 DEF EntriesBefore
<1>6. S \cap T = {}
  BY <1>4 DEF EntriesBefore
<1>7. Cardinality(S \cup T) = Cardinality(S) + Cardinality(T) - Cardinality({})
  <2> HIDE DEF S, T
  <2> QED BY <1>2, <1>3, <1>6, FS_Union
<1>8. Cardinality(S) + Len(device.pages[page + 1]) - 0 = Cardinality(S) + Len(device.pages[page + 1])
  BY <1>2, DeviceTables DEF Before
<1>9. QED
  BY <1>3, <1>5, <1>7, <1>8, FS_EmptySet DEF Before

LEMMA CountNone == Before(0) = 0
<1>1. EntriesBefore(0) = {}
  BY DEF EntriesBefore
<1>2. QED
  BY <1>1, FS_EmptySet DEF Before

LEMMA CountMonotone ==
  ASSUME device \in Devices, NEW page \in Nat, page <= Len(device.pages), NEW p \in 0 .. page
  PROVE  Before(p) <= Before(page)
<1>1. EntriesBefore(p) \subseteq EntriesBefore(page)
  BY DEF EntriesBefore
<1>2. QED
  BY <1>1, CountBefore, FS_Subset DEF Before

-----------------------------------------------------------------------------
(* The way to the touch function stays within the limits of the probe.     *)
LEMMA Multiples ==
  ASSUME NEW b \in Nat \ {0}, NEW k \in Nat, NEW m \in Nat, k <= m
  PROVE  k * b \in Nat /\ (k * b) \div b = k /\ k * b <= m * b /\ (k = 0 <=> k * b = 0)
         /\ (k + 1) * b = k * b + b
  OBVIOUS

LEMMA Addresses ==
  ASSUME NEW cur \in Nat \ {0}, cur <= TOUCH_RMI_MAX_FUNCTIONS
  PROVE  /\ EntryAddress(cur) \in 1 .. First /\ First <= 255
         /\ (First - EntryAddress(cur)) \div TOUCH_RMI_PAGE_INFO_BYTES = cur - 1
         /\ EntryAddress(cur) = First <=> cur = 1
         /\ EntryAddress(cur + 1) = EntryAddress(cur) - TOUCH_RMI_PAGE_INFO_BYTES
<1> DEFINE b == TOUCH_RMI_PAGE_INFO_BYTES
           m == TOUCH_RMI_MAX_FUNCTIONS
           k == (cur - 1) * b
<1>1. b \in Nat \ {0} /\ m \in Nat /\ First \in 0 .. 255 /\ m * b < First
  BY TouchAssumption DEF First
<1>2. cur - 1 \in Nat /\ cur - 1 <= m
  BY <1>1
<1>3. /\ k \in Nat /\ k \div b = cur - 1 /\ k <= m * b /\ (cur - 1 = 0 <=> k = 0)
      /\ ((cur - 1) + 1) * b = k + b /\ m * b \in Nat
  <2> HIDE DEF b, m
  <2> QED BY <1>1, <1>2, Multiples
<1>4. EntryAddress(cur) = First - k
  BY DEF EntryAddress
<1>5. EntryAddress(cur + 1) = First - (k + b)
  <2>1. EntryAddress(cur + 1) = First - ((cur + 1) - 1) * b
    BY DEF EntryAddress
  <2>2. (cur + 1) - 1 = (cur - 1) + 1
    OBVIOUS
  <2>3. QED
    BY <2>1, <2>2, <1>3
<1>6. First - (First - k) = k
  <2> HIDE DEF k
  <2> QED BY <1>1, <1>3
<1>7. QED
  <2> HIDE DEF k, b, m
  <2>1. EntryAddress(cur) \in 1 .. First /\ (EntryAddress(cur) = First <=> cur = 1)
    BY <1>1, <1>3, <1>4
  <2>2. (First - EntryAddress(cur)) \div b = cur - 1
    BY <1>3, <1>4, <1>6
  <2>3. EntryAddress(cur + 1) = EntryAddress(cur) - b
    BY <1>1, <1>3, <1>4, <1>5
  <2>4. QED
    BY <2>1, <2>2, <2>3, <1>1 DEF b

LEMMA Within ==
  ASSUME device \in Devices, NEW page \in Nat, NEW entry \in Nat \ {0}, IsF12At(page, entry),
         NEW p, NEW cur, Passes(page, entry, p, cur)
  PROVE  /\ p + 1 \in DOMAIN device.pages /\ Before(p) \in Nat
         /\ Len(device.pages[p + 1]) \in Nat
         /\ Before(p) + cur - 1 < TOUCH_RMI_MAX_FUNCTIONS /\ cur <= TOUCH_RMI_MAX_FUNCTIONS
<1> DEFINE m == TOUCH_RMI_MAX_FUNCTIONS
<1>1. /\ page + 1 \in DOMAIN device.pages /\ DOMAIN device.pages = 1 .. Len(device.pages)
      /\ Len(device.pages) \in Nat
  BY DeviceTables DEF IsF12At, HasF12
<1>2. /\ p \in 0 .. page /\ cur \in Nat \ {0}
      /\ p + 1 \in DOMAIN device.pages /\ p <= Len(device.pages) /\ page <= Len(device.pages)
  BY <1>1 DEF Passes
<1>3. /\ Before(p) \in Nat /\ Before(page) \in Nat /\ m \in Nat
      /\ Before(page) + entry - 1 < m
  BY <1>2, CountBefore, TouchAssumption DEF IsF12At, Before
<1>4. Len(device.pages[p + 1]) \in Nat
  BY <1>2, DeviceTables
<1>5. Before(p) + cur - 1 < m
  <2>1. CASE p = page
    BY <2>1, <1>2, <1>3 DEF Passes
  <2>2. CASE p # page
    <3>1. p + 1 \in 0 .. page /\ cur <= Len(device.pages[p + 1]) + 1
      BY <2>2, <1>2 DEF Passes
    <3>2. Before(p + 1) = Before(p) + Len(device.pages[p + 1])
      BY <1>2, CountNext
    <3>3. Before(p + 1) <= Before(page)
      BY <3>1, <1>2, CountMonotone
    <3>4. \A l, c, e, old, new, all \in Int :
            c <= l + 1 /\ new = old + l /\ new <= all /\ all + e - 1 < m /\ e > 0
              => old + c - 1 < m
      <4> HIDE DEF m
      <4> QED BY <1>3
    <3>5. /\ {cur, entry, Before(p), Before(page), Len(device.pages[p + 1])} \subseteq Int
          /\ entry > 0
      BY <1>2, <1>3, <1>4
    <3>6. Before(p + 1) \in Int
      BY <3>2, <1>3, <1>4
    <3>7. QED
      BY <3>1, <3>2, <3>3, <3>4, <3>5, <3>6, <1>3, Zenon
  <2>3. QED
    BY <2>1, <2>2
<1>6. QED
  BY <1>2, <1>3, <1>4, <1>5

LEMMA InfoHere ==
  ASSUME device \in Devices, NEW p \in Nat, p + 1 \in DOMAIN device.pages,
         NEW cur \in Nat \ {0}, cur <= TOUCH_RMI_MAX_FUNCTIONS
  PROVE  InfoAt(p, EntryAddress(cur))
           = IF cur <= Len(device.pages[p + 1]) THEN device.pages[p + 1][cur] ELSE 0
<1>1. p < Len(device.pages)
  BY DeviceTables
<1>2. 1 + (First - EntryAddress(cur)) \div TOUCH_RMI_PAGE_INFO_BYTES = cur
  BY Addresses
<1>3. QED
  BY <1>1, <1>2 DEF InfoAt

-----------------------------------------------------------------------------
(* The steps of the probe.                                                 *)
LEMMA BindingInit == Init => BindingOK
  BY DEF Init, BindingOK

LEMMA BindingNext == BindingOK /\ [Next]_vars => BindingOK'
<1> SUFFICES ASSUME BindingOK, [Next]_vars PROVE BindingOK'
  OBVIOUS
<1> USE DEF BindingOK
<1>1. CASE UNCHANGED vars
  BY <1>1 DEF vars, controller, binding, probe, caller
<1>2. CASE OpenProtocol
  BY <1>2 DEF OpenProtocol, controller, probe, caller
<1>3. CASE StartStep
  <2>1. CASE BusFails \/ LocatedF12 \/ LastPage
    BY <2>1 DEF BusFails, LocatedF12, LastPage, Fail, Probing, probe, caller
  <2>2. CASE NextPage
    BY <2>2 DEF NextPage, Probing, caller
  <2>3. CASE NextFunction
    BY <2>3 DEF NextFunction, Probing, caller
  <2>4. CASE SwitchPage
    BY <2>4 DEF SwitchPage, Probing, probe, caller
  <2>5. CASE FinishStart
    BY <2>5 DEF FinishStart, Fail, controller, probe, caller
  <2>6. CASE CloseEvents
    BY <2>6 DEF CloseEvents, controller, probe, caller
  <2>7. QED
    BY <1>3, <2>1, <2>2, <2>3, <2>4, <2>5, <2>6 DEF StartStep
<1>4. CASE UninstallProtocol
  BY <1>4 DEF UninstallProtocol, controller, probe, caller
<1>5. CASE PollTimer
  BY <1>5 DEF PollTimer, MayPoll, binding, probe, caller
<1>6. CASE AbsPGetState \/ AbsPReset \/ WaitForEvent
  BY <1>6 DEF AbsPGetState, AbsPReset, WaitForEvent, Begin, Calling, controller, binding, probe
<1>7. CASE ReadX \/ ReadY \/ Deliver \/ ResetX \/ ResetY \/ ResetChanged
  BY <1>7 DEF ReadX, ReadY, Deliver, ResetX, ResetY, ResetChanged, Goes, Calling, controller,
              binding, probe
<1>8. CASE AbsPWaitForInput
  BY <1>8 DEF AbsPWaitForInput, binding, probe
<1>9. QED
  BY <1>1, <1>2, <1>3, <1>4, <1>5, <1>6, <1>7, <1>8 DEF Next, CallStep

(* What the driver does besides starting leaves a probe alone.             *)
LEMMA OnlyProbing ==
  ASSUME BindingOK, [Next]_vars, pc' \in {"read", "switch", "found"}
  PROVE  \/ UNCHANGED <<controller, pc, probe, PageF12, TouchDataAddress>>
         \/ OpenProtocol \/ LocatedF12 \/ LastPage \/ NextPage \/ NextFunction \/ SwitchPage
<1> USE DEF BindingOK
<1>1. CASE UNCHANGED vars
  BY <1>1 DEF vars, binding, instance
<1>2. CASE StartStep \/ UninstallProtocol \/ OpenProtocol
  BY <1>2 DEF StartStep, BusFails, FinishStart, CloseEvents, Fail, UninstallProtocol
<1>3. CASE PollTimer \/ AbsPGetState \/ AbsPReset \/ WaitForEvent
  BY <1>3 DEF PollTimer, MayPoll, binding, AbsPGetState, AbsPReset, WaitForEvent, Begin, Calling
<1>4. CASE ReadX \/ ReadY \/ Deliver \/ ResetX \/ ResetY \/ ResetChanged \/ AbsPWaitForInput
  BY <1>4 DEF ReadX, ReadY, Deliver, ResetX, ResetY, ResetChanged, AbsPWaitForInput, Goes,
              Calling, binding
<1>5. QED
  BY <1>1, <1>2, <1>3, <1>4 DEF Next, CallStep

LEMMA SameTables ==
  ASSUME device' = device, NEW page \in Nat, NEW entry \in Nat \ {0}
  PROVE  /\ IsF12At(page, entry)' <=> IsF12At(page, entry)
         /\ \A p : Before(p)' = Before(p)
         /\ \A p, cur : Passes(page, entry, p, cur)' <=> Passes(page, entry, p, cur)
<1>1. \A p : EntriesBefore(p)' = EntriesBefore(p)
  BY DEF EntriesBefore
<1>2. IsF12At(page, entry)' <=> IsF12At(page, entry)
  BY <1>1 DEF IsF12At, HasF12
<1>3. QED
  BY <1>1, <1>2 DEF Before, Passes

(* Where a probe stands that reads an entry, and what the entry tells.     *)
LEMMA Reading ==
  ASSUME device \in Devices, NEW page \in Nat, NEW entry \in Nat \ {0}, IsF12At(page, entry),
         OnTheWay(page), selected = Page, NEW cur \in Nat \ {0}, AtEntry(page, entry, cur)
  PROVE  /\ Page + 1 \in DOMAIN device.pages /\ Before(Page) \in Nat
         /\ Function < TOUCH_RMI_MAX_FUNCTIONS /\ cur <= TOUCH_RMI_MAX_FUNCTIONS
         /\ Address > 0 /\ (Address = First <=> cur = 1)
         /\ InfoAt(selected, Address) =
              IF cur <= Len(device.pages[Page + 1]) THEN device.pages[Page + 1][cur] ELSE 0
         /\ Page < page /\ cur <= Len(device.pages[Page + 1])
              => InfoAt(selected, Address) \notin {0, F12}
         /\ Page = page => InfoAt(selected, Address) # 0
                           /\ (InfoAt(selected, Address) = F12 <=> cur = entry)
<1> DEFINE table == device.pages[Page + 1]
<1>1. Passes(page, entry, Page, cur) /\ Address = EntryAddress(cur)
      /\ Function = Before(Page) + cur - 1 /\ Page \in Nat /\ Page <= page
  BY DEF AtEntry, OnTheWay
<1>2. /\ Page + 1 \in DOMAIN device.pages /\ Before(Page) \in Nat
      /\ Function < TOUCH_RMI_MAX_FUNCTIONS /\ cur <= TOUCH_RMI_MAX_FUNCTIONS
  BY <1>1, Within
<1>3. Address > 0 /\ (Address = First <=> cur = 1)
  BY <1>1, <1>2, Addresses
<1>4. InfoAt(selected, Address) = IF cur <= Len(table) THEN table[cur] ELSE 0
  BY <1>1, <1>2, InfoHere
<1>5. table \in Seq(1 .. 255) /\ DOMAIN table = 1 .. Len(table) /\ Len(table) \in Nat
  BY <1>2, DeviceTables
<1>6. cur <= Len(table) => table[cur] \in 1 .. 255
  <2>1. \A s \in Seq(1 .. 255) : \A c \in 1 .. Len(s) : s[c] \in 1 .. 255
    BY ElementOfSeq
  <2>2. cur <= Len(table) => cur \in 1 .. Len(table)
    BY <1>5
  <2>3. QED
    BY <2>1, <2>2, <1>5, Zenon
<1>7. ASSUME Page < page, cur <= Len(table)
      PROVE  table[cur] # F12
  <2>1. Page + 1 \in 1 .. page
    BY <1>1, <1>7
  <2>2. QED
    BY <2>1, <1>5, <1>7 DEF IsF12At
<1>8. ASSUME Page = page
      PROVE  cur <= Len(table) /\ (table[cur] = F12 <=> cur = entry)
  <2>1. entry \in DOMAIN table /\ table[entry] = F12 /\ \A e \in 1 .. entry - 1 : table[e] # F12
    BY <1>8 DEF IsF12At, HasF12
  <2>2. cur <= entry
    BY <1>1, <1>8 DEF Passes
  <2>3. QED
    BY <2>1, <2>2, <1>5
<1>9. QED
  <2>1. cur <= Len(table)
          => InfoAt(selected, Address) # 0 /\ InfoAt(selected, Address) = table[cur]
    <3>1. SUFFICES ASSUME cur <= Len(table)
                   PROVE  InfoAt(selected, Address) # 0 /\ InfoAt(selected, Address) = table[cur]
      OBVIOUS
    <3>2. InfoAt(selected, Address) = table[cur]
      BY <3>1, <1>4, Zenon
    <3>3. \A e \in 1 .. 255 : e # 0
      OBVIOUS
    <3>4. QED
      BY <3>1, <3>2, <3>3, <1>6, Zenon
  <2>2. Page < page /\ cur <= Len(table) => InfoAt(selected, Address) \notin {0, F12}
    BY <2>1, <1>7
  <2>3. QED
    BY <2>1, <2>2, <1>2, <1>3, <1>4, <1>8

LEMMA NextFunctionOnTheWay ==
  ASSUME device \in Devices, NEW page \in Nat, NEW entry \in Nat \ {0}, IsF12At(page, entry),
         ProbeOK(page, entry), NextFunction
  PROVE  ProbeOK(page, entry)'
<1>1. /\ pc = "read" /\ InfoAt(selected, Address) \notin {0, F12}
      /\ device' = device /\ selected' = selected /\ Page' = Page /\ Function' = Function + 1
      /\ Address' = (Address - TOUCH_RMI_PAGE_INFO_BYTES) % 256
      /\ pc' = IF GoesOn(Address', Function') THEN "read" ELSE "found"
  BY DEF NextFunction, Probing
<1>2. PICK cur \in Nat \ {0} :
        OnTheWay(page) /\ selected = Page /\ AtEntry(page, entry, cur)
  BY <1>1 DEF ProbeOK
<1>3. /\ Page \in 0 .. page /\ Address = EntryAddress(cur) /\ Before(Page) \in Nat
      /\ Function = Before(Page) + cur - 1 /\ Function \in Int
  BY <1>2, Reading DEF AtEntry, OnTheWay
<1>4. Passes(page, entry, Page, cur + 1)
  <2>1. CASE Page = page
    BY <2>1, <1>1, <1>2, <1>3, Reading DEF Passes, AtEntry
  <2>2. CASE Page < page
    <3>1. cur <= Len(device.pages[Page + 1])
      BY <2>2, <1>1, <1>2, Reading
    <3>2. Len(device.pages[Page + 1]) \in Nat
      BY <1>2, Reading, DeviceTables
    <3>3. QED
      BY <2>2, <3>1, <3>2, <1>3 DEF Passes
  <2>3. QED
    BY <2>1, <2>2, <1>3
<1>5. /\ Before(Page) + (cur + 1) - 1 < TOUCH_RMI_MAX_FUNCTIONS
      /\ cur + 1 <= TOUCH_RMI_MAX_FUNCTIONS
  BY <1>4, Within
<1>6. /\ EntryAddress(cur + 1) = EntryAddress(cur) - TOUCH_RMI_PAGE_INFO_BYTES
      /\ EntryAddress(cur + 1) \in 1 .. First /\ First <= 255 /\ First \in Nat
  BY <1>2, <1>5, Reading, Addresses, TouchAssumption DEF First
<1>7. Address' = EntryAddress(cur + 1) /\ Address' > 0
  BY <1>1, <1>3, <1>6
<1>8. Function' = Before(Page) + (cur + 1) - 1 /\ Function' < TOUCH_RMI_MAX_FUNCTIONS
  BY <1>1, <1>3, <1>5
<1>9. pc' = "read"
  BY <1>1, <1>7, <1>8 DEF GoesOn
<1>10. AtEntry(page, entry, cur + 1)'
  BY <1>1, <1>4, <1>7, <1>8, SameTables DEF AtEntry, EntryAddress, First
<1>11. OnTheWay(page)' /\ selected' = Page'
  BY <1>1, <1>2, SameTables DEF OnTheWay
<1>12. cur + 1 \in Nat \ {0}
  OBVIOUS
<1>13. QED
  BY <1>9, <1>10, <1>11, <1>12 DEF ProbeOK

LEMMA NextPageOnTheWay ==
  ASSUME device \in Devices, NEW page \in Nat, NEW entry \in Nat \ {0}, IsF12At(page, entry),
         ProbeOK(page, entry), NextPage
  PROVE  ProbeOK(page, entry)'
<1>1. /\ pc = "read" /\ InfoAt(selected, Address) = 0 /\ Address # First
      /\ device' = device /\ Page' = (Page + 1) % 256 /\ Address' = First /\ pc' = "switch"
      /\ Function' = Function
  BY DEF NextPage, Probing, KeepCount
<1>2. PICK cur \in Nat \ {0} :
        OnTheWay(page) /\ selected = Page /\ AtEntry(page, entry, cur)
  BY <1>1 DEF ProbeOK
<1> DEFINE n == Len(device.pages[Page + 1])
<1>3. /\ Page \in 0 .. page /\ Before(Page) \in Nat /\ Page <= Before(Page)
      /\ Function = Before(Page) + cur - 1 /\ n \in Nat
      /\ Page + 1 \in DOMAIN device.pages /\ Function < TOUCH_RMI_MAX_FUNCTIONS
  BY <1>2, Reading, DeviceTables DEF AtEntry, OnTheWay
<1>4. Page < page
  BY <1>1, <1>2, <1>3, Reading
<1>5. cur = n + 1
  <2>1. cur <= n + 1
    BY <1>2, <1>4 DEF AtEntry, Passes
  <2>2. ~(cur <= n)
    BY <1>1, <1>2, <1>4, Reading
  <2>3. QED
    BY <2>1, <2>2, <1>3
<1>6. n > 0
  BY <1>1, <1>2, <1>3, <1>5, Reading
<1>7. Before(Page + 1) = Before(Page) + n
  BY <1>3, CountNext
<1>8. Function = Before(Page + 1) /\ Page + 1 <= Before(Page + 1)
  BY <1>3, <1>5, <1>6, <1>7
<1>9. TOUCH_RMI_MAX_FUNCTIONS < 256
  <2>1. \A m, b \in Nat \ {0} : m <= m * b
    OBVIOUS
  <2>2. \A m, b \in Nat \ {0}, f \in 0 .. 255 : f > m * b => m < 256
    BY <2>1
  <2>3. QED
    BY <2>2, TouchAssumption
<1>10. Page + 1 < 256
  BY <1>3, <1>8, <1>9, TouchAssumption
<1>11. Page' = Page + 1
  BY <1>1, <1>3, <1>10
<1>12. OnTheWay(page)' /\ Page' > 0 /\ Address' = First' /\ (Function = Before(Page))'
  BY <1>1, <1>3, <1>4, <1>8, <1>11, SameTables DEF OnTheWay, First
<1>13. QED
  BY <1>1, <1>12 DEF ProbeOK

LEMMA SwitchPageOnTheWay ==
  ASSUME device \in Devices, NEW page \in Nat, NEW entry \in Nat \ {0}, IsF12At(page, entry),
         ProbeOK(page, entry), SwitchPage
  PROVE  ProbeOK(page, entry)'
<1>1. /\ pc = "switch" /\ selected' = (IF device.paged THEN Page ELSE selected)
      /\ device' = device /\ UNCHANGED <<Page, Address, Function>>
      /\ pc' = IF GoesOn(Address, Function) THEN "read" ELSE "found"
  BY DEF SwitchPage, SelectPage, Probing, probe
<1>2. OnTheWay(page) /\ Page > 0 /\ Address = First /\ Function = Before(Page)
  BY <1>1 DEF ProbeOK
<1>3. Page \in 0 .. page /\ page > 0
  BY <1>2 DEF OnTheWay
<1>4. selected' = Page'
  BY <1>1, <1>3 DEF IsF12At
<1>5. Page + 1 \in DOMAIN device.pages
  BY <1>3, DeviceTables DEF IsF12At, HasF12
<1>6. Passes(page, entry, Page, 1)
  BY <1>3, <1>5, DeviceTables DEF Passes
<1>7. /\ Before(Page) \in Nat /\ Before(Page) + 1 - 1 < TOUCH_RMI_MAX_FUNCTIONS
      /\ 1 <= TOUCH_RMI_MAX_FUNCTIONS
  BY <1>6, Within
<1>8. EntryAddress(1) = First /\ First \in 1 .. First
  BY <1>7, Addresses
<1>9. pc' = "read"
  BY <1>1, <1>2, <1>7, <1>8 DEF GoesOn
<1>10. AtEntry(page, entry, 1)' /\ OnTheWay(page)'
  BY <1>1, <1>2, <1>6, <1>7, <1>8, SameTables DEF AtEntry, OnTheWay, EntryAddress, First
<1>11. QED
  BY <1>4, <1>9, <1>10 DEF ProbeOK

LEMMA FoundOnTheWay ==
  ASSUME device \in Devices, NEW page \in Nat, NEW entry \in Nat \ {0}, IsF12At(page, entry),
         ProbeOK(page, entry), LocatedF12 \/ LastPage
  PROVE  ProbeOK(page, entry)'
<1>1. pc = "read" /\ pc' = "found" /\ UNCHANGED <<device, Page, Address, Function>>
  BY DEF LocatedF12, LastPage, Probing, probe
<1>2. PICK cur \in Nat \ {0} :
        OnTheWay(page) /\ selected = Page /\ AtEntry(page, entry, cur)
  BY <1>1 DEF ProbeOK
<1>3. Page \in 0 .. page /\ Address = EntryAddress(cur)
  BY <1>2 DEF AtEntry, OnTheWay
<1>4. Page < page => cur <= Len(device.pages[Page + 1]) + 1
  BY <1>2 DEF AtEntry, Passes
<1>5. ~LastPage
  <2>1. SUFFICES ASSUME LastPage PROVE FALSE
    OBVIOUS
  <2>2. InfoAt(selected, Address) = 0 /\ Address = First
    BY <2>1 DEF LastPage
  <2>3. cur = 1 /\ Page < page
    BY <2>2, <1>2, <1>3, Reading
  <2>4. Page + 1 \in 1 .. page /\ Page + 1 \in DOMAIN device.pages
    BY <2>3, <1>2, <1>3, Reading
  <2>5. 1 <= Len(device.pages[Page + 1])
    <3>1. device.pages[Page + 1] # <<>> /\ device.pages[Page + 1] \in Seq(1 .. 255)
      BY <2>4, DeviceTables DEF IsF12At
    <3>2. \A s \in Seq(1 .. 255) : s # <<>> => 1 <= Len(s)
      OBVIOUS
    <3>3. QED
      BY <3>1, <3>2
  <2>6. QED
    BY <2>2, <2>3, <2>5, <1>2, Reading
<1>6. InfoAt(selected, Address) = F12 /\ PageF12' = Page /\ TouchDataAddress' = Address
  BY <1>5 DEF LocatedF12, RecordF12
<1>7. F12 # 0
  BY TouchAssumption
<1>8. Page = page
  <2>1. SUFFICES ASSUME Page < page PROVE FALSE
    BY <1>3
  <2>2. cur <= Len(device.pages[Page + 1])
    BY <1>2, <1>6, <1>7, Reading
  <2>3. QED
    BY <2>1, <2>2, <1>2, <1>6, Reading
<1>9. /\ cur = entry /\ Before(Page) \in Nat /\ Function < TOUCH_RMI_MAX_FUNCTIONS
      /\ cur <= TOUCH_RMI_MAX_FUNCTIONS /\ Function = Before(Page) + cur - 1
  BY <1>2, <1>6, <1>8, Reading DEF AtEntry
<1>10. Function \in 0 .. TOUCH_RMI_MAX_FUNCTIONS - 1 /\ Address \in 1 .. First
  BY <1>3, <1>9, Addresses, TouchAssumption, SMTT(20)
<1>11. QED
  BY <1>1, <1>3, <1>6, <1>8, <1>9, <1>10 DEF ProbeOK, EntryAddress, First

LEMMA ProbeInit == Init => ProbeInv
  BY BindingInit DEF Init, ProbeInv, ProbeOK

LEMMA ProbeNext == ProbeInv /\ [Next]_vars => ProbeInv'
<1> SUFFICES ASSUME ProbeInv, [Next]_vars PROVE ProbeInv'
  OBVIOUS
<1>1. BindingOK /\ BindingOK' /\ device \in Devices
  BY BindingNext DEF ProbeInv, BindingOK
<1>2. device' = device
  BY DEF Next, vars, controller, StartStep, CallStep, OpenProtocol, BusFails, LocatedF12,
         LastPage, NextPage, NextFunction, SwitchPage, Probing, FinishStart, UninstallProtocol,
         CloseEvents, PollTimer, AbsPGetState, AbsPReset, WaitForEvent, Begin, ReadX, ReadY,
         Deliver, ResetX, ResetY, ResetChanged, AbsPWaitForInput, Goes, Calling
<1>3. ASSUME NEW page \in Nat, NEW entry \in Nat \ {0}, IsF12At(page, entry)'
      PROVE  ProbeOK(page, entry)'
  <2>1. IsF12At(page, entry)
    BY <1>2, <1>3, SameTables
  <2>2. ProbeOK(page, entry)
    <3>1. <<page, entry>> \in Places
      BY DEF Places
    <3>2. QED
      BY <2>1, <3>1 DEF ProbeInv
  <2>3. CASE pc' \notin {"read", "switch", "found"}
    BY <2>3 DEF ProbeOK
  <2>4. CASE UNCHANGED <<controller, pc, probe, PageF12, TouchDataAddress>>
    BY <2>2, <2>4, <1>2, SameTables
    DEF ProbeOK, OnTheWay, AtEntry, EntryAddress, First, controller, probe
  <2>5. CASE OpenProtocol
    <3>1. /\ pc' = "read" /\ selected' = 0 /\ Page' = 0 /\ Address' = First /\ Function' = 0
      BY <2>5, <1>1 DEF OpenProtocol, BindingOK, controller, probe
    <3>2. 1 \in DOMAIN device.pages
      BY <1>1, <2>1, DeviceTables DEF IsF12At, HasF12
    <3>3. Passes(page, entry, 0, 1)
      BY <1>1, <3>2, DeviceTables DEF Passes
    <3>4. EntryAddress(1) = First
      BY <1>1, <2>1, <3>3, Within, Addresses
    <3>5. AtEntry(page, entry, 1)' /\ OnTheWay(page)'
      BY <1>2, <3>1, <3>3, <3>4, CountNone, SameTables
      DEF AtEntry, OnTheWay, EntryAddress, First
    <3>6. QED
      BY <3>1, <3>5 DEF ProbeOK
  <2>6. QED
    BY <1>1, <2>1, <2>2, <2>3, <2>4, <2>5, OnlyProbing, NextFunctionOnTheWay, NextPageOnTheWay,
       SwitchPageOnTheWay, FoundOnTheWay
<1>4. QED
  <2>1. \A place \in Places : place[1] \in Nat /\ place[2] \in Nat \ {0}
    BY DEF Places
  <2>2. \A place \in Places : IsF12At(place[1], place[2])' => ProbeOK(place[1], place[2])'
    BY <1>3, <2>1
  <2>3. QED
    BY <1>1, <2>2 DEF ProbeInv

LEMMA ProbeInvariance == Spec => []ProbeInv
  BY ProbeInit, ProbeNext, PTL DEF Spec

(* Unless the bus fails, the probe ends with the touch function, wherever  *)
(* it is among the first functions of a controller.                        *)
THEOREM TouchFunctionFound == Spec => ProbeFindsF12
<1> DEFINE Found(page, entry) ==
             pc = "found" /\ IsF12At(page, entry)
               => /\ Initialized' /\ PageF12 = page
                  /\ TouchDataAddress = First - (entry - 1) * TOUCH_RMI_PAGE_INFO_BYTES
           FoundStep == \A page \in 0 .. Len(device.pages),
                           entry \in 1 .. TOUCH_RMI_MAX_FUNCTIONS : Found(page, entry)
<1>1. ASSUME ProbeInv, [Next]_vars, ~ UNCHANGED vars
      PROVE  FoundStep
  <2>1. SUFFICES ASSUME NEW page \in 0 .. Len(device.pages),
                        NEW entry \in 1 .. TOUCH_RMI_MAX_FUNCTIONS,
                        pc = "found", IsF12At(page, entry)
                 PROVE  /\ Initialized' /\ PageF12 = page
                        /\ TouchDataAddress = First - (entry - 1) * TOUCH_RMI_PAGE_INFO_BYTES
    OBVIOUS
  <2>2. page \in Nat /\ entry \in Nat \ {0}
    OBVIOUS
  <2>3. ProbeOK(page, entry) /\ BindingOK
    <3>1. <<page, entry>> \in Places
      BY <2>2 DEF Places
    <3>2. QED
      BY <2>1, <3>1, <1>1 DEF ProbeInv
  <2>4. FinishStart
    <3> USE <1>1, <2>1, <2>3 DEF BindingOK
    <3>1. ~PollTimer /\ ~(AbsPGetState \/ AbsPReset \/ WaitForEvent)
      BY DEF PollTimer, MayPoll, AbsPGetState, AbsPReset, WaitForEvent, Begin
    <3>2. ~CallStep
      BY DEF CallStep, ReadX, ReadY, Deliver, ResetX, ResetY, ResetChanged, AbsPWaitForInput, Goes
    <3>3. ~(OpenProtocol \/ UninstallProtocol \/ CloseEvents \/ BusFails \/ LocatedF12
              \/ LastPage \/ NextPage \/ NextFunction \/ SwitchPage)
      BY DEF OpenProtocol, UninstallProtocol, CloseEvents, BusFails, LocatedF12, LastPage,
             NextPage, NextFunction, SwitchPage
    <3>4. QED
      BY <3>1, <3>2, <3>3 DEF Next, StartStep
  <2>5. ~(Function >= TOUCH_RMI_MAX_FUNCTIONS) /\ ~(Address <= 0)
    BY <2>1, <2>3, TouchAssumption DEF ProbeOK
  <2>6. Initialized' = TRUE
    BY <2>4, <2>5, Zenon DEF FinishStart
  <2>7. QED
    BY <2>1, <2>3, <2>6 DEF ProbeOK, EntryAddress
<1>2. ProbeInv /\ [Next]_vars => [FoundStep]_vars
  BY <1>1
<1>3. QED
  BY <1>2, ProbeInvariance, PTL DEF Spec, ProbeFindsF12
=============================================================================

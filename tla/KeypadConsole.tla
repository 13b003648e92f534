---------------------------- MODULE KeypadConsole ----------------------------
(***************************************************************************)
(* The console device of Driver/KeypadDxe: the two key queues, the list of *)
(* key notifications, and the code that shares them.  One processor; the   *)
(* task priority level decides who preempts whom:                          *)
(*   - everything between RaiseTPL(TPL_NOTIFY) and RestoreTPL is one step; *)
(*   - KeyNotifyProcessHandler runs at TPL_CALLBACK: the timer event, of   *)
(*     the same level, and the clients wait until it has returned, but the *)
(*     notification functions it calls may call back into the driver: read *)
(*     keys, register functions and unregister them.                       *)
(* A function that unregisters itself frees the node whose link the walk   *)
(* follows next.  What the code does from then on is undefined; the        *)
(* handler is "wild", nothing is claimed and the behaviour ends there.     *)
(***************************************************************************)
EXTENDS KeyRing, FiniteSets, SequencesExt

CONSTANTS
  NullCode,     \* the code of a partial keystroke (SCAN_NULL and CHAR_NULL)
  Inputs,       \* key data the device pushes
  Registrable,  \* key data clients register
  Fns,          \* notification functions
  Clients,      \* those who register them
  MaxPresses,   \* bound: keys pushed in one behaviour
  MaxHandles,   \* bound: notifications allocated in one behaviour
  MaxClaims     \* bound: registrations held at one time

ASSUME ConsoleAssumption ==
  /\ Inputs \subseteq KeyData /\ Registrable \subseteq KeyData
  /\ \A d \in KeyData : d.shift \in Nat
  /\ MaxPresses \in Nat /\ MaxHandles \in Nat /\ MaxClaims \in Nat

VARIABLES
  EfiKeyQueue,
  EfiKeyQueueForNotify,
  IsSupportPartialKey,
  NotifyList,    \* the registered nodes, in order
  allocated,     \* nodes allocated so far; a node's number is its handle
  signalled,     \* KeyNotifyProcessEvent waits to be dispatched
  waitSignalled, \* WaitForKey was signalled and no key was read since
  delivered,     \* what the last ReadKeyStroke gave its caller
  presses,       \* keys pushed so far
  hpc,           \* where KeyNotifyProcessHandler stands
  hkey,          \* its KeyData
  hlink,         \* the node its Link points at; 0 is the list head
  claims,        \* the registrations clients hold: what, and the handle
  released,      \* the handles UnregisterKeyNotify was called with
  owed,          \* per handle, the calls its function may yet get: matching
                 \* copies of keys queued since it registered or found in
                 \* the queue then, less calls
  lost           \* a copy left the notification queue without being handled

queues  == <<EfiKeyQueue, EfiKeyQueueForNotify>>
list    == <<NotifyList, allocated, claims, released>>
handler == <<hpc, hkey, hlink>>
counts  == <<owed, lost>>
vars    == <<queues, IsSupportPartialKey, list, signalled, waitSignalled, delivered, presses, handler, counts>>

Handles == 1 .. MaxHandles

IsPartial(d) == d.code = NullCode

(* IsKeyRegistered: a shift state of 0 in the registration matches any.    *)
IsKeyRegistered(registered, input) ==
  /\ registered.code = input.code
  /\ registered.shift = 0 \/ registered.shift = input.shift

Matches(key) == {i \in 1 .. Len(NotifyList) : IsKeyRegistered(NotifyList[i].data, key)}

Alive(h) == \E i \in 1 .. Len(NotifyList) : NotifyList[i].handle = h

(* The node after h in the list as it is now; 0 at its end.                *)
NextNode(h) ==
  LET i == CHOOSE j \in 1 .. Len(NotifyList) : NotifyList[j].handle = h
  IN  IF i = Len(NotifyList) THEN 0 ELSE NotifyList[i + 1].handle
FirstNode == IF NotifyList = <<>> THEN 0 ELSE NotifyList[1].handle
NodeOf(h) == NotifyList[CHOOSE j \in 1 .. Len(NotifyList) : NotifyList[j].handle = h]

Init ==
  /\ EfiKeyQueue = InitialRing /\ EfiKeyQueueForNotify = InitialRing
  /\ IsSupportPartialKey = FALSE
  /\ NotifyList = <<>> /\ allocated = 0 /\ claims = {} /\ released = {}
  /\ signalled = FALSE /\ waitSignalled = FALSE /\ delivered = NoData
  /\ presses = 0
  /\ hpc = "idle" /\ hkey = NoData /\ hlink = 0
  /\ owed = [h \in Handles |-> 0] /\ lost = FALSE

-----------------------------------------------------------------------------
(* KeypadTimerHandler, the first thing every reader does: at most one of   *)
(* Inputs is pushed.                                                       *)

(* The loop over the notification list queues the key once per match.      *)
Queued(key) ==
  LET pushed[n \in 0 .. Len(NotifyList)] ==
        IF n = 0 THEN EfiKeyQueueForNotify
        ELSE IF n \in Matches(key) THEN PushEfikeyBufTail(pushed[n - 1], key)
        ELSE pushed[n - 1]
  IN  pushed[Len(NotifyList)]

NotifyPushes(key) ==
  /\ EfiKeyQueueForNotify' = Queued(key)
  /\ signalled' = (signalled \/ Matches(key) # {})
  /\ owed' = [h \in Handles |->
       IF \E i \in Matches(key) : NotifyList[i].handle = h
         THEN owed[h] + Cardinality(Matches(key)) ELSE owed[h]]
  /\ lost' = (lost \/ Count(EfiKeyQueueForNotify) + Cardinality(Matches(key))
                         >= KEYPAD_EFI_KEY_MAX_COUNT)

(* A partial keystroke is dropped unless a client has asked for them.      *)
Taken(key) == key # NoData /\ (~IsPartial(key) \/ IsSupportPartialKey)

(* The key queue the poll leaves behind; NoData is a poll without a key.   *)
Polled(key) == IF Taken(key) THEN PushEfikeyBufTail(EfiKeyQueue, key) ELSE EfiKeyQueue

(* The rest of KeypadReturnApiPushEfikeyBufTail.                           *)
TimerHandler(key) ==
  /\ \/ key = NoData /\ UNCHANGED presses
     \/ key # NoData /\ presses < MaxPresses /\ presses' = presses + 1
  /\ \/ Taken(key) /\ NotifyPushes(key)
     \/ ~Taken(key) /\ UNCHANGED <<EfiKeyQueueForNotify, signalled, counts>>

Typed == Inputs \cup {NoData}

(* Clients run when the handler does not, or from a function it calls.     *)
ClientRuns == hpc \in {"idle", "called"}

TimerEvent ==
  /\ hpc = "idle"
  /\ \E key \in Typed : TimerHandler(key) /\ EfiKeyQueue' = Polled(key)
  /\ UNCHANGED <<IsSupportPartialKey, list, waitSignalled, delivered, handler>>

(* KeypadReadKeyStrokeEx: whatever key is first.                           *)
ReadKeyStrokeEx ==
  /\ ClientRuns
  /\ \E key \in Typed :
       /\ TimerHandler(key)
       /\ delivered' = IF IsEfikeyBufEmpty(Polled(key)) THEN NoData ELSE HeadKey(Polled(key))
       /\ EfiKeyQueue' = PopEfikeyBufHead(Polled(key))
  /\ waitSignalled' = FALSE
  /\ UNCHANGED <<IsSupportPartialKey, list, handler>>

(* One turn of the loop of KeypadReadKeyStroke: a partial keystroke is     *)
(* taken and thrown away, and the loop goes on.                            *)
ReadKeyStroke ==
  /\ ClientRuns
  /\ \E key \in Typed :
       /\ TimerHandler(key)
       /\ EfiKeyQueue' = PopEfikeyBufHead(Polled(key))
       /\ \/ /\ IsEfikeyBufEmpty(Polled(key))
             /\ delivered' = NoData /\ waitSignalled' = FALSE
          \/ /\ ~IsEfikeyBufEmpty(Polled(key)) /\ ~IsPartial(HeadKey(Polled(key)))
             /\ delivered' = HeadKey(Polled(key)) /\ waitSignalled' = FALSE
          \/ /\ ~IsEfikeyBufEmpty(Polled(key)) /\ IsPartial(HeadKey(Polled(key)))
             /\ UNCHANGED <<delivered, waitSignalled>>
  /\ UNCHANGED <<IsSupportPartialKey, list, handler>>

(* The partial keystrokes at the head of a queue are popped.               *)
Leading(ring) ==
  CHOOSE n \in 0 .. Count(ring) :
    /\ \A i \in 1 .. n : IsPartial(Contents(ring)[i])
    /\ n < Count(ring) => ~IsPartial(Contents(ring)[n + 1])

(* Faulty: partial keystrokes count as keys.                               *)
SkipNothing(ring) == ring

SkipPartial(ring) == [ring EXCEPT !.Head = Wrap(@ + Leading(ring))]

(* KeypadWaitForKey: the event is signalled if a whole key is pending.     *)
WaitForKey ==
  /\ ClientRuns
  /\ \E key \in Typed :
       /\ TimerHandler(key)
       /\ EfiKeyQueue' = SkipPartial(Polled(key))
       /\ waitSignalled' = (waitSignalled \/ ~IsEfikeyBufEmpty(SkipPartial(Polled(key))))
  /\ UNCHANGED <<IsSupportPartialKey, list, delivered, handler>>

(* KeypadEfiReset, by way of InitKeypad; the notifications stay.           *)
Reset ==
  /\ ClientRuns
  /\ EfiKeyQueue' = ClearedRing(EfiKeyQueue)
  /\ EfiKeyQueueForNotify' = ClearedRing(EfiKeyQueueForNotify)
  /\ IsSupportPartialKey' = FALSE
  /\ waitSignalled' = FALSE
  /\ lost' = (lost \/ ~IsEfikeyBufEmpty(EfiKeyQueueForNotify))
  /\ UNCHANGED <<list, signalled, delivered, presses, handler, owed>>

(* KeypadSetState, as far as EFI_KEY_STATE_EXPOSED goes.                   *)
SetState ==
  /\ ClientRuns
  /\ IsSupportPartialKey' \in BOOLEAN
  /\ UNCHANGED <<queues, list, signalled, waitSignalled, delivered, presses, handler, counts>>

(* Faulty: any node with the same function counts as registered already.   *)
CoveringAnyKey(data, fn) == {i \in 1 .. Len(NotifyList) : NotifyList[i].fn = fn}

Covering(data, fn) ==
  {i \in 1 .. Len(NotifyList) : IsKeyRegistered(NotifyList[i].data, data) /\ NotifyList[i].fn = fn}

(* The keys in a queue that a registration for data matches.               *)
Matching(ring, data) ==
  {i \in 1 .. Count(ring) : IsKeyRegistered(data, Contents(ring)[i])}

(* Those a node registered now will be called for: the key its handler was *)
(* called with comes by again, since the walk goes on to the end.          *)
Pending(data) ==
    Cardinality(Matching(EfiKeyQueueForNotify, data))
  + (IF hpc = "called" /\ IsKeyRegistered(data, hkey) THEN 1 ELSE 0)

(* KeypadRegisterKeyNotify: the first node with the same function whose    *)
(* registration covers data is handed out again.                           *)
RegisterKeyNotify(client, data, fn) ==
  LET claim(h) == [client |-> client, data |-> data, fn |-> fn, handle |-> h]
  IN
  /\ ClientRuns /\ Cardinality(claims) < MaxClaims
  /\ \/ \E i \in Covering(data, fn) :
          /\ \A j \in Covering(data, fn) : i <= j
          /\ claims' = claims \cup {claim(NotifyList[i].handle)}
          /\ UNCHANGED <<NotifyList, allocated, owed>>
     \/ /\ Covering(data, fn) = {} /\ allocated < MaxHandles
        /\ allocated' = allocated + 1
        /\ NotifyList' = Append(NotifyList, [handle |-> allocated + 1, data |-> data, fn |-> fn])
        /\ claims' = claims \cup {claim(allocated + 1)}
        /\ owed' = [owed EXCEPT ![allocated + 1] = Pending(data)]
  /\ UNCHANGED <<queues, IsSupportPartialKey, released, signalled, waitSignalled, delivered,
                 presses, handler, lost>>

(* The node with this handle is taken out of the list and freed; a handle  *)
(* that is not in the list is refused.                                     *)
RemoveNode(h) ==
  \/ \E i \in 1 .. Len(NotifyList) :
       NotifyList[i].handle = h /\ NotifyList' = RemoveAt(NotifyList, i)
  \/ ~Alive(h) /\ UNCHANGED NotifyList

(* KeypadUnregisterKeyNotify with a handle a client holds.                 *)
UnregisterKeyNotify(claim) ==
  /\ ClientRuns
  /\ claims' = claims \ {claim} /\ released' = released \cup {claim.handle}
  /\ RemoveNode(claim.handle)
  /\ UNCHANGED <<queues, IsSupportPartialKey, allocated, signalled, waitSignalled, delivered,
                 presses, handler, counts>>

-----------------------------------------------------------------------------
(* KeyNotifyProcessHandler.                                                *)

NotifyDispatch ==
  /\ signalled /\ hpc = "idle"
  /\ signalled' = FALSE
  /\ hpc' = "pop"
  /\ UNCHANGED <<queues, IsSupportPartialKey, list, waitSignalled, delivered, presses, hkey, hlink, counts>>

(* Faulty: the key is looked at but not taken out.                         *)
NotifyPeek ==
  /\ hpc = "pop"
  /\ IF IsEfikeyBufEmpty(EfiKeyQueueForNotify)
       THEN hpc' = "idle" /\ hkey' = NoData /\ hlink' = 0
       ELSE /\ hkey' = HeadKey(EfiKeyQueueForNotify) /\ hlink' = FirstNode
            /\ hpc' = IF FirstNode = 0 THEN "pop" ELSE "visit"
  /\ UNCHANGED <<queues, IsSupportPartialKey, list, signalled, waitSignalled, delivered, presses, counts>>

NotifyPop ==
  /\ hpc = "pop"
  /\ EfiKeyQueueForNotify' = PopEfikeyBufHead(EfiKeyQueueForNotify)
  /\ \/ /\ IsEfikeyBufEmpty(EfiKeyQueueForNotify)
        /\ hpc' = "idle" /\ hkey' = NoData /\ hlink' = 0
     \/ /\ ~IsEfikeyBufEmpty(EfiKeyQueueForNotify)
        /\ hkey' = HeadKey(EfiKeyQueueForNotify)
        /\ hlink' = FirstNode
        /\ hpc' = IF FirstNode = 0 THEN "pop" ELSE "visit"
  /\ UNCHANGED <<EfiKeyQueue, IsSupportPartialKey, list, signalled, waitSignalled, delivered, presses, counts>>

(* The node is compared and its function entered ...                       *)
NotifyVisit ==
  /\ hpc = "visit"
  /\ \/ /\ IsKeyRegistered(NodeOf(hlink).data, hkey)
        /\ owed' = [owed EXCEPT ![hlink] = @ - 1]
        /\ hpc' = "called"
     \/ /\ ~IsKeyRegistered(NodeOf(hlink).data, hkey)
        /\ hpc' = "next"
        /\ UNCHANGED owed
  /\ UNCHANGED <<queues, IsSupportPartialKey, list, signalled, waitSignalled, delivered, presses,
                 hkey, hlink, lost>>

(* Faulty: one key is handled per dispatch.                                *)
NotifyOnce ==
  /\ hpc \in {"called", "next"}
  /\ Alive(hlink)
  /\ hlink' = NextNode(hlink)
  /\ hpc' = IF NextNode(hlink) = 0 THEN "idle" ELSE "visit"
  /\ UNCHANGED <<queues, IsSupportPartialKey, list, signalled, waitSignalled, delivered, presses, hkey, counts>>

(* Faulty: the first function called has the key to itself.                *)
NotifyFirst ==
  /\ hpc \in {"called", "next"}
  /\ Alive(hlink)
  /\ hlink' = IF hpc = "called" THEN 0 ELSE NextNode(hlink)
  /\ hpc' = IF hpc = "called" \/ NextNode(hlink) = 0 THEN "pop" ELSE "visit"
  /\ UNCHANGED <<queues, IsSupportPartialKey, list, signalled, waitSignalled, delivered, presses, hkey, counts>>

(* ... and GetNextNode follows the link of the node after it returned.     *)
NotifyNext ==
  /\ hpc \in {"called", "next"}
  /\ Alive(hlink)
  /\ hlink' = NextNode(hlink)
  /\ hpc' = IF NextNode(hlink) = 0 THEN "pop" ELSE "visit"
  /\ UNCHANGED <<queues, IsSupportPartialKey, list, signalled, waitSignalled, delivered, presses, hkey, counts>>

(* The node was freed by the function just called: its link is read all    *)
(* the same.                                                               *)
NotifyStray ==
  /\ hpc \in {"called", "next"}
  /\ ~Alive(hlink)
  /\ hpc' = "wild"
  /\ UNCHANGED <<queues, IsSupportPartialKey, list, signalled, waitSignalled, delivered, presses, hkey, hlink, counts>>

Notify == NotifyDispatch \/ NotifyPop \/ NotifyVisit \/ NotifyNext \/ NotifyStray

Next ==
  \/ TimerEvent \/ ReadKeyStrokeEx \/ ReadKeyStroke \/ WaitForKey \/ Reset \/ SetState
  \/ \E client \in Clients, data \in Registrable, fn \in Fns : RegisterKeyNotify(client, data, fn)
  \/ \E claim \in claims : UnregisterKeyNotify(claim)
  \/ Notify

(* The event dispatcher runs a signalled handler and notification          *)
(* functions return.                                                       *)
Spec == Init /\ [][Next]_vars /\ WF_vars(Notify)

-----------------------------------------------------------------------------
(* WaitForKey tells the truth: once it signalled, the next ReadKeyStroke   *)
(* finds a whole key, also when the queue overflowed meanwhile - unless it *)
(* overflowed with partial keystrokes, which push whole keys out.          *)
WaitedKeyIsThere ==
  waitSignalled /\ (presses < KEYPAD_EFI_KEY_MAX_COUNT \/ \A key \in Inputs : ~IsPartial(key)) =>
    \E i \in 1 .. Count(EfiKeyQueue) : ~IsPartial(Contents(EfiKeyQueue)[i])

(* A notification function is not called more often than copies of keys it *)
(* was registered for were put in the notification queue: every copy is    *)
(* shown to every node once, also while functions register and unregister  *)
(* others, read keys or reset the device.                                  *)
CalledPerCopy == \A h \in Handles : owed[h] >= 0

(* Nor less often: when the handler has emptied the queue and no copy was  *)
(* dropped by an overflow or a reset, no function that is still registered *)
(* misses a call.                                                          *)
NoCopyMissed ==
  hpc = "idle" /\ IsEfikeyBufEmpty(EfiKeyQueueForNotify) /\ ~lost =>
    \A h \in Handles : Alive(h) => owed[h] = 0

(* Every key registered with one data is registered with the other.        *)
Covers(registered, data) ==
  \A key \in KeyData : IsKeyRegistered(data, key) => IsKeyRegistered(registered, key)

(* Until somebody unregisters its handle, a client's registration is       *)
(* served: the node with its handle is in the list, for its function and   *)
(* for all its keys, whoever else registers, shares or unregisters what.   *)
ClaimServed ==
  \A claim \in claims \ {c \in claims : c.handle \in released} :
    \E i \in 1 .. Len(NotifyList) :
      /\ NotifyList[i].handle = claim.handle /\ NotifyList[i].fn = claim.fn
      /\ Covers(NotifyList[i].data, claim.data)

(* A client that did not unregister a registration keeps it (KeypadTextIn.c: *)
(* the handle is the "unique handle assigned to the registered              *)
(* notification").                                                         *)
ClaimStaysAlive == \A claim \in claims : Alive(claim.handle)

(* Every key queued for notification is taken out of the queue, unless the *)
(* handler followed a freed link.                                          *)
NotificationsDrain ==
  ~IsEfikeyBufEmpty(EfiKeyQueueForNotify) ~> (IsEfikeyBufEmpty(EfiKeyQueueForNotify) \/ hpc = "wild")
=============================================================================

----------------------------- MODULE EfiKeyQueue -----------------------------
(***************************************************************************)
(* One EFI_KEY_QUEUE used by everything KeypadDxe does to it: the poll     *)
(* pushes, the readers pop, a reset clears.  All three run at TPL_NOTIFY,  *)
(* so each is one step.                                                    *)
(***************************************************************************)
EXTENDS KeyRing

VARIABLES
  Queue,  \* the ring
  popped, \* what the last PopEfikeyBufHead gave its caller; NoData for
          \* EFI_NOT_READY
  call    \* history: the operation called last, and the key it was given

ringVars == <<Queue, popped, call>>

Call(op, key) == [op |-> op, key |-> key]

RingInit ==
  /\ Queue = InitialRing
  /\ popped = NoData
  /\ call = Call("none", NoData)

Push(key) ==
  /\ Queue' = PushEfikeyBufTail(Queue, key)
  /\ call' = Call("push", key)
  /\ UNCHANGED popped

Pop ==
  /\ popped' = IF IsEfikeyBufEmpty(Queue) THEN NoData ELSE HeadKey(Queue)
  /\ Queue' = PopEfikeyBufHead(Queue)
  /\ call' = Call("pop", NoData)

Clear ==
  /\ Queue' = ClearedRing(Queue)
  /\ call' = Call("clear", NoData)
  /\ UNCHANGED popped

RingNext == (\E key \in KeyData : Push(key)) \/ Pop \/ Clear
RingSpec == RingInit /\ [][RingNext]_ringVars

-----------------------------------------------------------------------------
Calls == [op : {"none", "push", "pop", "clear"}, key : KeyData \cup {NoData}]

RingTypeOK ==
  /\ Queue \in Ring
  /\ popped \in KeyData \cup {NoData}
  /\ call \in Calls

(* No slot between Head and Tail is one that was never written: a reader   *)
(* is never handed a slot left over from AllocateZeroPool.                 *)
NoUnwrittenKey ==
  \A i \in 1 .. Count(Queue) : Contents(Queue)[i] \in KeyData

(* The ring, with its two indices, is the bounded queue that drops its     *)
(* oldest key when it is full, one key short of the number of slots: every *)
(* call does to the pending keys what that queue does at the same call.    *)
Abstract == INSTANCE DropOldestQueue WITH
  Key <- KeyData, Capacity <- KEYPAD_EFI_KEY_MAX_COUNT - 1, NoKey <- NoData,
  queue <- Contents(Queue), read <- popped, call <- call
ImplementsQueue == Abstract!Spec
=============================================================================

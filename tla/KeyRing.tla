------------------------------- MODULE KeyRing -------------------------------
(***************************************************************************)
(* EFI_KEY_QUEUE of Driver/KeypadDxe/Keypad.h and its operations in        *)
(* KeypadTextIn.c: a ring of KEYPAD_EFI_KEY_MAX_COUNT slots between Head   *)
(* and Tail.  A ring is the record [Buffer, Head, Tail]; one slot stays    *)
(* free, so that a full ring differs from an empty one.                    *)
(***************************************************************************)
EXTENDS Integers, Sequences

CONSTANTS
  KEYPAD_EFI_KEY_MAX_COUNT,
  KeyData,   \* what a slot can hold
  NoData     \* what a slot holds before it is first written

ASSUME RingAssumption ==
  /\ KEYPAD_EFI_KEY_MAX_COUNT \in Nat /\ KEYPAD_EFI_KEY_MAX_COUNT > 1
  /\ NoData \notin KeyData

Slots == 0 .. KEYPAD_EFI_KEY_MAX_COUNT - 1
Ring == [Buffer : [Slots -> KeyData \cup {NoData}], Head : Slots, Tail : Slots]

(* i % KEYPAD_EFI_KEY_MAX_COUNT, for an i at most one turn ahead.          *)
Wrap(i) == IF i >= KEYPAD_EFI_KEY_MAX_COUNT THEN i - KEYPAD_EFI_KEY_MAX_COUNT ELSE i

InitialRing == [Buffer |-> [s \in Slots |-> NoData], Head |-> 0, Tail |-> 0]

IsEfikeyBufEmpty(ring) == ring.Head = ring.Tail

(* Faulty: the head moves whether or not a key is pending.                 *)
PopUnguarded(ring) == [ring EXCEPT !.Head = Wrap(@ + 1)]

(* The ring after PopEfikeyBufHead, and the key it hands out.              *)
PopEfikeyBufHead(ring) ==
  IF IsEfikeyBufEmpty(ring) THEN ring ELSE [ring EXCEPT !.Head = Wrap(@ + 1)]
HeadKey(ring) == ring.Buffer[ring.Head]

(* Faulty: the last slot is not next to the first.                         *)
FullUnwrapped(ring) == ring.Tail + 1 = ring.Head
Full(ring) == Wrap(ring.Tail + 1) = ring.Head

PushEfikeyBufTail(ring, key) ==
  LET room == IF Full(ring) THEN PopEfikeyBufHead(ring) ELSE ring
  IN  [room EXCEPT !.Buffer[room.Tail] = key, !.Tail = Wrap(@ + 1)]

(* What InitKeypad does to a queue: the slots keep their contents.         *)
ClearedRing(ring) == [ring EXCEPT !.Head = 0, !.Tail = 0]

(* The keys between Head and Tail, oldest first.                           *)
Count(ring) ==
  IF ring.Tail >= ring.Head THEN ring.Tail - ring.Head
  ELSE ring.Tail - ring.Head + KEYPAD_EFI_KEY_MAX_COUNT
Contents(ring) == [i \in 1 .. Count(ring) |-> ring.Buffer[Wrap(ring.Head + i - 1)]]
=============================================================================

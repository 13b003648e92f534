----------------------------- MODULE Keypad_proofs -----------------------------
(***************************************************************************)
(* Proofs about Driver/KeypadDxe and the library below it, for every      *)
(* number of slots, every set of keys, registrations and functions, and    *)
(* every bound.                                                            *)
(*                                                                         *)
(* The ring (EfiKeyQueue): it never hands out an unwritten slot, and it    *)
(* implements the bounded queue that drops its oldest key.  Its lemmas say *)
(* what the operations of KeyRing do to the sequence of keys a ring stands *)
(* for; everything below uses them.                                        *)
(*                                                                         *)
(* The console device (KeypadConsole):                                     *)
(*   - a registration is served until its handle is released, whoever      *)
(*     shares the node;                                                    *)
(*   - a signalled WaitForKey tells the truth;                             *)
(*   - a function is called at most once per copy of a key.                *)
(* The first needs nothing but the shape of the list, the second nothing   *)
(* but the key queue, so each has an invariant of its own; the last        *)
(* relates the other queue, the list and the walk over it.                 *)
(*                                                                         *)
(* The key state machines (KeypadKeys), for all thresholds in their order  *)
(* and every pattern of presses, polls and failed reads.  A key's context  *)
(* depends on other keys only through the bitmap, so the invariant is one  *)
(* statement per key, and the argument one case per branch of              *)
(* LibKeyUpdateKeyStatus.                                                  *)
(***************************************************************************)
EXTENDS KeypadConsole, EfiKeyQueue, KeypadKeys, FiniteSetTheorems, SequenceTheorems,
        WellFoundedInduction, TLAPS

N == KEYPAD_EFI_KEY_MAX_COUNT

(* A ring reached from the initial one: its slots between Head and Tail    *)
(* hold keys.                                                              *)
GoodRing(ring) ==
  /\ ring \in Ring
  /\ \A i \in 1 .. Count(ring) : ring.Buffer[Wrap(ring.Head + i - 1)] \in KeyData

LEMMA NType == N \in Nat /\ N > 1 /\ NoData \notin KeyData
  BY RingAssumption DEF N

LEMMA CountType ==
  ASSUME NEW ring \in Ring
  PROVE  /\ Count(ring) \in 0 .. N - 1
         /\ IsEfikeyBufEmpty(ring) <=> Count(ring) = 0
         /\ Full(ring) <=> Count(ring) = N - 1
  BY NType DEF Count, Ring, Slots, IsEfikeyBufEmpty, Full, Wrap, N

LEMMA WrapType ==
  ASSUME NEW h \in Slots, NEW i \in 0 .. N
  PROVE  Wrap(h + i) \in Slots
  BY NType DEF Wrap, Slots, N

(* The queue a ring stands for, as a sequence.                             *)
LEMMA ContentsType ==
  ASSUME NEW ring, GoodRing(ring)
  PROVE  /\ Contents(ring) \in Seq(KeyData)
         /\ Len(Contents(ring)) = Count(ring)
<1>1. Count(ring) \in Nat
  BY CountType, NType DEF GoodRing
<1>2. \A i \in 1 .. Count(ring) : Contents(ring)[i] \in KeyData
  BY DEF GoodRing, Contents
<1>3. QED
  BY <1>1, <1>2 DEF Contents

(* Popping a ring that is not empty takes the head off its queue.          *)
LEMMA PopLemma ==
  ASSUME NEW ring, GoodRing(ring), ~IsEfikeyBufEmpty(ring)
  PROVE  /\ GoodRing(PopEfikeyBufHead(ring))
         /\ Contents(ring) # <<>>
         /\ HeadKey(ring) = Head(Contents(ring))
         /\ Contents(PopEfikeyBufHead(ring)) = Tail(Contents(ring))
         /\ Count(PopEfikeyBufHead(ring)) = Count(ring) - 1
<1> DEFINE new == PopEfikeyBufHead(ring)
<1>1. ring \in Ring /\ Count(ring) \in 1 .. N - 1
  BY CountType, NType DEF GoodRing
<1>2. new = [ring EXCEPT !.Head = Wrap(@ + 1)]
  BY DEF PopEfikeyBufHead
<1>3. new \in Ring /\ new.Buffer = ring.Buffer /\ new.Tail = ring.Tail /\ new.Head = Wrap(ring.Head + 1)
  <2>1. Wrap(ring.Head + 1) \in Slots
    BY <1>1, WrapType, NType DEF Ring
  <2>2. QED
    BY <1>1, <1>2, <2>1 DEF Ring
<1>4. Count(new) = Count(ring) - 1
  <2>1. ring.Head \in 0 .. N - 1 /\ ring.Tail \in 0 .. N - 1 /\ ring.Head # ring.Tail
    BY <1>1 DEF Ring, Slots, N, IsEfikeyBufEmpty
  <2>2. new.Head = (IF ring.Head + 1 = N THEN 0 ELSE ring.Head + 1) /\ new.Tail = ring.Tail
    BY <1>3, <2>1, NType DEF Wrap, N
  <2> HIDE DEF new
  <2>3. QED
    BY <2>1, <2>2, NType DEF Count, N
<1>5. \A i \in 1 .. Count(new) : Wrap(new.Head + i - 1) = Wrap(ring.Head + (i + 1) - 1)
  BY <1>1, <1>3, <1>4, NType DEF Wrap, Ring, Slots, N
<1>6. \A i \in 1 .. Count(new) : new.Buffer[Wrap(new.Head + i - 1)] = ring.Buffer[Wrap(ring.Head + (i + 1) - 1)]
  BY <1>3, <1>5
<1>7. GoodRing(new)
  <2>1. \A i \in 1 .. Count(new) : i + 1 \in 1 .. Count(ring)
    BY <1>1, <1>4, NType
  <2>2. QED
    BY <1>3, <1>6, <2>1 DEF GoodRing
<1>8. Contents(ring) \in Seq(KeyData) /\ Len(Contents(ring)) = Count(ring)
  BY ContentsType
<1>9. HeadKey(ring) = Head(Contents(ring))
  <2>1. Contents(ring)[1] = ring.Buffer[Wrap(ring.Head + 1 - 1)]
    BY <1>1, NType DEF Contents
  <2>2. Wrap(ring.Head + 1 - 1) = ring.Head
    BY <1>1, NType DEF Wrap, Ring, Slots, N
  <2>3. QED
    BY <1>1, <1>8, <2>1, <2>2 DEF HeadKey
<1>10. Contents(new) = Tail(Contents(ring))
  <2>1. Contents(new) \in Seq(KeyData) /\ Len(Contents(new)) = Count(ring) - 1
    BY <1>4, <1>7, ContentsType
  <2>2. /\ Tail(Contents(ring)) \in Seq(KeyData)
        /\ Len(Tail(Contents(ring))) = Count(ring) - 1
        /\ \A i \in 1 .. Count(ring) - 1 : Tail(Contents(ring))[i] = Contents(ring)[i + 1]
    <3>1. Contents(ring) # <<>>
      BY <1>1, <1>8, NType
    <3>2. QED
      BY <1>8, <3>1, HeadTailProperties
  <2>3. \A i \in 1 .. Count(ring) - 1 : Contents(ring)[i + 1] = ring.Buffer[Wrap(ring.Head + (i + 1) - 1)]
    BY <1>1, NType DEF Contents
  <2>4. \A i \in 1 .. Count(ring) - 1 : Contents(new)[i] = ring.Buffer[Wrap(ring.Head + (i + 1) - 1)]
    BY <1>4, <1>6 DEF Contents
  <2>5. \A i \in 1 .. Count(ring) - 1 : Contents(new)[i] = Tail(Contents(ring))[i]
    BY <2>2, <2>3, <2>4
  <2> HIDE DEF new
  <2>6. QED
    BY <2>1, <2>2, <2>5, SeqEqual
<1>11. Contents(ring) # <<>>
  BY <1>1, <1>8, NType
<1>12. QED
  BY <1>4, <1>7, <1>9, <1>10, <1>11

(* Pushing onto a ring with room appends the key to its queue.             *)
LEMMA RoomLemma ==
  ASSUME NEW ring, GoodRing(ring), ~Full(ring), NEW key \in KeyData,
         NEW new, new = [ring EXCEPT !.Buffer[ring.Tail] = key, !.Tail = Wrap(@ + 1)]
  PROVE  GoodRing(new) /\ Contents(new) = Append(Contents(ring), key)
<1>1. ring \in Ring /\ Count(ring) \in 0 .. N - 2
  BY CountType, NType DEF GoodRing
<1>2. /\ new \in Ring
      /\ new.Buffer = [ring.Buffer EXCEPT ![ring.Tail] = key]
      /\ new.Tail = Wrap(ring.Tail + 1) /\ new.Head = ring.Head
  <2>1. Wrap(ring.Tail + 1) \in Slots
    BY <1>1, WrapType, NType DEF Ring
  <2>2. [ring.Buffer EXCEPT ![ring.Tail] = key] \in [Slots -> KeyData \cup {NoData}]
    BY <1>1 DEF Ring
  <2>3. QED
    BY <1>1, <2>1, <2>2 DEF Ring
<1>3. Count(new) = Count(ring) + 1
  <2>1. ring.Head \in 0 .. N - 1 /\ ring.Tail \in 0 .. N - 1
    BY <1>1 DEF Ring, Slots, N
  <2>2. new.Tail = (IF ring.Tail + 1 = N THEN 0 ELSE ring.Tail + 1) /\ new.Head = ring.Head
    BY <1>2, <2>1, NType DEF Wrap, N
  <2>3. new.Tail # ring.Head
    BY <1>2 DEF Full
  <2>4. QED
    BY <2>1, <2>2, <2>3, NType DEF Count, N
<1>4. Wrap(ring.Head + Count(new) - 1) = ring.Tail
  <2>1. ring.Head \in 0 .. N - 1 /\ ring.Tail \in 0 .. N - 1
    BY <1>1 DEF Ring, Slots, N
  <2>2. Count(ring) = IF ring.Tail >= ring.Head THEN ring.Tail - ring.Head ELSE ring.Tail - ring.Head + N
    BY DEF Count, N
  <2>3. Wrap(ring.Head + Count(ring)) = ring.Tail
    BY <2>1, <2>2, NType DEF Wrap, N
  <2>4. ring.Head + Count(new) - 1 = ring.Head + Count(ring)
    BY <1>1, <1>3, <2>1, NType
  <2>5. QED
    BY <2>3, <2>4
<1>5. ASSUME NEW i \in 1 .. Count(ring)
      PROVE  Wrap(ring.Head + i - 1) # ring.Tail /\ Wrap(ring.Head + i - 1) \in Slots
  <2>1. ring.Head \in 0 .. N - 1 /\ ring.Tail \in 0 .. N - 1
    BY <1>1 DEF Ring, Slots, N
  <2>2. Count(ring) = IF ring.Tail >= ring.Head THEN ring.Tail - ring.Head ELSE ring.Tail - ring.Head + N
    BY DEF Count, N
  <2>3. i \in Nat /\ 1 <= i /\ i <= Count(ring)
    BY <1>1, NType
  <2>4. Wrap(ring.Head + i - 1) = IF ring.Head + i - 1 >= N THEN ring.Head + i - 1 - N ELSE ring.Head + i - 1
    BY <2>1, <2>3, NType DEF Wrap, N
  <2>5. Wrap(ring.Head + i - 1) # ring.Tail /\ Wrap(ring.Head + i - 1) \in 0 .. N - 1
    BY <2>1, <2>2, <2>3, <2>4, NType
  <2>6. QED
    BY <2>5 DEF Slots, N
<1>6. \A i \in 1 .. Count(ring) : new.Buffer[Wrap(new.Head + i - 1)] = ring.Buffer[Wrap(ring.Head + i - 1)]
  BY <1>1, <1>2, <1>5 DEF Ring
<1>7. new.Buffer[Wrap(new.Head + Count(new) - 1)] = key
  BY <1>1, <1>2, <1>4 DEF Ring
<1>8. GoodRing(new)
  <2>1. \A i \in 1 .. Count(new) : i \in 1 .. Count(ring) \/ i = Count(new)
    BY <1>1, <1>3, NType
  <2>2. QED
    BY <1>2, <1>6, <1>7, <2>1 DEF GoodRing
<1>9. /\ Contents(ring) \in Seq(KeyData) /\ Len(Contents(ring)) = Count(ring)
      /\ Contents(new) \in Seq(KeyData) /\ Len(Contents(new)) = Count(ring) + 1
  BY <1>3, <1>8, ContentsType
<1>10. \A i \in 1 .. Count(ring) : Contents(new)[i] = Contents(ring)[i]
  BY <1>1, <1>3, <1>6, NType DEF Contents
<1>11. Contents(new)[Count(ring) + 1] = key
  BY <1>1, <1>3, <1>7, NType DEF Contents
<1>12. QED
  BY <1>1, <1>8, <1>9, <1>10, <1>11, NType

(* PushEfikeyBufTail: append, after dropping the oldest key if full.       *)
LEMMA PushLemma ==
  ASSUME NEW ring, GoodRing(ring), NEW key \in KeyData
  PROVE  /\ GoodRing(PushEfikeyBufTail(ring, key))
         /\ Contents(PushEfikeyBufTail(ring, key)) =
              Append(IF Len(Contents(ring)) = N - 1 THEN Tail(Contents(ring)) ELSE Contents(ring), key)
<1> DEFINE room == IF Full(ring) THEN PopEfikeyBufHead(ring) ELSE ring
<1>1. Count(ring) \in Nat /\ Len(Contents(ring)) = Count(ring) /\ (Full(ring) <=> Count(ring) = N - 1)
  BY CountType, ContentsType, NType DEF GoodRing
<1>2. /\ GoodRing(room) /\ ~Full(room)
      /\ Contents(room) = IF Len(Contents(ring)) = N - 1 THEN Tail(Contents(ring)) ELSE Contents(ring)
  <2>1. CASE Full(ring)
    <3>1. ~IsEfikeyBufEmpty(ring)
      BY <1>1, <2>1, CountType, NType DEF GoodRing
    <3>2. GoodRing(room) /\ Contents(room) = Tail(Contents(ring)) /\ Count(room) = Count(ring) - 1
      BY <2>1, <3>1, PopLemma
    <3>3. ~Full(room)
      BY <1>1, <2>1, <3>2, CountType, NType DEF GoodRing
    <3>4. QED
      BY <1>1, <2>1, <3>2, <3>3
  <2>2. CASE ~Full(ring)
    BY <1>1, <2>2
  <2>3. QED
    BY <2>1, <2>2
<1>3. PushEfikeyBufTail(ring, key) = [room EXCEPT !.Buffer[room.Tail] = key, !.Tail = Wrap(@ + 1)]
  BY DEF PushEfikeyBufTail
<1>4. QED
  BY <1>2, <1>3, RoomLemma

LEMMA ClearLemma ==
  ASSUME NEW ring, GoodRing(ring)
  PROVE  GoodRing(ClearedRing(ring)) /\ Contents(ClearedRing(ring)) = <<>>
<1>1. ClearedRing(ring) \in Ring /\ ClearedRing(ring).Head = 0 /\ ClearedRing(ring).Tail = 0
  <2>1. 0 \in Slots
    BY NType DEF Slots, N
  <2>2. ring \in [Buffer : [Slots -> KeyData \cup {NoData}], Head : Slots, Tail : Slots]
    BY DEF GoodRing, Ring
  <2>3. QED
    BY <2>1, <2>2 DEF ClearedRing, Ring
<1>2. Count(ClearedRing(ring)) = 0
  BY <1>1 DEF Count
<1>3. QED
  BY <1>1, <1>2 DEF GoodRing, Contents

LEMMA InitialLemma == GoodRing(InitialRing) /\ Contents(InitialRing) = <<>>
<1>1. InitialRing \in Ring /\ InitialRing.Head = 0 /\ InitialRing.Tail = 0
  BY NType DEF InitialRing, Ring, Slots, N
<1>2. Count(InitialRing) = 0
  BY <1>1 DEF Count
<1>3. QED
  BY <1>1, <1>2 DEF GoodRing, Contents

(* Moving the head on by some of the keys leaves the rest of them.         *)
LEMMA DropLemma ==
  ASSUME NEW ring, GoodRing(ring), NEW n \in 0 .. Count(ring),
         NEW new, new = [ring EXCEPT !.Head = Wrap(@ + n)]
  PROVE  /\ GoodRing(new) /\ Count(new) = Count(ring) - n
         /\ \A i \in 1 .. Count(new) : Contents(new)[i] = Contents(ring)[n + i]
<1>1. ring \in Ring /\ Count(ring) \in 0 .. N - 1 /\ n \in 0 .. N - 1
  BY CountType, NType DEF GoodRing
<1>2. new \in Ring /\ new.Buffer = ring.Buffer /\ new.Tail = ring.Tail /\ new.Head = Wrap(ring.Head + n)
  <2>1. Wrap(ring.Head + n) \in Slots
    BY <1>1, WrapType, NType DEF Ring
  <2>2. QED
    BY <1>1, <2>1 DEF Ring
<1>3. ring.Head \in 0 .. N - 1 /\ ring.Tail \in 0 .. N - 1
  BY <1>1 DEF Ring, Slots, N
<1>4. Count(ring) = IF ring.Tail >= ring.Head THEN ring.Tail - ring.Head ELSE ring.Tail - ring.Head + N
  BY DEF Count, N
<1>5. Count(new) = Count(ring) - n
  <2>1. new.Head = (IF ring.Head + n >= N THEN ring.Head + n - N ELSE ring.Head + n)
    BY <1>1, <1>2, <1>3, NType DEF Wrap, N
  <2>2. Count(new) = IF ring.Tail >= new.Head THEN ring.Tail - new.Head ELSE ring.Tail - new.Head + N
    BY <1>2 DEF Count, N
  <2>3. QED
    BY <1>1, <1>3, <1>4, <2>1, <2>2, NType
<1>6. \A i \in 1 .. Count(new) : Wrap(new.Head + i - 1) = Wrap(ring.Head + (n + i) - 1)
  BY <1>1, <1>2, <1>3, <1>5, NType DEF Wrap, N
<1>7. \A i \in 1 .. Count(new) : n + i \in 1 .. Count(ring)
  BY <1>1, <1>5, NType
<1>8. \A i \in 1 .. Count(new) : /\ new.Buffer[Wrap(new.Head + i - 1)] \in KeyData
                                 /\ Contents(new)[i] = Contents(ring)[n + i]
  BY <1>2, <1>6, <1>7 DEF GoodRing, Contents
<1>9. QED
  BY <1>2, <1>5, <1>8 DEF GoodRing

-----------------------------------------------------------------------------
(* The inductive invariant.                                                *)
RingInv ==
  /\ GoodRing(Queue)
  /\ popped \in KeyData \cup {NoData}
  /\ call \in Calls

LEMMA RingInvInit == RingInit => RingInv
  BY InitialLemma DEF RingInit, RingInv, Call, Calls

LEMMA RingInvNext == RingInv /\ [RingNext]_ringVars => RingInv'
<1> SUFFICES ASSUME RingInv, [RingNext]_ringVars PROVE RingInv'
  OBVIOUS
<1>1. CASE \E key \in KeyData : Push(key)
  BY <1>1, PushLemma DEF RingInv, Push, Call, Calls
<1>2. CASE Pop
  <2>1. CASE IsEfikeyBufEmpty(Queue)
    BY <1>2, <2>1 DEF RingInv, Pop, PopEfikeyBufHead, Call, Calls
  <2>2. CASE ~IsEfikeyBufEmpty(Queue)
    <3>1. GoodRing(Queue')
      BY <1>2, <2>2, PopLemma DEF RingInv, Pop
    <3>2. HeadKey(Queue) \in KeyData
      <4>1. Contents(Queue) \in Seq(KeyData) /\ Contents(Queue) # <<>> /\ HeadKey(Queue) = Head(Contents(Queue))
        BY <2>2, PopLemma, ContentsType DEF RingInv
      <4>2. QED
        BY <4>1
    <3>3. QED
      BY <1>2, <2>2, <3>1, <3>2 DEF RingInv, Pop, Call, Calls
  <2>3. QED
    BY <2>1, <2>2
<1>3. CASE Clear
  BY <1>3, ClearLemma DEF RingInv, Clear, Call, Calls
<1>4. CASE UNCHANGED ringVars
  BY <1>4 DEF RingInv, ringVars
<1>5. QED
  BY <1>1, <1>2, <1>3, <1>4 DEF RingNext

(* Types of the ring and of what its readers get.                          *)
THEOREM RingTypeCorrect == RingSpec => []RingTypeOK
<1>1. RingInv => RingTypeOK
  BY DEF RingInv, RingTypeOK, GoodRing
<1>2. QED
  BY RingInvInit, RingInvNext, <1>1, PTL DEF RingSpec

(* No reader is ever handed a slot nobody wrote.                           *)
THEOREM UnwrittenNeverRead == RingSpec => []NoUnwrittenKey
<1>1. RingInv => NoUnwrittenKey
  BY DEF RingInv, NoUnwrittenKey, GoodRing, Contents
<1>2. QED
  BY RingInvInit, RingInvNext, <1>1, PTL DEF RingSpec

(* Every step of the ring is a step of the bounded queue.                  *)
LEMMA StepRefines == RingInv /\ [RingNext]_ringVars => [Abstract!Next]_(Abstract!queueVars)
<1> SUFFICES ASSUME RingInv, [RingNext]_ringVars PROVE [Abstract!Next]_(Abstract!queueVars)
  OBVIOUS
<1>1. ASSUME NEW key \in KeyData, Push(key) PROVE Abstract!Push
  BY <1>1, PushLemma DEF RingInv, Push, Call, Abstract!Call, Abstract!Push, N
<1>2. CASE Pop
  <2>1. CASE IsEfikeyBufEmpty(Queue)
    <3>1. Contents(Queue) = <<>>
      BY <2>1, ContentsType, CountType DEF RingInv, GoodRing
    <3>2. QED
      BY <1>2, <2>1, <3>1 DEF Pop, PopEfikeyBufHead, Call, Abstract!Call, Abstract!Pop, Abstract!Next
  <2>2. CASE ~IsEfikeyBufEmpty(Queue)
    BY <1>2, <2>2, PopLemma DEF RingInv, Pop, Call, Abstract!Call, Abstract!Pop, Abstract!Next
  <2>3. QED
    BY <2>1, <2>2
<1>3. CASE Clear
  BY <1>3, ClearLemma DEF RingInv, Clear, Call, Abstract!Call, Abstract!Clear, Abstract!Next
<1>4. CASE UNCHANGED ringVars
  BY <1>4 DEF ringVars, Abstract!queueVars
<1>5. QED
  BY <1>1, <1>2, <1>3, <1>4 DEF RingNext, Abstract!Next

(* The ring implements the bounded queue.                                  *)
THEOREM RingImplementsQueue == RingSpec => ImplementsQueue
<1>1. RingInit => Abstract!Init
  BY InitialLemma DEF RingInit, Call, Abstract!Call, Abstract!Init
<1>2. QED
  BY RingInvInit, RingInvNext, StepRefines, <1>1, PTL DEF RingSpec, ImplementsQueue, Abstract!Spec

-----------------------------------------------------------------------------
Nodes == [handle : Nat, data : Registrable, fn : Fns]

(* What RemoveAt does, as a sequence.                                      *)
LEMMA RemoveAtLemma ==
  ASSUME NEW S, NEW s \in Seq(S), NEW i \in 1 .. Len(s)
  PROVE  /\ RemoveAt(s, i) \in Seq(S)
         /\ Len(RemoveAt(s, i)) = Len(s) - 1
         /\ \A j \in 1 .. Len(s) - 1 : RemoveAt(s, i)[j] = IF j < i THEN s[j] ELSE s[j + 1]
<1> DEFINE front == SubSeq(s, 1, i - 1)
           back  == SubSeq(s, i + 1, Len(s))
<1>1. Len(s) \in Nat
  BY LenProperties
<1>2. /\ front \in Seq(S) /\ Len(front) = i - 1
      /\ \A j \in 1 .. i - 1 : front[j] = s[j]
  <2>1. \A j \in 1 .. i - 1 : s[j] \in S
    BY <1>1, ElementOfSeq
  <2>2. 1 \in Int /\ i - 1 \in Int
    OBVIOUS
  <2>3. /\ front \in Seq(S) /\ Len(front) = IF 1 <= i - 1 THEN (i - 1) - 1 + 1 ELSE 0
        /\ \A j \in 1 .. (i - 1) - 1 + 1 : front[j] = s[1 + j - 1]
    BY <2>1, <2>2, SubSeqProperties
  <2> HIDE DEF front
  <2>4. QED
    BY <2>3
<1>3. /\ back \in Seq(S) /\ Len(back) = Len(s) - i
      /\ \A j \in 1 .. Len(s) - i : back[j] = s[i + j]
  <2>1. \A j \in i + 1 .. Len(s) : s[j] \in S
    BY <1>1, ElementOfSeq
  <2>2. i + 1 \in Int /\ Len(s) \in Int
    BY <1>1
  <2>3. /\ back \in Seq(S) /\ Len(back) = IF i + 1 <= Len(s) THEN Len(s) - (i + 1) + 1 ELSE 0
        /\ \A j \in 1 .. Len(s) - (i + 1) + 1 : back[j] = s[(i + 1) + j - 1]
    BY <2>1, <2>2, SubSeqProperties
  <2> HIDE DEF back
  <2>4. QED
    BY <1>1, <2>3
<1>4. RemoveAt(s, i) = front \o back
  BY DEF RemoveAt
<1> HIDE DEF front, back
<1>5. /\ front \o back \in Seq(S) /\ Len(front \o back) = Len(front) + Len(back)
      /\ \A j \in 1 .. Len(front) + Len(back) :
           (front \o back)[j] = IF j <= Len(front) THEN front[j] ELSE back[j - Len(front)]
  BY <1>2, <1>3, ConcatProperties
<1>6. \A j \in 1 .. Len(s) - 1 : (front \o back)[j] = IF j < i THEN s[j] ELSE s[j + 1]
  BY <1>1, <1>2, <1>3, <1>5
<1>7. Len(front) + Len(back) = Len(s) - 1
  BY <1>1, <1>2, <1>3
<1>8. QED
  BY <1>4, <1>5, <1>6, <1>7

-----------------------------------------------------------------------------
(* The list is a sequence of nodes with numbers of their own.              *)
ListOK ==
  /\ NotifyList \in Seq(Nodes) /\ allocated \in Nat
  /\ \A i \in 1 .. Len(NotifyList) : NotifyList[i].handle <= allocated
  /\ \A i, j \in 1 .. Len(NotifyList) : NotifyList[i].handle = NotifyList[j].handle => i = j

(* A claim whose handle was not released is served by its node.            *)
Serves(node, claim) ==
  node.handle = claim.handle /\ node.fn = claim.fn /\ IsKeyRegistered(node.data, claim.data)

ClaimsOK ==
  \A claim \in claims : claim.handle \notin released =>
    \E i \in 1 .. Len(NotifyList) : Serves(NotifyList[i], claim)

(* A removed node leaves all others in the list.                           *)
LEMMA RemovedNode ==
  ASSUME ListOK, NEW h, RemoveNode(h), UNCHANGED allocated
  PROVE  /\ ListOK'
         /\ \A i \in 1 .. Len(NotifyList) : NotifyList[i].handle # h =>
              \E j \in 1 .. Len(NotifyList') : NotifyList'[j] = NotifyList[i]
<1>1. CASE UNCHANGED NotifyList
  BY <1>1 DEF ListOK
<1>2. ASSUME NEW k \in 1 .. Len(NotifyList), NotifyList[k].handle = h,
             NotifyList' = RemoveAt(NotifyList, k)
      PROVE  /\ ListOK'
             /\ \A i \in 1 .. Len(NotifyList) : NotifyList[i].handle # h =>
                  \E j \in 1 .. Len(NotifyList') : NotifyList'[j] = NotifyList[i]
  <2>1. /\ NotifyList' \in Seq(Nodes) /\ Len(NotifyList') = Len(NotifyList) - 1 /\ Len(NotifyList) \in Nat
        /\ \A j \in 1 .. Len(NotifyList) - 1 :
             NotifyList'[j] = IF j < k THEN NotifyList[j] ELSE NotifyList[j + 1]
    BY <1>2, RemoveAtLemma, LenProperties DEF ListOK
  <2>2. \A j \in 1 .. Len(NotifyList') : \E a \in 1 .. Len(NotifyList) :
          NotifyList'[j] = NotifyList[a] /\ ((j < k /\ a = j) \/ (j >= k /\ a = j + 1))
    <3> TAKE j \in 1 .. Len(NotifyList')
    <3>1. CASE j < k
      <4>1. j \in 1 .. Len(NotifyList) /\ NotifyList'[j] = NotifyList[j]
        BY <2>1, <3>1
      <4>2. QED
        BY <3>1, <4>1
    <3>2. CASE j >= k
      <4>1. j + 1 \in 1 .. Len(NotifyList) /\ NotifyList'[j] = NotifyList[j + 1]
        BY <2>1, <3>2
      <4>2. QED
        BY <3>2, <4>1
    <3>3. QED
      BY <1>2, <2>1, <3>1, <3>2
  <2>3. \A j \in 1 .. Len(NotifyList') : NotifyList'[j].handle <= allocated
    BY <2>2 DEF ListOK
  <2>4. ASSUME NEW i \in 1 .. Len(NotifyList'), NEW j \in 1 .. Len(NotifyList'),
               NotifyList'[i].handle = NotifyList'[j].handle
        PROVE  i = j
    <3>1. PICK a \in 1 .. Len(NotifyList) :
            NotifyList'[i] = NotifyList[a] /\ ((i < k /\ a = i) \/ (i >= k /\ a = i + 1))
      BY <2>2
    <3>2. PICK b \in 1 .. Len(NotifyList) :
            NotifyList'[j] = NotifyList[b] /\ ((j < k /\ b = j) \/ (j >= k /\ b = j + 1))
      BY <2>2
    <3>3. a = b
      BY <2>4, <3>1, <3>2 DEF ListOK
    <3>4. i \in Int /\ j \in Int /\ k \in Int
      BY <1>2, <2>1
    <3>5. QED
      BY <3>1, <3>2, <3>3, <3>4
  <2>5. ListOK'
    BY <2>1, <2>3, <2>4 DEF ListOK
  <2>6. ASSUME NEW i \in 1 .. Len(NotifyList), NotifyList[i].handle # h
        PROVE  \E j \in 1 .. Len(NotifyList') : NotifyList'[j] = NotifyList[i]
    <3>1. CASE i < k
      <4>1. i \in 1 .. Len(NotifyList') /\ NotifyList'[i] = NotifyList[i]
        BY <1>2, <2>1, <3>1
      <4>2. QED
        BY <4>1
    <3>2. CASE i > k
      <4>1. i - 1 \in 1 .. Len(NotifyList') /\ NotifyList'[i - 1] = NotifyList[i]
        BY <1>2, <2>1, <3>2
      <4>2. QED
        BY <4>1
    <3>3. i # k
      BY <1>2, <2>6
    <3>4. QED
      BY <1>2, <2>1, <3>1, <3>2, <3>3
  <2>7. QED
    BY <2>5, <2>6
<1>3. QED
  BY <1>1, <1>2 DEF RemoveNode

(* A new node leaves all others in the list.                               *)
LEMMA AppendedNode ==
  ASSUME ListOK, NEW data \in Registrable, NEW fn \in Fns,
         allocated' = allocated + 1,
         NotifyList' = Append(NotifyList, [handle |-> allocated + 1, data |-> data, fn |-> fn])
  PROVE  /\ ListOK'
         /\ Len(NotifyList') = Len(NotifyList) + 1
         /\ NotifyList'[Len(NotifyList) + 1] = [handle |-> allocated + 1, data |-> data, fn |-> fn]
         /\ \A i \in 1 .. Len(NotifyList) : NotifyList'[i] = NotifyList[i]
<1> DEFINE new == [handle |-> allocated + 1, data |-> data, fn |-> fn]
<1>1. new \in Nodes /\ new.handle = allocated + 1
  BY DEF ListOK, Nodes
<1>2. NotifyList' = Append(NotifyList, new)
  OBVIOUS
<1>3. NotifyList \in Seq(Nodes) /\ Len(NotifyList) \in Nat
  BY LenProperties DEF ListOK
<1> HIDE DEF new
<1>4. /\ NotifyList' \in Seq(Nodes) /\ Len(NotifyList') = Len(NotifyList) + 1
      /\ \A i \in 1 .. Len(NotifyList) : NotifyList'[i] = NotifyList[i]
      /\ NotifyList'[Len(NotifyList) + 1] = new
  BY <1>1, <1>2, <1>3, AppendProperties
<1>5. \A i \in 1 .. Len(NotifyList) : NotifyList[i].handle <= allocated /\ NotifyList[i].handle \in Nat
  <2>1. \A i \in 1 .. Len(NotifyList) : NotifyList[i] \in Nodes
    BY <1>3, ElementOfSeq
  <2>2. QED
    BY <2>1 DEF ListOK, Nodes
<1>6. \A i \in 1 .. Len(NotifyList') :
        \/ i \in 1 .. Len(NotifyList)
        \/ i = Len(NotifyList) + 1
  BY <1>3, <1>4
<1>7. \A i \in 1 .. Len(NotifyList') : NotifyList'[i].handle <= allocated'
  BY <1>1, <1>4, <1>5, <1>6 DEF ListOK
<1>8. ASSUME NEW i \in 1 .. Len(NotifyList'), NEW j \in 1 .. Len(NotifyList'),
             NotifyList'[i].handle = NotifyList'[j].handle
      PROVE  i = j
  <2>1. CASE i \in 1 .. Len(NotifyList) /\ j \in 1 .. Len(NotifyList)
    BY <1>4, <1>8, <2>1 DEF ListOK
  <2>2. \A k \in 1 .. Len(NotifyList) : NotifyList'[k].handle # allocated + 1
    BY <1>4, <1>5 DEF ListOK
  <2>3. NotifyList'[Len(NotifyList) + 1].handle = allocated + 1
    BY <1>1, <1>4
  <2>4. QED
    BY <1>6, <1>8, <2>1, <2>2, <2>3
<1>9. allocated' \in Nat
  BY DEF ListOK
<1>10. QED
  BY <1>4, <1>7, <1>8, <1>9 DEF ListOK, new

(* The steps that touch the list.                                          *)
LEMMA ListSteps ==
  ASSUME [Next]_vars
  PROVE  \/ UNCHANGED list
         \/ \E client \in Clients, data \in Registrable, fn \in Fns : RegisterKeyNotify(client, data, fn)
         \/ \E claim \in claims : UnregisterKeyNotify(claim)
<1>1. CASE TimerEvent \/ ReadKeyStrokeEx \/ ReadKeyStroke \/ WaitForKey \/ Reset \/ SetState
  BY <1>1 DEF TimerEvent, ReadKeyStrokeEx, ReadKeyStroke, WaitForKey, Reset, SetState
<1>2. CASE Notify
  BY <1>2 DEF Notify, NotifyDispatch, NotifyPop, NotifyVisit, NotifyNext, NotifyStray
<1>3. CASE UNCHANGED vars
  BY <1>3 DEF vars
<1>4. QED
  BY <1>1, <1>2, <1>3 DEF Next

(* What a registration does to the list: nothing, or a new node.           *)
LEMMA Registers ==
  ASSUME ListOK, NEW client \in Clients, NEW data \in Registrable, NEW fn \in Fns,
         RegisterKeyNotify(client, data, fn)
  PROVE  /\ ListOK'
         /\ \A i \in 1 .. Len(NotifyList) : i \in 1 .. Len(NotifyList') /\ NotifyList'[i] = NotifyList[i]
<1>1. CASE UNCHANGED <<NotifyList, allocated>>
  BY <1>1 DEF ListOK
<1>2. CASE /\ allocated' = allocated + 1
           /\ NotifyList' = Append(NotifyList, [handle |-> allocated + 1, data |-> data, fn |-> fn])
  <2>1. Len(NotifyList) \in Nat
    BY LenProperties DEF ListOK
  <2>2. QED
    BY <1>2, <2>1, AppendedNode
<1>3. QED
  BY <1>1, <1>2 DEF RegisterKeyNotify

LEMMA ListInit == Init => ListOK
  BY EmptySeq DEF Init, ListOK

LEMMA ListNext == ListOK /\ [Next]_vars => ListOK'
<1> SUFFICES ASSUME ListOK, [Next]_vars PROVE ListOK'
  OBVIOUS
<1>1. CASE UNCHANGED list
  BY <1>1 DEF list, ListOK
<1>2. ASSUME NEW client \in Clients, NEW data \in Registrable, NEW fn \in Fns,
         RegisterKeyNotify(client, data, fn) PROVE ListOK'
  BY <1>2, Registers
<1>3. ASSUME NEW claim \in claims, UnregisterKeyNotify(claim) PROVE ListOK'
  BY <1>3, RemovedNode DEF UnregisterKeyNotify
<1>4. QED
  BY <1>1, <1>2, <1>3, ListSteps

-----------------------------------------------------------------------------
(* A registration that is registered with another has no keys the other    *)
(* has not.                                                                *)
LEMMA CoversLemma ==
  ASSUME NEW d, NEW e, IsKeyRegistered(d, e)
  PROVE  Covers(d, e)
BY DEF Covers, IsKeyRegistered

LEMMA ClaimsNext ==
  ASSUME ListOK, ClaimsOK, [Next]_vars
  PROVE  ClaimsOK'
<1>1. CASE UNCHANGED list
  BY <1>1 DEF list, ClaimsOK, Serves
<1>2. ASSUME NEW client \in Clients, NEW data \in Registrable, NEW fn \in Fns,
             RegisterKeyNotify(client, data, fn)
      PROVE  ClaimsOK'
  <2>1. released' = released
    BY <1>2 DEF RegisterKeyNotify
  <2>2. ASSUME NEW h, NEW k \in 1 .. Len(NotifyList'),
               Serves(NotifyList'[k], [client |-> client, data |-> data, fn |-> fn, handle |-> h]),
               claims' = claims \cup {[client |-> client, data |-> data, fn |-> fn, handle |-> h]}
        PROVE  ClaimsOK'
    <3>1. ASSUME NEW claim \in claims, claim.handle \notin released
          PROVE  \E i \in 1 .. Len(NotifyList') : Serves(NotifyList'[i], claim)
      BY <1>2, <3>1, Registers DEF ClaimsOK
    <3>2. QED
      BY <2>1, <2>2, <3>1 DEF ClaimsOK, Serves
  <2>3. ASSUME NEW i \in Covering(data, fn),
               claims' = claims \cup {[client |-> client, data |-> data, fn |-> fn,
                                       handle |-> NotifyList[i].handle]},
               UNCHANGED NotifyList
        PROVE  ClaimsOK'
    <3>1. /\ i \in 1 .. Len(NotifyList) /\ IsKeyRegistered(NotifyList[i].data, data)
          /\ NotifyList[i].fn = fn
      BY <2>3 DEF Covering
    <3>2. Serves(NotifyList'[i], [client |-> client, data |-> data, fn |-> fn,
                                  handle |-> NotifyList[i].handle])
      BY <2>3, <3>1 DEF Serves
    <3>3. i \in 1 .. Len(NotifyList')
      BY <2>3, <3>1
    <3>4. QED
      BY <2>2, <2>3, <3>2, <3>3
  <2>4. ASSUME allocated' = allocated + 1,
               NotifyList' = Append(NotifyList, [handle |-> allocated + 1, data |-> data, fn |-> fn]),
               claims' = claims \cup {[client |-> client, data |-> data, fn |-> fn,
                                       handle |-> allocated + 1]}
        PROVE  ClaimsOK'
    <3>1. /\ Len(NotifyList') = Len(NotifyList) + 1
          /\ NotifyList'[Len(NotifyList) + 1] = [handle |-> allocated + 1, data |-> data, fn |-> fn]
      BY <2>4, AppendedNode
    <3>2. IsKeyRegistered(data, data)
      BY DEF IsKeyRegistered
    <3>3. Serves(NotifyList'[Len(NotifyList) + 1],
                 [client |-> client, data |-> data, fn |-> fn, handle |-> allocated + 1])
      BY <3>1, <3>2 DEF Serves
    <3>4. Len(NotifyList) + 1 \in 1 .. Len(NotifyList')
      BY <3>1, LenProperties DEF ListOK
    <3>5. QED
      BY <2>2, <2>4, <3>3, <3>4
  <2>5. QED
    BY <1>2, <2>3, <2>4 DEF RegisterKeyNotify
<1>3. ASSUME NEW gone \in claims, UnregisterKeyNotify(gone) PROVE ClaimsOK'
  <2>1. /\ claims' = claims \ {gone} /\ released' = released \cup {gone.handle}
        /\ RemoveNode(gone.handle) /\ UNCHANGED allocated
    BY <1>3 DEF UnregisterKeyNotify
  <2>2. ASSUME NEW claim \in claims', claim.handle \notin released'
        PROVE  \E i \in 1 .. Len(NotifyList') : Serves(NotifyList'[i], claim)
    <3>1. claim \in claims /\ claim.handle \notin released /\ claim.handle # gone.handle
      BY <2>1, <2>2
    <3>2. PICK i \in 1 .. Len(NotifyList) : Serves(NotifyList[i], claim)
      BY <3>1 DEF ClaimsOK
    <3>3. PICK k \in 1 .. Len(NotifyList') : NotifyList'[k] = NotifyList[i]
      BY <2>1, <3>1, <3>2, RemovedNode DEF Serves
    <3>4. QED
      BY <3>2, <3>3
  <2>3. QED
    BY <2>2 DEF ClaimsOK, Serves
<1>4. QED
  BY <1>1, <1>2, <1>3, ListSteps

(* A registration is served, for its function and all its keys, until its  *)
(* handle is released: registering hands out a node that covers it, and    *)
(* what UnregisterKeyNotify frees is the node of the handle it was given.  *)
THEOREM ClaimsServed == Spec => []ClaimServed
<1>1. Init => ListOK /\ ClaimsOK
  BY ListInit DEF Init, ClaimsOK
<1>2. ListOK /\ ClaimsOK /\ [Next]_vars => ListOK' /\ ClaimsOK'
  BY ListNext, ClaimsNext
<1>3. ClaimsOK => ClaimServed
  BY CoversLemma DEF ClaimsOK, Serves, ClaimServed
<1>4. QED
  BY <1>1, <1>2, <1>3, PTL DEF Spec

-----------------------------------------------------------------------------
HasWhole(ring) == \E i \in 1 .. Count(ring) : ~IsPartial(Contents(ring)[i])

(* No partial keystroke pushes a whole key out.                            *)
Roomy(pressed) == pressed < N \/ \A key \in Inputs : ~IsPartial(key)

QueueOK ==
  /\ GoodRing(EfiKeyQueue)
  /\ presses \in Nat /\ Count(EfiKeyQueue) <= presses
  /\ waitSignalled /\ Roomy(presses) => HasWhole(EfiKeyQueue)

(* Of some numbers there is a least one.                                   *)
LEMMA LeastNumber ==
  ASSUME NEW S \in SUBSET Nat, S # {}
  PROVE  \E m \in S : \A n \in S : m <= n
<1>1. PICK m \in S : \A n \in S : ~(<<n, m>> \in OpToRel(<, Nat))
  BY NatLessThanWellFounded, WFMin, Zenon
<1>2. ASSUME NEW n \in S PROVE m <= n
  <2>1. n < m => <<n, m>> \in OpToRel(<, Nat)
    BY DEF OpToRel
  <2>2. ~(n < m)
    BY <1>1, <2>1, Zenon
  <2>3. n \in Nat /\ m \in Nat
    OBVIOUS
  <2>4. QED
    BY <2>2, <2>3
<1>3. QED
  BY <1>2

(* What a push does to the queue, key by key.                              *)
LEMMA PushedKeys ==
  ASSUME NEW ring, GoodRing(ring), NEW key \in KeyData,
         NEW new, new = PushEfikeyBufTail(ring, key)
  PROVE  /\ GoodRing(new) /\ Count(new) <= Count(ring) + 1
         /\ Count(new) \in 1 .. N - 1 /\ Contents(new)[Count(new)] = key
         /\ Count(ring) < N - 1 =>
              /\ Count(new) = Count(ring) + 1
              /\ \A i \in 1 .. Count(ring) : Contents(new)[i] = Contents(ring)[i]
<1> DEFINE kept == IF Len(Contents(ring)) = N - 1 THEN Tail(Contents(ring)) ELSE Contents(ring)
<1>1. GoodRing(new) /\ Contents(new) = Append(kept, key)
  BY PushLemma
<1>2. /\ Contents(ring) \in Seq(KeyData) /\ Len(Contents(ring)) = Count(ring)
      /\ Contents(new) \in Seq(KeyData) /\ Len(Contents(new)) = Count(new)
      /\ Count(ring) \in 0 .. N - 1 /\ Count(new) \in 0 .. N - 1 /\ N \in Nat /\ N > 1
  BY <1>1, ContentsType, CountType, NType DEF GoodRing
<1>3. kept \in Seq(KeyData) /\ Len(kept) <= Count(ring)
  <2>1. Contents(ring) # <<>> => /\ Tail(Contents(ring)) \in Seq(KeyData)
                                 /\ Len(Tail(Contents(ring))) = Count(ring) - 1
    BY <1>2, HeadTailProperties
  <2>2. Count(ring) = N - 1 => Contents(ring) # <<>>
    BY <1>2, EmptySeq
  <2>3. QED
    BY <1>2, <2>1, <2>2
<1>4. Count(ring) < N - 1 => kept = Contents(ring)
  BY <1>2
<1>5. Len(kept) \in Nat
  BY <1>3, LenProperties
<1> HIDE DEF kept
<1>6. /\ Len(Append(kept, key)) = Len(kept) + 1
      /\ \A i \in 1 .. Len(kept) : Append(kept, key)[i] = kept[i]
      /\ Append(kept, key)[Len(kept) + 1] = key
  BY <1>3, AppendProperties
<1>7. QED
  BY <1>1, <1>2, <1>3, <1>4, <1>5, <1>6

(* The poll: it loses a whole key only to another one, or when full.       *)
LEMMA PolledKeys ==
  ASSUME QueueOK, NEW key \in Typed, TimerHandler(key)
  PROVE  /\ GoodRing(Polled(key))
         /\ presses' \in Nat /\ Count(Polled(key)) <= presses'
         /\ Roomy(presses') => Roomy(presses)
         /\ Roomy(presses') /\ HasWhole(EfiKeyQueue) => HasWhole(Polled(key))
<1>1. Count(EfiKeyQueue) \in Nat /\ N \in Nat
  BY CountType, NType DEF QueueOK, GoodRing
<1>2. CASE Taken(key)
  <2>1. key \in Inputs /\ key \in KeyData /\ presses' = presses + 1
    BY <1>2, ConsoleAssumption DEF Taken, Typed, TimerHandler
  <2>2. Polled(key) = PushEfikeyBufTail(EfiKeyQueue, key)
    BY <1>2 DEF Polled
  <2>3. /\ GoodRing(Polled(key)) /\ Count(Polled(key)) <= Count(EfiKeyQueue) + 1
        /\ Count(Polled(key)) \in 1 .. N - 1 /\ Contents(Polled(key))[Count(Polled(key))] = key
        /\ Count(EfiKeyQueue) < N - 1 =>
             /\ Count(Polled(key)) = Count(EfiKeyQueue) + 1
             /\ \A i \in 1 .. Count(EfiKeyQueue) : Contents(Polled(key))[i] = Contents(EfiKeyQueue)[i]
    BY <2>1, <2>2, PushedKeys DEF QueueOK
  <2>4. presses' \in Nat /\ Count(Polled(key)) <= presses'
    BY <1>1, <2>1, <2>3 DEF QueueOK
  <2>5. Roomy(presses') => Roomy(presses)
    BY <1>1, <2>1 DEF Roomy, QueueOK
  <2>6. ASSUME HasWhole(EfiKeyQueue), presses' < N PROVE HasWhole(Polled(key))
    <3>1. Count(EfiKeyQueue) < N - 1
      BY <1>1, <2>1, <2>6 DEF QueueOK
    <3>2. PICK i \in 1 .. Count(EfiKeyQueue) : ~IsPartial(Contents(EfiKeyQueue)[i])
      BY <2>6 DEF HasWhole
    <3>3. i \in 1 .. Count(Polled(key)) /\ ~IsPartial(Contents(Polled(key))[i])
      BY <1>1, <2>3, <3>1, <3>2
    <3>4. QED
      BY <3>3 DEF HasWhole
  <2>7. ASSUME \A k \in Inputs : ~IsPartial(k) PROVE HasWhole(Polled(key))
    <3>1. Count(Polled(key)) \in 1 .. Count(Polled(key)) /\ ~IsPartial(Contents(Polled(key))[Count(Polled(key))])
      BY <1>1, <2>1, <2>3, <2>7
    <3>2. QED
      BY <3>1 DEF HasWhole
  <2>8. QED
    BY <2>3, <2>4, <2>5, <2>6, <2>7 DEF Roomy
<1>3. CASE ~Taken(key)
  <2>1. Polled(key) = EfiKeyQueue
    BY <1>3 DEF Polled
  <2>2. presses' = presses \/ presses' = presses + 1
    BY DEF TimerHandler
  <2>3. QED
    BY <1>1, <2>1, <2>2 DEF QueueOK, Roomy
<1>4. QED
  BY <1>2, <1>3

(* A partial keystroke at the head is popped from in front of a whole key. *)
LEMMA PoppedKeys ==
  ASSUME NEW ring, GoodRing(ring)
  PROVE  /\ GoodRing(PopEfikeyBufHead(ring)) /\ Count(PopEfikeyBufHead(ring)) <= Count(ring)
         /\ ~IsEfikeyBufEmpty(ring) /\ IsPartial(HeadKey(ring)) /\ HasWhole(ring) =>
              HasWhole(PopEfikeyBufHead(ring))
<1>1. CASE IsEfikeyBufEmpty(ring)
  <2>1. PopEfikeyBufHead(ring) = ring /\ Count(ring) \in Nat
    BY <1>1, CountType, NType DEF PopEfikeyBufHead, GoodRing
  <2>2. QED
    BY <1>1, <2>1
<1>2. CASE ~IsEfikeyBufEmpty(ring)
  <2>1. /\ GoodRing(PopEfikeyBufHead(ring)) /\ Contents(ring) # <<>>
        /\ HeadKey(ring) = Head(Contents(ring))
        /\ Contents(PopEfikeyBufHead(ring)) = Tail(Contents(ring))
        /\ Count(PopEfikeyBufHead(ring)) = Count(ring) - 1
    BY <1>2, PopLemma
  <2>2. Contents(ring) \in Seq(KeyData) /\ Len(Contents(ring)) = Count(ring) /\ Count(ring) \in Nat
    BY ContentsType, CountType, NType DEF GoodRing
  <2>3. \A i \in 1 .. Count(ring) - 1 : Tail(Contents(ring))[i] = Contents(ring)[i + 1]
    BY <2>1, <2>2, HeadTailProperties
  <2>4. Head(Contents(ring)) = Contents(ring)[1]
    BY <2>1, <2>2
  <2>5. ASSUME IsPartial(HeadKey(ring)), NEW i \in 1 .. Count(ring), ~IsPartial(Contents(ring)[i])
        PROVE  HasWhole(PopEfikeyBufHead(ring))
    <3>1. i # 1
      BY <2>1, <2>4, <2>5
    <3>2. i - 1 \in 1 .. Count(ring) - 1 /\ (i - 1) + 1 = i
      BY <2>2, <3>1
    <3>3. Contents(PopEfikeyBufHead(ring))[i - 1] = Contents(ring)[i]
      BY <2>1, <2>3, <3>2
    <3>4. QED
      BY <2>1, <2>5, <3>2, <3>3 DEF HasWhole
  <2>6. QED
    BY <2>1, <2>2, <2>5 DEF HasWhole
<1>3. QED
  BY <1>1, <1>2

(* What WaitForKey leaves behind starts with a whole key, if there is one. *)
LEMMA SkippedKeys ==
  ASSUME NEW ring, GoodRing(ring)
  PROVE  /\ GoodRing(SkipPartial(ring)) /\ Count(SkipPartial(ring)) <= Count(ring)
         /\ HasWhole(ring) => HasWhole(SkipPartial(ring))
         /\ ~IsEfikeyBufEmpty(SkipPartial(ring)) => HasWhole(SkipPartial(ring))
<1> DEFINE new == SkipPartial(ring)
<1>1. Count(ring) \in Nat
  BY CountType, NType DEF GoodRing
<1>2. PICK n \in 0 .. Count(ring) :
        /\ n = Leading(ring)
        /\ \A i \in 1 .. n : IsPartial(Contents(ring)[i])
        /\ n < Count(ring) => ~IsPartial(Contents(ring)[n + 1])
  <2> DEFINE Ends == {m \in 0 .. Count(ring) : m < Count(ring) => ~IsPartial(Contents(ring)[m + 1])}
  <2>1. Ends \in SUBSET Nat /\ Count(ring) \in Ends
    BY <1>1
  <2>2. PICK m \in Ends : \A k \in Ends : m <= k
    BY <2>1, LeastNumber
  <2>3. ASSUME NEW i \in 1 .. m PROVE IsPartial(Contents(ring)[i])
    <3>1. i - 1 \in 0 .. Count(ring) /\ i - 1 < Count(ring) /\ (i - 1) + 1 = i /\ ~(m <= i - 1)
      BY <1>1, <2>1
    <3>2. i - 1 \notin Ends
      BY <2>2, <3>1
    <3>3. QED
      BY <3>1, <3>2
  <2>4. /\ m \in 0 .. Count(ring) /\ \A i \in 1 .. m : IsPartial(Contents(ring)[i])
        /\ m < Count(ring) => ~IsPartial(Contents(ring)[m + 1])
    BY <2>3
  <2>5. QED
    BY <2>4, Zenon DEF Leading
<1>3. new = [ring EXCEPT !.Head = Wrap(@ + n)]
  BY <1>2 DEF SkipPartial
<1> HIDE DEF new
<1>4. /\ GoodRing(new) /\ Count(new) = Count(ring) - n
      /\ \A i \in 1 .. Count(new) : Contents(new)[i] = Contents(ring)[n + i]
  BY <1>3, DropLemma
<1>5. ASSUME n < Count(ring) PROVE HasWhole(new)
  <2>1. 1 \in 1 .. Count(new)
    BY <1>1, <1>4, <1>5
  <2>2. Contents(new)[1] = Contents(ring)[n + 1]
    BY <1>4, <2>1
  <2>3. QED
    BY <1>2, <1>5, <2>1, <2>2 DEF HasWhole
<1>6. HasWhole(ring) => n < Count(ring)
  BY <1>1, <1>2 DEF HasWhole
<1>7. ~IsEfikeyBufEmpty(new) => n < Count(ring)
  <2>1. IsEfikeyBufEmpty(new) <=> Count(new) = 0
    BY <1>4, CountType DEF GoodRing
  <2>2. QED
    BY <1>1, <1>4, <2>1
<1>8. QED
  BY <1>1, <1>4, <1>5, <1>6, <1>7 DEF new

LEMMA QueueInit == Init => QueueOK
<1> SUFFICES ASSUME Init PROVE QueueOK
  OBVIOUS
<1>1. Count(InitialRing) = 0
  BY DEF InitialRing, Count
<1>2. QED
  BY <1>1, InitialLemma DEF Init, QueueOK

LEMMA QueueNext == QueueOK /\ [Next]_vars => QueueOK'
<1> SUFFICES ASSUME QueueOK, [Next]_vars PROVE QueueOK'
  OBVIOUS
<1>1. CASE TimerEvent
  <2>1. PICK key \in Typed : TimerHandler(key) /\ EfiKeyQueue' = Polled(key)
    BY <1>1 DEF TimerEvent
  <2>2. UNCHANGED waitSignalled
    BY <1>1 DEF TimerEvent
  <2>3. QED
    BY <2>1, <2>2, PolledKeys DEF QueueOK
<1>2. CASE ReadKeyStrokeEx
  <2>1. PICK key \in Typed : TimerHandler(key) /\ EfiKeyQueue' = PopEfikeyBufHead(Polled(key))
    BY <1>2 DEF ReadKeyStrokeEx
  <2>2. waitSignalled' = FALSE
    BY <1>2 DEF ReadKeyStrokeEx
  <2>3. GoodRing(Polled(key)) /\ presses' \in Nat /\ Count(Polled(key)) <= presses'
    BY <2>1, PolledKeys
  <2>4. GoodRing(EfiKeyQueue') /\ Count(EfiKeyQueue') <= Count(Polled(key))
    BY <2>1, <2>3, PoppedKeys
  <2>5. Count(Polled(key)) \in Nat /\ Count(EfiKeyQueue') \in Nat
    BY <2>3, <2>4, CountType, NType DEF GoodRing
  <2>6. QED
    BY <2>2, <2>3, <2>4, <2>5 DEF QueueOK
<1>3. CASE ReadKeyStroke
  <2>1. PICK key \in Typed :
          /\ TimerHandler(key) /\ EfiKeyQueue' = PopEfikeyBufHead(Polled(key))
          /\ \/ waitSignalled' = FALSE
             \/ /\ ~IsEfikeyBufEmpty(Polled(key)) /\ IsPartial(HeadKey(Polled(key)))
                /\ UNCHANGED waitSignalled
    BY <1>3 DEF ReadKeyStroke
  <2>2. /\ GoodRing(Polled(key)) /\ presses' \in Nat /\ Count(Polled(key)) <= presses'
        /\ Roomy(presses') => Roomy(presses)
        /\ Roomy(presses') /\ HasWhole(EfiKeyQueue) => HasWhole(Polled(key))
    BY <2>1, PolledKeys
  <2>3. /\ GoodRing(EfiKeyQueue') /\ Count(EfiKeyQueue') <= Count(Polled(key))
        /\ ~IsEfikeyBufEmpty(Polled(key)) /\ IsPartial(HeadKey(Polled(key))) /\ HasWhole(Polled(key)) =>
             HasWhole(EfiKeyQueue')
    BY <2>1, <2>2, PoppedKeys
  <2>4. Count(Polled(key)) \in Nat /\ Count(EfiKeyQueue') \in Nat
    BY <2>2, <2>3, CountType, NType DEF GoodRing
  <2>5. waitSignalled' /\ Roomy(presses') => HasWhole(EfiKeyQueue')
    BY <2>1, <2>2, <2>3 DEF QueueOK
  <2>6. QED
    BY <2>2, <2>3, <2>4, <2>5 DEF QueueOK
<1>4. CASE WaitForKey
  <2>1. PICK key \in Typed :
          /\ TimerHandler(key) /\ EfiKeyQueue' = SkipPartial(Polled(key))
          /\ waitSignalled' = (waitSignalled \/ ~IsEfikeyBufEmpty(SkipPartial(Polled(key))))
    BY <1>4 DEF WaitForKey
  <2>2. /\ GoodRing(Polled(key)) /\ presses' \in Nat /\ Count(Polled(key)) <= presses'
        /\ Roomy(presses') => Roomy(presses)
        /\ Roomy(presses') /\ HasWhole(EfiKeyQueue) => HasWhole(Polled(key))
    BY <2>1, PolledKeys
  <2>3. /\ GoodRing(EfiKeyQueue') /\ Count(EfiKeyQueue') <= Count(Polled(key))
        /\ HasWhole(Polled(key)) => HasWhole(EfiKeyQueue')
        /\ ~IsEfikeyBufEmpty(SkipPartial(Polled(key))) => HasWhole(EfiKeyQueue')
    BY <2>1, <2>2, SkippedKeys
  <2>4. Count(Polled(key)) \in Nat /\ Count(EfiKeyQueue') \in Nat
    BY <2>2, <2>3, CountType, NType DEF GoodRing
  <2>5. waitSignalled' /\ Roomy(presses') => HasWhole(EfiKeyQueue')
    BY <2>1, <2>2, <2>3 DEF QueueOK
  <2>6. QED
    BY <2>2, <2>3, <2>4, <2>5 DEF QueueOK
<1>5. CASE Reset
  <2>1. GoodRing(EfiKeyQueue') /\ presses' = presses /\ waitSignalled' = FALSE
    BY <1>5, ClearLemma DEF Reset, QueueOK
  <2>2. EfiKeyQueue'.Head = 0 /\ EfiKeyQueue'.Tail = 0
    BY <1>5 DEF Reset, ClearedRing, QueueOK, GoodRing, Ring
  <2>3. Count(EfiKeyQueue') = 0
    BY <2>2 DEF Count
  <2>4. QED
    BY <2>1, <2>3 DEF QueueOK
<1>6. CASE UNCHANGED <<EfiKeyQueue, waitSignalled, presses>>
  BY <1>6 DEF QueueOK
<1>7. CASE SetState
  BY <1>6, <1>7 DEF SetState, queues
<1>8. ASSUME NEW client \in Clients, NEW data \in Registrable, NEW fn \in Fns,
         RegisterKeyNotify(client, data, fn) PROVE QueueOK'
  BY <1>6, <1>8 DEF RegisterKeyNotify, queues
<1>9. ASSUME NEW claim \in claims, UnregisterKeyNotify(claim) PROVE QueueOK'
  BY <1>6, <1>9 DEF UnregisterKeyNotify, queues
<1>10. CASE Notify
  BY <1>6, <1>10 DEF Notify, NotifyDispatch, NotifyPop, NotifyVisit, NotifyNext, NotifyStray, queues
<1>11. CASE UNCHANGED vars
  BY <1>6, <1>11 DEF vars, queues
<1>12. QED
  BY <1>1, <1>2, <1>3, <1>4, <1>5, <1>7, <1>8, <1>9, <1>10, <1>11 DEF Next

(* WaitForKey tells the truth: between its signal and the next read there  *)
(* is a whole key in the queue KeypadReadKeyStroke reads, unless partial   *)
(* keystrokes overflowed it.                                               *)
THEOREM WaitedKey == Spec => []WaitedKeyIsThere
<1>1. QueueOK => WaitedKeyIsThere
  BY DEF QueueOK, Roomy, HasWhole, WaitedKeyIsThere, N
<1>2. QED
  BY <1>1, QueueInit, QueueNext, PTL DEF Spec
-----------------------------------------------------------------------------
(* How many of the keys in a ring a registration matches.                  *)

(* The ring has finitely many keys.                                        *)
LEMMA MatchingType ==
  ASSUME NEW ring, GoodRing(ring), NEW data
  PROVE  /\ IsFiniteSet(Matching(ring, data)) /\ Cardinality(Matching(ring, data)) \in Nat
         /\ Matching(ring, data) \subseteq 1 .. Count(ring)
<1>1. 1 \in Int /\ Count(ring) \in Int
  BY CountType, NType DEF GoodRing
<1>2. Matching(ring, data) \in SUBSET (1 .. Count(ring))
  BY DEF Matching
<1>3. IsFiniteSet(1 .. Count(ring))
  BY <1>1, FS_Interval
<1>4. IsFiniteSet(Matching(ring, data))
  BY <1>2, <1>3, FS_Subset
<1>5. QED
  BY <1>2, <1>4, FS_CardinalityType

(* A popped key no longer counts.                                          *)
LEMMA PoppedMatch ==
  ASSUME NEW ring, GoodRing(ring), ~IsEfikeyBufEmpty(ring), NEW data
  PROVE  LET new == PopEfikeyBufHead(ring)
         IN  /\ Cardinality(Matching(new, data)) <= Cardinality(Matching(ring, data))
             /\ IsKeyRegistered(data, HeadKey(ring)) =>
                  Cardinality(Matching(new, data)) + 1 <= Cardinality(Matching(ring, data))
<1> DEFINE new  == PopEfikeyBufHead(ring)
           rest == Matching(ring, data) \ {1}
<1>1. /\ GoodRing(new) /\ Contents(ring) # <<>> /\ HeadKey(ring) = Head(Contents(ring))
      /\ Contents(new) = Tail(Contents(ring)) /\ Count(new) = Count(ring) - 1
  BY PopLemma
<1>2. Contents(ring) \in Seq(KeyData) /\ Len(Contents(ring)) = Count(ring) /\ Count(ring) \in Nat
  BY ContentsType, CountType, NType DEF GoodRing
<1>3. \A i \in 1 .. Count(ring) - 1 : Contents(new)[i] = Contents(ring)[i + 1]
  BY <1>1, <1>2, HeadTailProperties
<1>4. HeadKey(ring) = Contents(ring)[1] /\ Count(ring) # 0
  BY <1>1, <1>2, EmptySeq
<1> HIDE DEF new
<1>5. /\ IsFiniteSet(Matching(ring, data)) /\ Cardinality(Matching(ring, data)) \in Nat
      /\ IsFiniteSet(Matching(new, data)) /\ Cardinality(Matching(new, data)) \in Nat
  BY <1>1, MatchingType
<1>6. /\ IsFiniteSet(rest)
      /\ Cardinality(rest) = IF 1 \in Matching(ring, data) THEN Cardinality(Matching(ring, data)) - 1
                             ELSE Cardinality(Matching(ring, data))
  BY <1>5, FS_RemoveElement
<1>7. Cardinality(Matching(new, data)) <= Cardinality(rest)
  <2> DEFINE shift == [i \in Matching(new, data) |-> i + 1]
  <2>1. \A i \in Matching(new, data) : i \in Int /\ i + 1 \in rest
    BY <1>1, <1>2, <1>3 DEF Matching
  <2>2. shift \in [Matching(new, data) -> rest]
    BY <2>1
  <2>3. \A i, j \in Matching(new, data) : shift[i] = shift[j] => i = j
    BY <2>1
  <2> HIDE DEF shift, rest
  <2>4. shift \in Injection(Matching(new, data), rest)
    BY <2>2, <2>3 DEF Injection, IsInjective
  <2>5. QED
    BY <1>6, <2>4, FS_Injection
<1>8. IsKeyRegistered(data, HeadKey(ring)) => 1 \in Matching(ring, data)
  BY <1>2, <1>4 DEF Matching
<1> HIDE DEF rest
<1>9. QED
  BY <1>5, <1>6, <1>7, <1>8 DEF new

(* A pushed key counts once.                                               *)
LEMMA PushedMatch ==
  ASSUME NEW ring, GoodRing(ring), NEW key \in KeyData, NEW data
  PROVE  LET new == PushEfikeyBufTail(ring, key)
         IN  /\ Cardinality(Matching(new, data)) <= Cardinality(Matching(ring, data)) + 1
             /\ ~IsKeyRegistered(data, key) =>
                  Cardinality(Matching(new, data)) <= Cardinality(Matching(ring, data))
<1> DEFINE room == IF Full(ring) THEN PopEfikeyBufHead(ring) ELSE ring
           new  == [room EXCEPT !.Buffer[room.Tail] = key, !.Tail = Wrap(@ + 1)]
<1>1. PushEfikeyBufTail(ring, key) = new
  BY DEF PushEfikeyBufTail
<1>2. /\ GoodRing(room) /\ ~Full(room)
      /\ Cardinality(Matching(room, data)) <= Cardinality(Matching(ring, data))
  <2>1. CASE Full(ring)
    <3>1. Count(ring) = N - 1 /\ N \in Nat /\ N > 1 /\ ~IsEfikeyBufEmpty(ring)
      BY <2>1, CountType, NType DEF GoodRing
    <3>2. GoodRing(PopEfikeyBufHead(ring)) /\ Count(PopEfikeyBufHead(ring)) = Count(ring) - 1
      BY <3>1, PopLemma
    <3>3. ~Full(PopEfikeyBufHead(ring))
      BY <3>1, <3>2, CountType DEF GoodRing
    <3>4. QED
      BY <2>1, <3>1, <3>2, <3>3, PoppedMatch
  <2>2. CASE ~Full(ring)
    <3>1. Cardinality(Matching(ring, data)) \in Nat
      BY MatchingType
    <3>2. QED
      BY <2>2, <3>1
  <2>3. QED
    BY <2>1, <2>2
<1> HIDE DEF room
<1>3. GoodRing(new) /\ Contents(new) = Append(Contents(room), key)
  BY <1>2, RoomLemma
<1> HIDE DEF new
<1>4. /\ Contents(room) \in Seq(KeyData) /\ Len(Contents(room)) = Count(room)
      /\ Len(Contents(new)) = Count(new) /\ Count(room) \in Nat
  BY <1>2, <1>3, ContentsType, CountType, NType DEF GoodRing
<1>5. /\ Count(new) = Count(room) + 1
      /\ \A i \in 1 .. Count(room) : Contents(new)[i] = Contents(room)[i]
      /\ Contents(new)[Count(room) + 1] = key
  BY <1>3, <1>4, AppendProperties
<1>6. /\ IsFiniteSet(Matching(room, data)) /\ Cardinality(Matching(room, data)) \in Nat
      /\ IsFiniteSet(Matching(new, data)) /\ Cardinality(Matching(new, data)) \in Nat
      /\ Cardinality(Matching(ring, data)) \in Nat
  BY <1>2, <1>3, MatchingType
<1>7. \A i \in Matching(new, data) : i \in Matching(room, data) \/ (i = Count(room) + 1 /\ IsKeyRegistered(data, key))
  <2> TAKE i \in Matching(new, data)
  <2>1. i \in 1 .. Count(room) + 1 /\ IsKeyRegistered(data, Contents(new)[i])
    BY <1>5 DEF Matching
  <2>2. CASE i = Count(room) + 1
    BY <1>5, <2>1, <2>2
  <2>3. CASE i # Count(room) + 1
    <3>1. i \in 1 .. Count(room)
      BY <1>4, <2>1, <2>3
    <3>2. QED
      BY <1>5, <2>1, <3>1 DEF Matching
  <2>4. QED
    BY <2>2, <2>3
<1>8. Cardinality(Matching(new, data)) <= Cardinality(Matching(room, data)) + 1
  <2>1. Matching(new, data) \in SUBSET (Matching(room, data) \cup {Count(room) + 1})
    BY <1>7
  <2>2. /\ IsFiniteSet(Matching(room, data) \cup {Count(room) + 1})
        /\ Cardinality(Matching(room, data) \cup {Count(room) + 1}) =
             IF Count(room) + 1 \in Matching(room, data) THEN Cardinality(Matching(room, data))
             ELSE Cardinality(Matching(room, data)) + 1
    BY <1>6, FS_AddElement
  <2>3. Cardinality(Matching(new, data)) <= Cardinality(Matching(room, data) \cup {Count(room) + 1})
    BY <2>1, <2>2, FS_Subset
  <2>4. QED
    BY <1>6, <2>2, <2>3
<1>9. ASSUME ~IsKeyRegistered(data, key)
      PROVE  Cardinality(Matching(new, data)) <= Cardinality(Matching(room, data))
  <2>1. Matching(new, data) \in SUBSET Matching(room, data)
    BY <1>7, <1>9
  <2>2. QED
    BY <1>6, <2>1, FS_Subset
<1>10. QED
  BY <1>1, <1>2, <1>6, <1>8, <1>9

-----------------------------------------------------------------------------
(* What the handler owes the functions it calls.                           *)

(* The walk for hkey has node i before it, and will call it.               *)
Ahead(i) ==
  /\ hpc \in {"visit", "called", "next"} /\ IsKeyRegistered(NotifyList[i].data, hkey)
  /\ \E p \in 1 .. Len(NotifyList) :
       /\ NotifyList[p].handle = hlink
       /\ (hpc = "visit" /\ p <= i) \/ (hpc # "visit" /\ p < i)

(* The calls that are still due to node i.                                 *)
Due(i) ==
  Cardinality(Matching(EfiKeyQueueForNotify, NotifyList[i].data)) + (IF Ahead(i) THEN 1 ELSE 0)

OwedOK ==
  /\ GoodRing(EfiKeyQueueForNotify)
  /\ owed \in [Handles -> Nat]
  /\ allocated <= MaxHandles
  /\ \A i \in 1 .. Len(NotifyList) : NotifyList[i].handle >= 1
  /\ hpc = "visit" => Alive(hlink)
  /\ \A i \in 1 .. Len(NotifyList) : Due(i) <= owed[NotifyList[i].handle]

(* The types of what is counted.                                           *)
LEMMA OwedTypes ==
  ASSUME ListOK, OwedOK
  PROVE  /\ Len(NotifyList) \in Nat /\ allocated \in Nat /\ MaxHandles \in Nat
         /\ \A i \in 1 .. Len(NotifyList) :
              /\ NotifyList[i] \in Nodes
              /\ NotifyList[i].handle \in Handles /\ NotifyList[i].handle <= allocated
              /\ owed[NotifyList[i].handle] \in Nat
              /\ Cardinality(Matching(EfiKeyQueueForNotify, NotifyList[i].data)) \in Nat
<1>1. Len(NotifyList) \in Nat /\ allocated \in Nat /\ MaxHandles \in Nat
  BY LenProperties, ConsoleAssumption DEF ListOK
<1>2. ASSUME NEW i \in 1 .. Len(NotifyList)
      PROVE  /\ NotifyList[i] \in Nodes
             /\ NotifyList[i].handle \in Handles /\ NotifyList[i].handle <= allocated
             /\ owed[NotifyList[i].handle] \in Nat
             /\ Cardinality(Matching(EfiKeyQueueForNotify, NotifyList[i].data)) \in Nat
  <2>1. NotifyList[i] \in Nodes
    BY <1>2, ElementOfSeq DEF ListOK
  <2>2. NotifyList[i].handle \in Nat
    BY <2>1 DEF Nodes
  <2>3. NotifyList[i].handle <= allocated /\ NotifyList[i].handle >= 1 /\ allocated <= MaxHandles
    BY <1>2 DEF ListOK, OwedOK
  <2>4. NotifyList[i].handle \in Handles
    BY <1>1, <2>2, <2>3 DEF Handles
  <2>5. owed[NotifyList[i].handle] \in Nat
    BY <2>4 DEF OwedOK
  <2>6. QED
    BY <2>1, <2>3, <2>4, <2>5, MatchingType DEF OwedOK
<1>3. QED
  BY <1>1, <1>2

(* The loop over the list, up to its m-th node.                            *)
Loops(f, m, ring, places, key) ==
  f = [n \in 0 .. m |-> IF n = 0 THEN ring
                        ELSE IF n \in places THEN PushEfikeyBufTail(f[n - 1], key)
                        ELSE f[n - 1]]

(* It comes to an end.                                                     *)
LEMMA LoopExists ==
  ASSUME NEW L \in Nat, NEW ring, NEW places, NEW key
  PROVE  \E f : Loops(f, L, ring, places, key)
<1> DEFINE Endless == {m \in 0 .. L : ~ \E f : Loops(f, m, ring, places, key)}
<1>1. SUFFICES ASSUME Endless # {} PROVE FALSE
  <2>1. L \in 0 .. L
    OBVIOUS
  <2>2. QED
    BY <2>1
<1>2. PICK m \in Endless : \A n \in Endless : m <= n
  <2>1. Endless \in SUBSET Nat
    OBVIOUS
  <2>2. QED
    BY <1>1, <2>1, LeastNumber
<1>3. m \in 0 .. L /\ ~ \E f : Loops(f, m, ring, places, key)
  BY <1>2
<1>4. CASE m = 0
  <2> DEFINE f == [n \in 0 .. 0 |-> ring]
  <2>1. Loops(f, 0, ring, places, key)
    BY DEF Loops
  <2>2. QED
    BY <1>3, <1>4, <2>1
<1>5. CASE m # 0
  <2>1. m - 1 \in 0 .. L /\ ~(m <= m - 1)
    BY <1>3, <1>5
  <2>2. PICK f : Loops(f, m - 1, ring, places, key)
    BY <1>2, <2>1
  <2> DEFINE last == IF m \in places THEN PushEfikeyBufTail(f[m - 1], key) ELSE f[m - 1]
             g    == [n \in 0 .. m |-> IF n = m THEN last ELSE f[n]]
  <2>3. ASSUME NEW n \in 0 .. m
        PROVE  g[n] = IF n = 0 THEN ring
                      ELSE IF n \in places THEN PushEfikeyBufTail(g[n - 1], key)
                      ELSE g[n - 1]
    <3>1. CASE n = 0
      <4>1. 0 \in 0 .. m - 1 /\ 0 # m
        BY <1>3, <1>5
      <4>2. f[0] = ring
        BY <2>2, <4>1 DEF Loops
      <4>3. QED
        BY <3>1, <4>1, <4>2
    <3>2. CASE n # 0 /\ n = m
      <4>1. g[m] = last
        BY <1>3
      <4>2. g[m - 1] = f[m - 1]
        BY <1>3, <1>5
      <4> HIDE DEF g
      <4>3. QED
        BY <3>2, <4>1, <4>2
    <3>3. CASE n # 0 /\ n # m
      <4>1. n \in 0 .. m - 1 /\ n - 1 \in 0 .. m /\ n - 1 # m
        BY <1>3, <3>3
      <4>2. f[n] = IF n = 0 THEN ring
                   ELSE IF n \in places THEN PushEfikeyBufTail(f[n - 1], key)
                   ELSE f[n - 1]
        <5>1. f[n] = [k \in 0 .. m - 1 |-> IF k = 0 THEN ring
                        ELSE IF k \in places THEN PushEfikeyBufTail(f[k - 1], key)
                        ELSE f[k - 1]][n]
          BY <2>2, Zenon DEF Loops
        <5>2. QED
          BY <4>1, <5>1
      <4>3. g[n] = f[n] /\ g[n - 1] = f[n - 1]
        BY <3>3, <4>1
      <4> HIDE DEF g
      <4>4. QED
        BY <3>3, <4>2, <4>3
    <3>4. QED
      BY <3>1, <3>2, <3>3
  <2>4. g = [n \in 0 .. m |-> g[n]]
    OBVIOUS
  <2> HIDE DEF g
  <2>5. Loops(g, m, ring, places, key)
    BY <2>3, <2>4 DEF Loops
  <2>6. QED
    BY <1>3, <2>5
<1>6. QED
  BY <1>4, <1>5

(* The loop queues the key at most once per node that matches.             *)
LEMMA QueuedCopies ==
  ASSUME ListOK, GoodRing(EfiKeyQueueForNotify), NEW key \in KeyData, NEW data
  PROVE  LET before == Cardinality(Matching(EfiKeyQueueForNotify, data))
             after  == Cardinality(Matching(Queued(key), data))
         IN  /\ GoodRing(Queued(key)) /\ Cardinality(Matches(key)) \in Nat
             /\ after <= before + Cardinality(Matches(key))
             /\ ~IsKeyRegistered(data, key) => after <= before
<1> DEFINE L == Len(NotifyList)
           Q == EfiKeyQueueForNotify
           M == Matches(key)
           pushed == CHOOSE f : Loops(f, L, Q, M, key)
           count(ring) == Cardinality(Matching(ring, data))
           met(n) == M \cap (1 .. n)
           Fine(n) == /\ GoodRing(pushed[n])
                      /\ count(pushed[n]) <= count(Q) + Cardinality(met(n))
                      /\ ~IsKeyRegistered(data, key) => count(pushed[n]) <= count(Q)
<1>1. L \in Nat /\ M \subseteq 1 .. L
  BY LenProperties DEF ListOK, Matches
<1>2. Queued(key) = pushed[L]
  BY DEF Queued, Loops
<1>3. Loops(pushed, L, Q, M, key)
  <2> HIDE DEF Q, M, L
  <2>1. \E f : Loops(f, L, Q, M, key)
    BY <1>1, LoopExists
  <2>2. QED
    BY <2>1, Zenon
<1> HIDE DEF L, M, pushed
<1>4. \A n \in 0 .. L : pushed[n] = IF n = 0 THEN Q
                          ELSE IF n \in M THEN PushEfikeyBufTail(pushed[n - 1], key)
                          ELSE pushed[n - 1]
  <2> TAKE n \in 0 .. L
  <2>1. pushed[n] = [k \in 0 .. L |-> IF k = 0 THEN Q
                       ELSE IF k \in M THEN PushEfikeyBufTail(pushed[k - 1], key)
                       ELSE pushed[k - 1]][n]
    BY <1>3, Zenon DEF Loops
  <2>2. QED
    BY <2>1
<1>5. count(Q) \in Nat
  BY MatchingType
<1>6. ASSUME NEW n \in Nat PROVE IsFiniteSet(met(n)) /\ Cardinality(met(n)) \in Nat
  <2>1. IsFiniteSet(1 .. n)
    <3>1. 1 \in Int /\ n \in Int
      OBVIOUS
    <3>2. QED
      BY <3>1, FS_Interval
  <2>2. met(n) \in SUBSET (1 .. n)
    OBVIOUS
  <2> HIDE DEF met
  <2>3. IsFiniteSet(met(n))
    BY <2>1, <2>2, FS_Subset
  <2>4. QED
    BY <2>3, FS_CardinalityType
<1>7. ASSUME NEW n \in 1 .. L, Fine(n - 1) PROVE Fine(n)
  <2>1. n - 1 \in 0 .. L /\ n - 1 \in Nat /\ n \in 0 .. L /\ n # 0
    BY <1>1
  <2>2. Cardinality(met(n - 1)) \in Nat /\ IsFiniteSet(met(n - 1))
    BY <1>6, <2>1
  <2>3. count(pushed[n - 1]) \in Nat
    BY <1>7, MatchingType
  <2>4. CASE n \in M
    <3>1. pushed[n] = PushEfikeyBufTail(pushed[n - 1], key)
      BY <1>4, <2>1, <2>4
    <3>2. GoodRing(pushed[n])
      BY <1>7, <3>1, PushLemma
    <3>3. /\ count(pushed[n]) <= count(pushed[n - 1]) + 1
          /\ ~IsKeyRegistered(data, key) => count(pushed[n]) <= count(pushed[n - 1])
      BY <1>7, <3>1, PushedMatch
    <3>4. met(n) = met(n - 1) \cup {n} /\ n \notin met(n - 1)
      BY <2>1, <2>4
    <3>5. Cardinality(met(n)) = Cardinality(met(n - 1)) + 1
      <4> HIDE DEF met
      <4>1. QED
        BY <2>2, <3>4, FS_AddElement
    <3>6. count(pushed[n]) \in Nat
      BY <3>2, MatchingType
    <3>7. /\ count(pushed[n - 1]) <= count(Q) + Cardinality(met(n - 1))
          /\ ~IsKeyRegistered(data, key) => count(pushed[n - 1]) <= count(Q)
      BY <1>7
    <3> HIDE DEF count, met
    <3>8. QED
      BY <1>5, <2>2, <2>3, <3>2, <3>3, <3>5, <3>6, <3>7
  <2>5. CASE n \notin M
    <3>1. pushed[n] = pushed[n - 1]
      BY <1>4, <2>1, <2>5
    <3>2. met(n) = met(n - 1)
      BY <2>1, <2>5
    <3> HIDE DEF count, met
    <3>3. QED
      BY <1>7, <3>1, <3>2
  <2>6. QED
    BY <2>4, <2>5
<1>8. Fine(0)
  <2>1. pushed[0] = Q
    BY <1>1, <1>4
  <2>2. Cardinality(met(0)) \in Nat
    BY <1>6
  <2> HIDE DEF count, met
  <2>3. count(Q) <= count(Q) + Cardinality(met(0)) /\ count(Q) <= count(Q)
    BY <1>5, <2>2
  <2>4. QED
    BY <2>1, <2>3
<1> HIDE DEF Fine
<1>9. Fine(L)
  <2> DEFINE Bad == {n \in 0 .. L : ~Fine(n)}
  <2>1. SUFFICES ASSUME Bad # {} PROVE FALSE
    BY <1>1
  <2>2. PICK m \in Bad : \A n \in Bad : m <= n
    <3>1. Bad \in SUBSET Nat
      BY <1>1
    <3>2. QED
      BY <2>1, <3>1, LeastNumber
  <2>3. m \in 0 .. L /\ ~Fine(m) /\ m # 0
    BY <1>8, <2>2
  <2>4. m \in 1 .. L /\ m - 1 \in 0 .. L /\ ~(m <= m - 1)
    BY <1>1, <2>3
  <2>5. Fine(m - 1)
    BY <2>2, <2>4
  <2>6. QED
    BY <1>7, <2>3, <2>4, <2>5
<1>10. met(L) = M
  BY <1>1
<1>11. Cardinality(M) \in Nat
  BY <1>1, <1>6, <1>10
<1>12. QED
  <2>1. /\ GoodRing(pushed[L])
        /\ count(pushed[L]) <= count(Q) + Cardinality(met(L))
        /\ ~IsKeyRegistered(data, key) => count(pushed[L]) <= count(Q)
    BY <1>9 DEF Fine
  <2>2. QED
    BY <1>2, <1>10, <1>11, <2>1 DEF M

(* The steps that leave handler and list alone: each node must be owed for *)
(* what the queue has gained.                                              *)
LEMMA OwedKept ==
  ASSUME ListOK, OwedOK, UNCHANGED <<NotifyList, allocated, handler>>,
         GoodRing(EfiKeyQueueForNotify'), owed' \in [Handles -> Nat],
         \A i \in 1 .. Len(NotifyList) :
           /\ Cardinality(Matching(EfiKeyQueueForNotify', NotifyList[i].data)) \in Nat
           /\ Cardinality(Matching(EfiKeyQueueForNotify', NotifyList[i].data)) + owed[NotifyList[i].handle]
                <= Cardinality(Matching(EfiKeyQueueForNotify, NotifyList[i].data)) + owed'[NotifyList[i].handle]
  PROVE  OwedOK'
<1>1. NotifyList' = NotifyList /\ allocated' = allocated /\ hpc' = hpc /\ hkey' = hkey /\ hlink' = hlink
  BY DEF handler
<1>2. ASSUME NEW i \in 1 .. Len(NotifyList')
      PROVE  Due(i)' <= owed'[NotifyList'[i].handle]
  <2>1. i \in 1 .. Len(NotifyList) /\ NotifyList'[i] = NotifyList[i]
    BY <1>1
  <2>2. Ahead(i)' <=> Ahead(i)
    BY <1>1 DEF Ahead
  <2>3. Due(i) <= owed[NotifyList[i].handle]
    BY <2>1 DEF OwedOK
  <2> DEFINE before == Cardinality(Matching(EfiKeyQueueForNotify, NotifyList[i].data))
             after  == Cardinality(Matching(EfiKeyQueueForNotify', NotifyList[i].data))
             h      == NotifyList[i].handle
             turn   == IF Ahead(i) THEN 1 ELSE 0
  <2>4. Due(i) = before + turn /\ Due(i)' = after + turn
    BY <1>1, <2>2 DEF Due
  <2>5. /\ before \in Nat /\ after \in Nat /\ owed[h] \in Nat /\ h \in Handles
        /\ after + owed[h] <= before + owed'[h]
    BY <2>1, OwedTypes
  <2>6. owed'[h] \in Nat /\ turn \in Nat
    BY <2>5
  <2>7. NotifyList'[i].handle = h
    BY <2>1
  <2> HIDE DEF before, after, h, turn
  <2>8. before + turn <= owed[h]
    BY <2>3, <2>4 DEF h
  <2>9. after + turn <= owed'[h]
    BY <2>5, <2>6, <2>8
  <2>10. QED
    BY <2>4, <2>7, <2>9
<1>3. hpc' = "visit" => Alive(hlink)'
  BY <1>1 DEF OwedOK, Alive
<1>4. \A i \in 1 .. Len(NotifyList') : NotifyList'[i].handle >= 1
  BY <1>1 DEF OwedOK
<1>5. allocated' <= MaxHandles
  BY <1>1 DEF OwedOK
<1>6. QED
  BY <1>2, <1>3, <1>4, <1>5 DEF OwedOK

LEMMA OwedUntouched ==
  ASSUME ListOK, OwedOK, UNCHANGED <<EfiKeyQueueForNotify, NotifyList, allocated, handler, owed>>
  PROVE  OwedOK'
<1>1. \A i \in 1 .. Len(NotifyList) :
           /\ Cardinality(Matching(EfiKeyQueueForNotify', NotifyList[i].data)) \in Nat
           /\ Cardinality(Matching(EfiKeyQueueForNotify', NotifyList[i].data)) + owed[NotifyList[i].handle]
                <= Cardinality(Matching(EfiKeyQueueForNotify, NotifyList[i].data)) + owed'[NotifyList[i].handle]
  BY OwedTypes
<1>2. GoodRing(EfiKeyQueueForNotify') /\ owed' \in [Handles -> Nat]
  BY DEF OwedOK
<1>3. QED
  BY <1>1, <1>2, OwedKept

(* A key typed is owed, once per copy, to each node registered for it.     *)
LEMMA OwedTyped ==
  ASSUME ListOK, OwedOK, NEW key \in Typed, TimerHandler(key),
         UNCHANGED <<list, handler>>
  PROVE  OwedOK'
<1>1. UNCHANGED <<NotifyList, allocated, handler>>
  BY DEF list
<1>2. CASE ~Taken(key)
  BY <1>1, <1>2, OwedUntouched DEF TimerHandler, counts
<1>3. CASE Taken(key)
  <2> DEFINE copies == Cardinality(Matches(key))
  <2>1. key \in KeyData /\ NotifyPushes(key)
    BY <1>3, ConsoleAssumption DEF Taken, Typed, TimerHandler
  <2>2. EfiKeyQueueForNotify' = Queued(key)
    BY <2>1 DEF NotifyPushes
  <2>3. copies \in Nat /\ GoodRing(EfiKeyQueueForNotify')
    BY <2>1, <2>2, QueuedCopies DEF OwedOK
  <2>4. owed' = [h \in Handles |->
                   IF \E i \in Matches(key) : NotifyList[i].handle = h THEN owed[h] + copies ELSE owed[h]]
    BY <2>1 DEF NotifyPushes
  <2> HIDE DEF copies
  <2>5. owed' \in [Handles -> Nat]
    BY <2>3, <2>4 DEF OwedOK
  <2>6. ASSUME NEW i \in 1 .. Len(NotifyList)
        PROVE  /\ Cardinality(Matching(EfiKeyQueueForNotify', NotifyList[i].data)) \in Nat
               /\ Cardinality(Matching(EfiKeyQueueForNotify', NotifyList[i].data)) + owed[NotifyList[i].handle]
                    <= Cardinality(Matching(EfiKeyQueueForNotify, NotifyList[i].data)) + owed'[NotifyList[i].handle]
    <3> DEFINE before == Cardinality(Matching(EfiKeyQueueForNotify, NotifyList[i].data))
               after  == Cardinality(Matching(EfiKeyQueueForNotify', NotifyList[i].data))
               h      == NotifyList[i].handle
    <3>1. before \in Nat /\ h \in Handles /\ owed[h] \in Nat
      BY OwedTypes
    <3>2. after \in Nat
      BY <2>3, MatchingType
    <3>3. /\ after <= before + copies
          /\ ~IsKeyRegistered(NotifyList[i].data, key) => after <= before
      BY <2>1, <2>2, QueuedCopies DEF OwedOK, copies
    <3>4. IsKeyRegistered(NotifyList[i].data, key) => owed'[h] = owed[h] + copies
      <4>1. IsKeyRegistered(NotifyList[i].data, key) => i \in Matches(key)
        BY DEF Matches
      <4>2. QED
        BY <2>4, <3>1, <4>1
    <3>5. owed'[h] = owed[h] \/ owed'[h] = owed[h] + copies
      BY <2>4, <3>1
    <3> HIDE DEF before, after, h
    <3>6. after + owed[h] <= before + owed'[h]
      BY <2>3, <3>1, <3>2, <3>3, <3>4, <3>5
    <3>7. QED
      BY <3>2, <3>6 DEF before, after, h
  <2>7. QED
    BY <1>1, <2>3, <2>5, <2>6, OwedKept
<1>4. QED
  BY <1>2, <1>3

(* A reset takes all keys out of the queue.                                *)
LEMMA OwedReset ==
  ASSUME ListOK, OwedOK, Reset
  PROVE  OwedOK'
<1>1. GoodRing(EfiKeyQueueForNotify') /\ Contents(EfiKeyQueueForNotify') = <<>>
  BY ClearLemma DEF Reset, OwedOK
<1>2. Count(EfiKeyQueueForNotify') = 0
  <2>1. Len(Contents(EfiKeyQueueForNotify')) = Count(EfiKeyQueueForNotify')
    BY <1>1, ContentsType
  <2>2. QED
    BY <1>1, <2>1
<1>3. \A data : Cardinality(Matching(EfiKeyQueueForNotify', data)) = 0
  <2>1. \A data : Matching(EfiKeyQueueForNotify', data) = {}
    BY <1>2 DEF Matching
  <2>2. QED
    BY <2>1, FS_EmptySet
<1>4. UNCHANGED <<NotifyList, allocated, handler>> /\ owed' = owed
  BY DEF Reset, list
<1>5. owed' \in [Handles -> Nat]
  BY <1>4 DEF OwedOK
<1>6. ASSUME NEW i \in 1 .. Len(NotifyList)
      PROVE  /\ Cardinality(Matching(EfiKeyQueueForNotify', NotifyList[i].data)) \in Nat
             /\ Cardinality(Matching(EfiKeyQueueForNotify', NotifyList[i].data)) + owed[NotifyList[i].handle]
                  <= Cardinality(Matching(EfiKeyQueueForNotify, NotifyList[i].data)) + owed'[NotifyList[i].handle]
  <2>1. Cardinality(Matching(EfiKeyQueueForNotify', NotifyList[i].data)) = 0
    BY <1>3
  <2>2. /\ Cardinality(Matching(EfiKeyQueueForNotify, NotifyList[i].data)) \in Nat
        /\ owed[NotifyList[i].handle] \in Nat
    BY OwedTypes
  <2>3. QED
    BY <1>4, <2>1, <2>2
<1>7. QED
  BY <1>1, <1>4, <1>5, <1>6, OwedKept

(* A new node is owed the keys that are pending; no other shares its       *)
(* handle.                                                                 *)
LEMMA OwedRegistered ==
  ASSUME ListOK, OwedOK, NEW client \in Clients, NEW data \in Registrable, NEW fn \in Fns,
         RegisterKeyNotify(client, data, fn)
  PROVE  OwedOK'
<1>1. EfiKeyQueueForNotify' = EfiKeyQueueForNotify /\ UNCHANGED handler /\ ClientRuns
  BY DEF RegisterKeyNotify, queues
<1>2. CASE UNCHANGED <<NotifyList, allocated, owed>>
  BY <1>1, <1>2, OwedUntouched
<1>3. CASE /\ allocated < MaxHandles /\ allocated' = allocated + 1
           /\ NotifyList' = Append(NotifyList, [handle |-> allocated + 1, data |-> data, fn |-> fn])
           /\ owed' = [owed EXCEPT ![allocated + 1] = Pending(data)]
  <2> DEFINE Q == EfiKeyQueueForNotify
             last == Len(NotifyList) + 1
  <2>1. /\ Len(NotifyList') = last
        /\ NotifyList'[last] = [handle |-> allocated + 1, data |-> data, fn |-> fn]
        /\ \A i \in 1 .. Len(NotifyList) : NotifyList'[i] = NotifyList[i]
    BY <1>3, AppendedNode
  <2>2. Len(NotifyList) \in Nat /\ allocated \in Nat /\ MaxHandles \in Nat
    BY OwedTypes
  <2>3. allocated + 1 \in Handles /\ allocated' <= MaxHandles
    BY <1>3, <2>2 DEF Handles
  <2>4. /\ hpc' = hpc /\ hkey' = hkey /\ hlink' = hlink /\ hpc \in {"idle", "called"}
    BY <1>1 DEF handler, ClientRuns
  <2>5. Cardinality(Matching(Q, data)) \in Nat
    BY MatchingType DEF OwedOK
  <2>6. Pending(data) = Cardinality(Matching(Q, data))
                          + (IF hpc = "called" /\ IsKeyRegistered(data, hkey) THEN 1 ELSE 0)
    BY DEF Pending
  <2>7. Pending(data) \in Nat
    BY <2>5, <2>6
  <2>8. owed' \in [Handles -> Nat] /\ owed'[allocated + 1] = Pending(data)
        /\ \A h \in Handles : h # allocated + 1 => owed'[h] = owed[h]
    BY <1>3, <2>3, <2>7 DEF OwedOK
  <2>9. ASSUME NEW i \in 1 .. Len(NotifyList')
        PROVE  Due(i)' <= owed'[NotifyList'[i].handle] /\ NotifyList'[i].handle >= 1
    <3>1. CASE i = last
      <4>1. NotifyList'[i].data = data /\ NotifyList'[i].handle = allocated + 1
        BY <2>1, <3>1
      <4>2. Ahead(i)' => hpc = "called" /\ IsKeyRegistered(data, hkey)
        BY <2>4, <4>1 DEF Ahead
      <4>3. Due(i)' = Cardinality(Matching(Q, data)) + (IF Ahead(i)' THEN 1 ELSE 0)
        BY <1>1, <4>1 DEF Due
      <4>4. Due(i)' <= Pending(data)
        BY <2>5, <2>6, <4>2, <4>3
      <4>5. QED
        BY <2>2, <2>8, <4>1, <4>4
    <3>2. CASE i # last
      <4>1. i \in 1 .. Len(NotifyList) /\ NotifyList'[i] = NotifyList[i]
        BY <2>1, <2>2, <3>2
      <4>2. Ahead(i)' => Ahead(i)
        <5>1. SUFFICES ASSUME Ahead(i)' PROVE Ahead(i)
          OBVIOUS
        <5>2. PICK p \in 1 .. Len(NotifyList') :
                NotifyList'[p].handle = hlink /\ ((hpc = "visit" /\ p <= i) \/ (hpc # "visit" /\ p < i))
          BY <2>4, <5>1 DEF Ahead
        <5>3. p \in 1 .. Len(NotifyList)
          BY <2>1, <2>2, <4>1, <5>2
        <5>4. NotifyList[p].handle = hlink
          BY <2>1, <5>2, <5>3
        <5>5. hpc \in {"visit", "called", "next"} /\ IsKeyRegistered(NotifyList[i].data, hkey)
          BY <2>4, <4>1, <5>1 DEF Ahead
        <5>6. QED
          BY <5>2, <5>3, <5>4, <5>5 DEF Ahead
      <4>3. /\ NotifyList[i].handle \in Handles /\ NotifyList[i].handle <= allocated
            /\ Cardinality(Matching(Q, NotifyList[i].data)) \in Nat
            /\ owed[NotifyList[i].handle] \in Nat
        BY <4>1, OwedTypes
      <4>4. NotifyList[i].handle # allocated + 1
        BY <2>2, <4>3
      <4>5. owed'[NotifyList'[i].handle] = owed[NotifyList[i].handle]
        BY <2>8, <4>1, <4>3, <4>4
      <4>6. /\ Due(i) = Cardinality(Matching(Q, NotifyList[i].data)) + (IF Ahead(i) THEN 1 ELSE 0)
            /\ Due(i)' = Cardinality(Matching(Q, NotifyList[i].data)) + (IF Ahead(i)' THEN 1 ELSE 0)
        BY <1>1, <4>1 DEF Due
      <4>7. Due(i)' <= Due(i)
        BY <4>2, <4>3, <4>6
      <4>8. Due(i) <= owed[NotifyList[i].handle] /\ NotifyList[i].handle >= 1
        BY <4>1 DEF OwedOK
      <4>9. Due(i) \in Nat /\ Due(i)' \in Nat
        BY <4>3, <4>6
      <4>10. QED
        BY <4>1, <4>3, <4>5, <4>7, <4>8, <4>9
    <3>3. QED
      BY <3>1, <3>2
  <2>10. hpc' = "visit" => Alive(hlink)'
    BY <2>4
  <2>11. GoodRing(EfiKeyQueueForNotify')
    BY <1>1 DEF OwedOK
  <2>12. QED
    BY <2>3, <2>8, <2>9, <2>10, <2>11 DEF OwedOK
<1>4. QED
  BY <1>2, <1>3 DEF RegisterKeyNotify

(* Where the nodes that are left stood before one was taken out.           *)
LEMMA PlacesBefore ==
  ASSUME ListOK, NEW h, RemoveNode(h)
  PROVE  \E place \in [1 .. Len(NotifyList') -> 1 .. Len(NotifyList)] :
           /\ \A j \in 1 .. Len(NotifyList') : NotifyList'[j] = NotifyList[place[j]]
           /\ \A i, j \in 1 .. Len(NotifyList') : i < j => place[i] < place[j]
<1>1. Len(NotifyList) \in Nat
  BY LenProperties DEF ListOK
<1>2. CASE UNCHANGED NotifyList
  <2> DEFINE place == [j \in 1 .. Len(NotifyList) |-> j]
  <2>1. /\ place \in [1 .. Len(NotifyList') -> 1 .. Len(NotifyList)]
        /\ \A j \in 1 .. Len(NotifyList') : NotifyList'[j] = NotifyList[place[j]]
        /\ \A i, j \in 1 .. Len(NotifyList') : i < j => place[i] < place[j]
    BY <1>2
  <2> HIDE DEF place
  <2>2. QED
    BY <2>1
<1>3. ASSUME NEW k \in 1 .. Len(NotifyList), NotifyList' = RemoveAt(NotifyList, k)
      PROVE  \E place \in [1 .. Len(NotifyList') -> 1 .. Len(NotifyList)] :
               /\ \A j \in 1 .. Len(NotifyList') : NotifyList'[j] = NotifyList[place[j]]
               /\ \A i, j \in 1 .. Len(NotifyList') : i < j => place[i] < place[j]
  <2> DEFINE place == [j \in 1 .. Len(NotifyList) - 1 |-> IF j < k THEN j ELSE j + 1]
  <2>1. /\ Len(NotifyList') = Len(NotifyList) - 1
        /\ \A j \in 1 .. Len(NotifyList) - 1 :
             NotifyList'[j] = IF j < k THEN NotifyList[j] ELSE NotifyList[j + 1]
    BY <1>3, RemoveAtLemma DEF ListOK
  <2>2. \A j \in 1 .. Len(NotifyList) - 1 :
          place[j] \in 1 .. Len(NotifyList) /\ NotifyList'[j] = NotifyList[place[j]]
    <3> TAKE j \in 1 .. Len(NotifyList) - 1
    <3>1. CASE j < k
      <4>1. place[j] = j /\ j \in 1 .. Len(NotifyList)
        BY <1>1, <3>1
      <4>2. QED
        BY <2>1, <3>1, <4>1
    <3>2. CASE ~(j < k)
      <4>1. place[j] = j + 1 /\ j + 1 \in 1 .. Len(NotifyList)
        BY <1>1, <3>2
      <4>2. QED
        BY <2>1, <3>2, <4>1
    <3>3. QED
      BY <3>1, <3>2
  <2>3. \A i, j \in 1 .. Len(NotifyList) - 1 : i < j => place[i] < place[j]
    BY <1>1, <1>3
  <2>4. place \in [1 .. Len(NotifyList) - 1 -> 1 .. Len(NotifyList)]
    BY <2>2
  <2> HIDE DEF place
  <2>5. QED
    BY <2>1, <2>2, <2>3, <2>4
<1>4. QED
  BY <1>2, <1>3 DEF RemoveNode

(* A node that is left stands behind the handler's if it did before.       *)
LEMMA OwedUnregistered ==
  ASSUME ListOK, OwedOK, NEW claim \in claims, UnregisterKeyNotify(claim)
  PROVE  OwedOK'
<1>1. /\ EfiKeyQueueForNotify' = EfiKeyQueueForNotify /\ owed' = owed /\ allocated' = allocated
      /\ hpc' = hpc /\ hkey' = hkey /\ hlink' = hlink /\ hpc \in {"idle", "called"}
      /\ RemoveNode(claim.handle)
  BY DEF UnregisterKeyNotify, ClientRuns, queues, handler, counts
<1>2. PICK place \in [1 .. Len(NotifyList') -> 1 .. Len(NotifyList)] :
        /\ \A j \in 1 .. Len(NotifyList') : NotifyList'[j] = NotifyList[place[j]]
        /\ \A i, j \in 1 .. Len(NotifyList') : i < j => place[i] < place[j]
  BY <1>1, PlacesBefore
<1>3. ASSUME NEW j \in 1 .. Len(NotifyList')
      PROVE  Due(j)' <= owed'[NotifyList'[j].handle] /\ NotifyList'[j].handle >= 1
  <2>1. place[j] \in 1 .. Len(NotifyList) /\ NotifyList'[j] = NotifyList[place[j]]
    BY <1>2
  <2>2. Ahead(j)' => Ahead(place[j])
    <3>1. SUFFICES ASSUME Ahead(j)' PROVE Ahead(place[j])
      OBVIOUS
    <3>2. PICK p \in 1 .. Len(NotifyList') : NotifyList'[p].handle = hlink /\ p < j
      BY <1>1, <3>1 DEF Ahead
    <3>3. place[p] \in 1 .. Len(NotifyList) /\ NotifyList[place[p]].handle = hlink /\ place[p] < place[j]
      BY <1>2, <3>2
    <3>4. hpc = "called" /\ IsKeyRegistered(NotifyList[place[j]].data, hkey)
      BY <1>1, <2>1, <3>1 DEF Ahead
    <3>5. QED
      BY <3>3, <3>4 DEF Ahead
  <2>3. /\ Cardinality(Matching(EfiKeyQueueForNotify, NotifyList[place[j]].data)) \in Nat
        /\ owed[NotifyList[place[j]].handle] \in Nat
    BY <2>1, OwedTypes
  <2>4. Due(place[j]) <= owed[NotifyList[place[j]].handle] /\ NotifyList[place[j]].handle >= 1
    BY <2>1 DEF OwedOK
  <2>5. /\ Due(place[j]) = Cardinality(Matching(EfiKeyQueueForNotify, NotifyList[place[j]].data))
                             + (IF Ahead(place[j]) THEN 1 ELSE 0)
        /\ Due(j)' = Cardinality(Matching(EfiKeyQueueForNotify, NotifyList[place[j]].data))
                             + (IF Ahead(j)' THEN 1 ELSE 0)
    BY <1>1, <2>1 DEF Due
  <2>6. Due(j)' <= owed[NotifyList[place[j]].handle]
    BY <2>2, <2>3, <2>4, <2>5
  <2>7. QED
    BY <1>1, <2>1, <2>4, <2>6
<1>4. hpc' = "visit" => Alive(hlink)'
  BY <1>1
<1>5. GoodRing(EfiKeyQueueForNotify') /\ owed' \in [Handles -> Nat] /\ allocated' <= MaxHandles
  BY <1>1 DEF OwedOK
<1>6. QED
  BY <1>3, <1>4, <1>5 DEF OwedOK

(* The handler takes the next key: what was due for it in the queue is due *)
(* on the walk.                                                            *)
LEMMA OwedPopped ==
  ASSUME ListOK, OwedOK, NotifyPop
  PROVE  OwedOK'
<1> DEFINE Q == EfiKeyQueueForNotify
<1>1. /\ NotifyList' = NotifyList /\ allocated' = allocated /\ owed' = owed
      /\ Q' = PopEfikeyBufHead(Q) /\ hpc = "pop"
  BY DEF NotifyPop, list, counts
<1>2. GoodRing(Q') /\ GoodRing(Q)
  BY <1>1, PoppedKeys DEF OwedOK
<1>3. ASSUME NEW i \in 1 .. Len(NotifyList)
      PROVE  Due(i)' <= owed[NotifyList[i].handle]
  <2> DEFINE before == Cardinality(Matching(Q, NotifyList[i].data))
             after  == Cardinality(Matching(Q', NotifyList[i].data))
  <2>1. before \in Nat /\ after \in Nat /\ owed[NotifyList[i].handle] \in Nat
    BY <1>2, MatchingType, OwedTypes
  <2>2. Due(i)' = after + (IF Ahead(i)' THEN 1 ELSE 0)
    BY <1>1 DEF Due
  <2>3. before <= owed[NotifyList[i].handle]
    <3>1. ~Ahead(i)
      BY <1>1 DEF Ahead
    <3>2. Due(i) = before
      BY <2>1, <3>1 DEF Due
    <3>3. Due(i) <= owed[NotifyList[i].handle]
      BY DEF OwedOK
    <3>4. QED
      BY <3>2, <3>3
  <2>4. CASE IsEfikeyBufEmpty(Q)
    <3>1. hpc' = "idle" /\ Q' = Q
      BY <1>1, <2>4 DEF NotifyPop, PopEfikeyBufHead
    <3>2. ~Ahead(i)'
      BY <3>1 DEF Ahead
    <3>3. after = before
      BY <3>1
    <3> HIDE DEF before, after
    <3>4. QED
      BY <2>1, <2>2, <2>3, <3>2, <3>3
  <2>5. CASE ~IsEfikeyBufEmpty(Q)
    <3>1. hkey' = HeadKey(Q)
      BY <2>5 DEF NotifyPop
    <3>2. Ahead(i)' => IsKeyRegistered(NotifyList[i].data, HeadKey(Q))
      BY <1>1, <3>1 DEF Ahead
    <3>3. /\ after <= before
          /\ IsKeyRegistered(NotifyList[i].data, HeadKey(Q)) => after + 1 <= before
      BY <1>1, <1>2, <2>5, PoppedMatch
    <3> HIDE DEF before, after, Q
    <3>4. QED
      BY <2>1, <2>2, <2>3, <3>2, <3>3
  <2>6. QED
    BY <2>4, <2>5
<1>4. hpc' = "visit" => Alive(hlink)'
  <2>1. hpc' = "visit" => hlink' = FirstNode /\ FirstNode # 0
    BY <1>1 DEF NotifyPop
  <2>2. FirstNode # 0 => Alive(FirstNode)
    BY EmptySeq DEF FirstNode, Alive, ListOK
  <2>3. QED
    BY <1>1, <2>1, <2>2 DEF Alive
<1>5. QED
  BY <1>1, <1>2, <1>3, <1>4 DEF OwedOK

(* The node the handler stands at, and the one after it.                   *)
LEMMA WalkPlaces ==
  ASSUME ListOK, NEW p \in 1 .. Len(NotifyList)
  PROVE  LET h == NotifyList[p].handle
         IN  /\ NodeOf(h) = NotifyList[p]
             /\ NextNode(h) = IF p = Len(NotifyList) THEN 0 ELSE NotifyList[p + 1].handle
             /\ \A q \in 1 .. Len(NotifyList) : NotifyList[q].handle = h => q = p
<1> DEFINE h == NotifyList[p].handle
           i == CHOOSE j \in 1 .. Len(NotifyList) : NotifyList[j].handle = h
<1>1. \A q \in 1 .. Len(NotifyList) : NotifyList[q].handle = h => q = p
  BY DEF ListOK
<1>2. i = p
  BY <1>1
<1>3. NodeOf(h) = NotifyList[i] /\ NextNode(h) = IF i = Len(NotifyList) THEN 0 ELSE NotifyList[i + 1].handle
  BY DEF NodeOf, NextNode
<1>4. QED
  BY <1>1, <1>2, <1>3

(* A call is a call less due, and a call less owed, to the same node.      *)
LEMMA OwedVisited ==
  ASSUME ListOK, OwedOK, NotifyVisit
  PROVE  OwedOK'
<1> DEFINE Q == EfiKeyQueueForNotify
<1>1. /\ NotifyList' = NotifyList /\ allocated' = allocated /\ Q' = Q
      /\ hkey' = hkey /\ hlink' = hlink /\ hpc = "visit" /\ hpc' \in {"called", "next"}
  BY DEF NotifyVisit, list, queues
<1>2. PICK p \in 1 .. Len(NotifyList) : NotifyList[p].handle = hlink
  BY <1>1 DEF OwedOK, Alive
<1>3. /\ NodeOf(hlink) = NotifyList[p]
      /\ \A q \in 1 .. Len(NotifyList) : NotifyList[q].handle = hlink => q = p
  BY <1>2, WalkPlaces
<1>4. \A i \in 1 .. Len(NotifyList) : Ahead(i)' => Ahead(i) /\ i # p
  <2> TAKE i \in 1 .. Len(NotifyList)
  <2>1. SUFFICES ASSUME Ahead(i)' PROVE Ahead(i) /\ i # p
    OBVIOUS
  <2>2. PICK q \in 1 .. Len(NotifyList) : NotifyList[q].handle = hlink /\ q < i
    BY <1>1, <2>1 DEF Ahead
  <2>3. q = p /\ p <= i /\ i # p
    BY <1>3, <2>2
  <2>4. IsKeyRegistered(NotifyList[i].data, hkey)
    BY <1>1, <2>1 DEF Ahead
  <2>5. QED
    BY <1>1, <1>2, <2>3, <2>4 DEF Ahead
<1>5. \A i \in 1 .. Len(NotifyList) :
        /\ Due(i) = Cardinality(Matching(Q, NotifyList[i].data)) + (IF Ahead(i) THEN 1 ELSE 0)
        /\ Due(i)' = Cardinality(Matching(Q, NotifyList[i].data)) + (IF Ahead(i)' THEN 1 ELSE 0)
        /\ Cardinality(Matching(Q, NotifyList[i].data)) \in Nat
        /\ Due(i) <= owed[NotifyList[i].handle]
        /\ owed[NotifyList[i].handle] \in Nat /\ NotifyList[i].handle \in Handles
  BY <1>1, OwedTypes DEF Due, OwedOK
<1>6. /\ owed' \in [Handles -> Nat]
      /\ \A i \in 1 .. Len(NotifyList) : Due(i)' <= owed'[NotifyList[i].handle]
  <2>1. CASE ~IsKeyRegistered(NodeOf(hlink).data, hkey)
    <3>1. owed' = owed
      BY <2>1 DEF NotifyVisit
    <3>2. \A i \in 1 .. Len(NotifyList) : Due(i)' <= owed[NotifyList[i].handle]
      <4> TAKE i \in 1 .. Len(NotifyList)
      <4>1. Ahead(i)' => Ahead(i)
        BY <1>4
      <4>2. /\ Due(i) = Cardinality(Matching(Q, NotifyList[i].data)) + (IF Ahead(i) THEN 1 ELSE 0)
            /\ Due(i)' = Cardinality(Matching(Q, NotifyList[i].data)) + (IF Ahead(i)' THEN 1 ELSE 0)
            /\ Cardinality(Matching(Q, NotifyList[i].data)) \in Nat
            /\ Due(i) <= owed[NotifyList[i].handle] /\ owed[NotifyList[i].handle] \in Nat
        BY <1>5
      <4>3. QED
        BY <4>1, <4>2
    <3>3. QED
      BY <3>1, <3>2 DEF OwedOK
  <2>2. CASE IsKeyRegistered(NodeOf(hlink).data, hkey)
    <3>1. owed' = [owed EXCEPT ![hlink] = @ - 1]
      BY <2>2 DEF NotifyVisit
    <3>2. p <= p /\ p \in Int
      OBVIOUS
    <3>3. Ahead(p)
      BY <1>1, <1>2, <1>3, <2>2, <3>2 DEF Ahead
    <3>4. owed[hlink] \in Nat /\ owed[hlink] >= 1 /\ hlink \in Handles
      BY <1>2, <1>5, <3>3
    <3>5. owed[hlink] - 1 \in Nat
      BY <3>4
    <3>6. owed' \in [Handles -> Nat]
      BY <3>1, <3>5 DEF OwedOK
    <3>7. ASSUME NEW i \in 1 .. Len(NotifyList) PROVE Due(i)' <= owed'[NotifyList[i].handle]
      <4>1. CASE i = p
        <5>1. owed'[NotifyList[i].handle] = owed[NotifyList[i].handle] - 1
          BY <1>2, <3>1, <3>4, <4>1 DEF OwedOK
        <5>2. Due(i)' = Due(i) - 1
          BY <1>4, <1>5, <3>3, <4>1
        <5>3. Due(i) \in Nat
          BY <1>5
        <5>4. QED
          BY <1>5, <5>1, <5>2, <5>3
      <4>2. CASE i # p
        <5>1. NotifyList[i].handle # hlink
          BY <1>3, <4>2
        <5>2. owed'[NotifyList[i].handle] = owed[NotifyList[i].handle]
          BY <1>5, <3>1, <5>1 DEF OwedOK
        <5>3. Due(i)' <= Due(i)
          BY <1>4, <1>5
        <5>4. Due(i) \in Nat /\ Due(i)' \in Nat
          BY <1>5
        <5>5. QED
          BY <1>5, <5>2, <5>3, <5>4
      <4>3. QED
        BY <4>1, <4>2
    <3>8. QED
      BY <3>6, <3>7
  <2>3. QED
    BY <2>1, <2>2
<1>7. hpc' # "visit"
  BY <1>1
<1>8. GoodRing(Q')
  BY <1>1 DEF OwedOK
<1>9. QED
  BY <1>1, <1>6, <1>7, <1>8 DEF OwedOK

(* Behind a node is what is at or behind the next one.                     *)
LEMMA OwedNext ==
  ASSUME ListOK, OwedOK, NotifyNext
  PROVE  OwedOK'
<1> DEFINE Q == EfiKeyQueueForNotify
<1>1. /\ NotifyList' = NotifyList /\ allocated' = allocated /\ Q' = Q /\ owed' = owed
      /\ hkey' = hkey /\ hpc \in {"called", "next"} /\ hlink' = NextNode(hlink)
      /\ hpc' = IF NextNode(hlink) = 0 THEN "pop" ELSE "visit"
  BY DEF NotifyNext, list, queues, counts
<1>2. PICK p \in 1 .. Len(NotifyList) : NotifyList[p].handle = hlink
  BY DEF NotifyNext, Alive
<1>3. NextNode(hlink) = IF p = Len(NotifyList) THEN 0 ELSE NotifyList[p + 1].handle
  BY <1>2, WalkPlaces
<1>4. Len(NotifyList) \in Nat
  BY OwedTypes
<1>5. hpc' = "visit" => p + 1 \in 1 .. Len(NotifyList) /\ hlink' = NotifyList[p + 1].handle
  BY <1>1, <1>3, <1>4
<1>6. ASSUME NEW i \in 1 .. Len(NotifyList), Ahead(i)' PROVE Ahead(i)
  <2>1. hpc' = "visit"
    BY <1>1, <1>6 DEF Ahead
  <2>2. PICK q \in 1 .. Len(NotifyList) : NotifyList[q].handle = hlink' /\ q <= i
    BY <1>1, <1>6, <2>1 DEF Ahead
  <2>3. q = p + 1
    BY <1>5, <2>1, <2>2, WalkPlaces
  <2>4. p < i
    BY <2>2, <2>3
  <2>5. IsKeyRegistered(NotifyList[i].data, hkey)
    BY <1>1, <1>6 DEF Ahead
  <2>6. QED
    BY <1>1, <1>2, <2>4, <2>5 DEF Ahead
<1>7. ASSUME NEW i \in 1 .. Len(NotifyList) PROVE Due(i)' <= owed[NotifyList[i].handle]
  <2>1. /\ Due(i) = Cardinality(Matching(Q, NotifyList[i].data)) + (IF Ahead(i) THEN 1 ELSE 0)
        /\ Due(i)' = Cardinality(Matching(Q, NotifyList[i].data)) + (IF Ahead(i)' THEN 1 ELSE 0)
        /\ Cardinality(Matching(Q, NotifyList[i].data)) \in Nat
        /\ Due(i) <= owed[NotifyList[i].handle]
        /\ owed[NotifyList[i].handle] \in Nat
    BY <1>1, OwedTypes DEF Due, OwedOK
  <2>2. QED
    BY <1>6, <2>1
<1>8. hpc' = "visit" => Alive(hlink)'
  BY <1>1, <1>5 DEF Alive
<1>9. QED
  BY <1>1, <1>7, <1>8 DEF OwedOK

LEMMA OwedInit == Init => OwedOK
<1> SUFFICES ASSUME Init PROVE OwedOK
  OBVIOUS
<1>1. NotifyList = <<>> /\ Len(NotifyList) = 0
  BY EmptySeq DEF Init
<1>2. allocated = 0 /\ MaxHandles \in Nat /\ owed \in [Handles -> Nat] /\ hpc = "idle"
  BY ConsoleAssumption DEF Init
<1>3. GoodRing(EfiKeyQueueForNotify)
  BY InitialLemma DEF Init
<1>4. QED
  BY <1>1, <1>2, <1>3 DEF OwedOK

LEMMA OwedSteps == ListOK /\ OwedOK /\ [Next]_vars => OwedOK'
<1> SUFFICES ASSUME ListOK, OwedOK, [Next]_vars PROVE OwedOK'
  OBVIOUS
<1>1. CASE TimerEvent \/ ReadKeyStrokeEx \/ ReadKeyStroke \/ WaitForKey
  <2>1. PICK key \in Typed : TimerHandler(key)
    BY <1>1 DEF TimerEvent, ReadKeyStrokeEx, ReadKeyStroke, WaitForKey
  <2>2. UNCHANGED <<list, handler>>
    BY <1>1 DEF TimerEvent, ReadKeyStrokeEx, ReadKeyStroke, WaitForKey
  <2>3. QED
    BY <2>1, <2>2, OwedTyped
<1>2. CASE Reset
  BY <1>2, OwedReset
<1>3. CASE SetState
  BY <1>3, OwedUntouched DEF SetState, queues, list, counts
<1>4. ASSUME NEW client \in Clients, NEW data \in Registrable, NEW fn \in Fns,
         RegisterKeyNotify(client, data, fn) PROVE OwedOK'
  BY <1>4, OwedRegistered
<1>5. ASSUME NEW claim \in claims, UnregisterKeyNotify(claim) PROVE OwedOK'
  BY <1>5, OwedUnregistered
<1>6. CASE NotifyDispatch
  <2>1. /\ UNCHANGED <<EfiKeyQueueForNotify, NotifyList, allocated, owed>>
        /\ hpc = "idle" /\ hpc' = "pop"
    BY <1>6 DEF NotifyDispatch, queues, list, counts
  <2>2. \A i \in 1 .. Len(NotifyList) : ~Ahead(i) /\ ~Ahead(i)'
    BY <2>1 DEF Ahead
  <2>3. \A i \in 1 .. Len(NotifyList) : Due(i)' = Due(i)
    BY <2>1, <2>2 DEF Due
  <2>4. QED
    BY <2>1, <2>3 DEF OwedOK
<1>7. CASE NotifyPop
  BY <1>7, OwedPopped
<1>8. CASE NotifyVisit
  BY <1>8, OwedVisited
<1>9. CASE NotifyNext
  BY <1>9, OwedNext
<1>10. CASE NotifyStray
  <2>1. /\ UNCHANGED <<EfiKeyQueueForNotify, NotifyList, allocated, owed>>
        /\ hpc' = "wild"
    BY <1>10 DEF NotifyStray, queues, list, counts
  <2>2. ASSUME NEW i \in 1 .. Len(NotifyList) PROVE Due(i)' <= owed'[NotifyList'[i].handle]
    <3>1. ~Ahead(i)'
      BY <2>1 DEF Ahead
    <3>2. Cardinality(Matching(EfiKeyQueueForNotify, NotifyList[i].data)) \in Nat
      BY OwedTypes
    <3>3. Due(i)' = Cardinality(Matching(EfiKeyQueueForNotify, NotifyList[i].data))
      BY <2>1, <3>1, <3>2 DEF Due
    <3>4. Due(i) <= owed[NotifyList[i].handle] /\ owed[NotifyList[i].handle] \in Nat
      BY OwedTypes DEF OwedOK
    <3>5. QED
      BY <2>1, <3>2, <3>3, <3>4 DEF Due
  <2>3. QED
    BY <2>1, <2>2 DEF OwedOK
<1>11. CASE UNCHANGED vars
  BY <1>11, OwedUntouched DEF vars, queues, list, counts
<1>12. QED
  BY <1>1, <1>2, <1>3, <1>4, <1>5, <1>6, <1>7, <1>8, <1>9, <1>10, <1>11 DEF Next, Notify

(* A notification function is called at most once for every copy of a key  *)
(* that was pending or queued since it registered - however many nodes the *)
(* key matches, and whatever registers, unregisters, resets or overflows   *)
(* between the push and the call.                                          *)
THEOREM CalledPerCopyHolds == Spec => []CalledPerCopy
<1>1. OwedOK => CalledPerCopy
  BY DEF OwedOK, CalledPerCopy
<1>2. QED
  BY <1>1, ListInit, ListNext, OwedInit, OwedSteps, PTL DEF Spec

-----------------------------------------------------------------------------
(* The key state machines of KeypadKeys.                                   *)

Times == 0 .. TimeCap
Contexts == [State : States, Time : Times, Repeat : BOOLEAN, Longpress : BOOLEAN]

(* The context c of key k, the number n of its reports and the time q      *)
(* since the last one, as they go together.                                *)
KeyOK(k, c, n, q) ==
  /\ c \in Contexts /\ n \in 0 .. 2 /\ q \in Times
  /\ c.State = "RELEASED" => ~c.Longpress
  /\ c.Repeat => c.Longpress /\ k # Power /\ c.Time <= q
  /\ c.State = "LONGPRESS_RELEASE" => n > 0
  /\ k = Power /\ c.State = "PRESSED" => n = IF c.Longpress THEN 1 ELSE 0
  /\ k = Power /\ c.State = "LONGPRESS_RELEASE" => n = 1

KeysOK ==
  /\ context \in [Keys -> Contexts]
  /\ \A k \in Keys : KeyOK(k, context[k], reports[k], quiet[k])

(* A key that came to 500 ms was reported or is part of a combination.     *)
Told(k, c, n, keys) == c.State = "PRESSED" /\ c.Longpress => n > 0 \/ k \in keys
HoldsTold == \A k \in Keys : Told(k, context[k], reports[k], combined)

(* Power is polled before all other keys, as KeyList has it.               *)
PowerFirst == KeyList[1] = Power

LEMMA Bounds ==
  /\ LongTime \in Nat /\ RepeatTime \in Nat /\ ReleaseTime \in Nat /\ TimeCap \in Nat
  /\ Deltas \subseteq Nat
  BY KeysAssumption

(* Time never runs backwards, nor past its cap.                            *)
LEMMA LaterType ==
  ASSUME NEW delta \in Nat
  PROVE  \A t, u \in Times : Later(t, delta) \in Times /\ t <= Later(t, delta)
                             /\ (t <= u => Later(t, delta) <= Later(u, delta))
  BY Bounds DEF Later, Times

LEMMA ReleasedOK == Released \in Contexts /\ 0 \in Times
  BY Bounds DEF Released, Contexts, States, Times

-----------------------------------------------------------------------------
(* What LibKeyUpdateKeyStatus leaves of a context, branch by branch.       *)
Same(c, u) == u.c = c /\ u.out = <<>>
Pressed(c, u) == u.c = [c EXCEPT !.Time = 0, !.State = "PRESSED"] /\ u.out = <<>>
Repeated(k, c, u) == c.Repeat /\ u.c = [c EXCEPT !.Time = 0] /\ u.out = <<k>>
HeldPower(k, c, u) ==
  k = Power /\ u.c = [c EXCEPT !.Longpress = TRUE] /\ \E report : u.out = <<report>>
HeldAlone(k, c, u) ==
  k # Power /\ u.c = [c EXCEPT !.Longpress = TRUE, !.Repeat = TRUE, !.Time = 0] /\ u.out = <<k>>
HeldCombined(k, c, u, pressed) ==
  k # Power /\ Power \in pressed /\ u.c = [c EXCEPT !.Longpress = TRUE] /\ u.out = <<>>
Suppressed(k, c, u) ==
  ~c.Longpress /\ u.c = [c EXCEPT !.State = "LONGPRESS_RELEASE"] /\ u.out = <<k>>
Ended(c, u) == u.c = Released /\ u.out = <<>>

LEMMA UpdateBranches ==
  ASSUME NEW k, NEW c \in Contexts, NEW pressed
  PROVE  LET u == Update(k, c, pressed)
         IN  CASE c.State = "RELEASED" -> Same(c, u) \/ Pressed(c, u)
               [] c.State = "PRESSED" ->
                    \/ Same(c, u)
                    \/ Repeated(k, c, u)
                    \/ ~c.Longpress /\ (HeldPower(k, c, u) \/ HeldAlone(k, c, u) \/ HeldCombined(k, c, u, pressed))
                    \/ Suppressed(k, c, u)
                    \/ c.Longpress /\ Ended(c, u)
               [] c.State = "LONGPRESS_RELEASE" -> Ended(c, u)
<1> DEFINE u == Update(k, c, pressed)
<1>1. c.State \in States
  BY DEF Contexts
<1>2. CASE c.State = "RELEASED"
  <2>1. CASE k \in pressed
    <3>1. u = Nothing([c EXCEPT !.Time = 0, !.State = "PRESSED"])
      BY <1>2, <2>1 DEF Update
    <3>2. QED
      BY <1>2, <3>1 DEF Nothing, Pressed
  <2>2. CASE k \notin pressed
    <3>1. u = Nothing(c)
      BY <1>2, <2>2 DEF Update
    <3>2. QED
      BY <1>2, <3>1 DEF Nothing, Same
  <2>3. QED
    BY <2>1, <2>2
<1>3. CASE c.State = "PRESSED"
  <2>1. CASE k \in pressed
    <3>1. u = IF c.Repeat /\ c.Time >= RepeatTime THEN RepeatReport(k, c)
              ELSE IF ~c.Longpress /\ c.Time >= LongTime THEN Hold(k, c, pressed)
              ELSE Nothing(c)
      BY <1>3, <2>1 DEF Update
    <3>2. CASE c.Repeat /\ c.Time >= RepeatTime
      BY <1>3, <3>1, <3>2 DEF RepeatReport, Repeated
    <3>3. CASE ~(c.Repeat /\ c.Time >= RepeatTime) /\ ~c.Longpress /\ c.Time >= LongTime
      <4>1. u = Hold(k, c, pressed)
        BY <3>1, <3>3
      <4>2. HeldPower(k, c, u) \/ HeldAlone(k, c, u) \/ HeldCombined(k, c, u, pressed)
        BY <4>1 DEF Hold, HeldPower, HeldAlone, HeldCombined
      <4>3. QED
        BY <1>3, <3>3, <4>2
    <3>4. CASE ~(c.Repeat /\ c.Time >= RepeatTime) /\ ~(~c.Longpress /\ c.Time >= LongTime)
      BY <1>3, <3>1, <3>4 DEF Nothing, Same
    <3>5. QED
      BY <3>2, <3>3, <3>4
  <2>2. CASE k \notin pressed
    <3>1. u = IF ~c.Longpress THEN LetGo(k, c)
              ELSE IF c.Time >= ReleaseTime THEN Nothing(Released)
              ELSE Nothing(c)
      BY <1>3, <2>2 DEF Update
    <3>2. QED
      BY <1>3, <3>1 DEF LetGo, Nothing, Suppressed, Ended, Same
  <2>3. QED
    BY <2>1, <2>2
<1>4. CASE c.State = "LONGPRESS_RELEASE"
  <2>1. u = Nothing(Released)
    BY <1>4 DEF Update
  <2>2. QED
    BY <1>4, <2>1 DEF Nothing, Ended
<1>5. QED
  BY <1>1, <1>2, <1>3, <1>4 DEF States

-----------------------------------------------------------------------------
(* One poll and one key: what is true of it before is true after.          *)
Counted(c, n, told) ==
  IF c.State = "RELEASED" THEN 0 ELSE IF n + Len(told) > 2 THEN 2 ELSE n + Len(told)
Waited(u, q, delta) ==
  IF u.out # <<>> \/ ~u.c.Repeat THEN 0 ELSE Later(q, delta)

(* The ways a turn can go, read or not.                                    *)
Advanced(c, delta) == [c EXCEPT !.Time = Later(@, delta)]
IsTurn(k, c, delta, pressed, u) ==
  u = Nothing(c) \/ u = Update(k, Advanced(c, delta), pressed)

LEMMA AdvancedType ==
  ASSUME NEW c \in Contexts, NEW delta \in Nat
  PROVE  /\ Advanced(c, delta) \in Contexts
         /\ Advanced(c, delta).State = c.State /\ Advanced(c, delta).Repeat = c.Repeat
         /\ Advanced(c, delta).Longpress = c.Longpress /\ Advanced(c, delta).Time = Later(c.Time, delta)
<1>1. Later(c.Time, delta) \in Times
  BY LaterType DEF Contexts
<1>2. QED
  BY <1>1 DEF Advanced, Contexts

LEMMA TurnKeepsKey ==
  ASSUME NEW k, NEW c, NEW n, NEW q, KeyOK(k, c, n, q),
         NEW delta \in Nat, NEW pressed, NEW u, IsTurn(k, c, delta, pressed, u)
  PROVE  KeyOK(k, u.c, Counted(c, n, u.out), Waited(u, q, delta))
<1> DEFINE d == Advanced(c, delta)
<1>1. c \in Contexts /\ n \in 0 .. 2 /\ q \in Times
  BY DEF KeyOK
<1>2. /\ d \in Contexts /\ d.State = c.State /\ d.Repeat = c.Repeat
      /\ d.Longpress = c.Longpress /\ d.Time = Later(c.Time, delta)
  BY <1>1, AdvancedType
<1>3. /\ Later(c.Time, delta) \in Times /\ Later(q, delta) \in Times /\ c.Time \in Times
      /\ c.Time <= q => c.Time <= Later(q, delta) /\ Later(c.Time, delta) <= Later(q, delta)
  <2>1. c.Time \in Times
    BY <1>1 DEF Contexts
  <2>2. q <= Later(q, delta) /\ Later(q, delta) \in Times /\ Later(c.Time, delta) \in Times
        /\ (c.Time <= q => Later(c.Time, delta) <= Later(q, delta))
    BY <1>1, <2>1, LaterType
  <2>3. QED
    BY <1>1, <2>1, <2>2, Bounds DEF Times
<1>4. Waited(u, q, delta) \in Times
  BY <1>3, ReleasedOK DEF Waited
<1>5. Counted(c, n, <<>>) \in 0 .. 2 /\ (c.State # "RELEASED" => Counted(c, n, <<>>) = n)
  BY <1>1 DEF Counted
<1>6. \A r : /\ Counted(c, n, <<r>>) \in 0 .. 2
             /\ c.State # "RELEASED" => /\ Counted(c, n, <<r>>) > 0
                                        /\ n = 0 => Counted(c, n, <<r>>) = 1
  BY <1>1 DEF Counted
<1> HIDE DEF d
<1>7. CASE u = Nothing(c)
  <2>1. u.c = c /\ u.out = <<>>
    BY <1>7 DEF Nothing
  <2>2. c.Repeat => Waited(u, q, delta) = Later(q, delta)
    BY <2>1 DEF Waited
  <2>3. QED
    BY <1>1, <1>3, <1>4, <1>5, <2>1, <2>2 DEF KeyOK
<1>8. CASE u = Update(k, d, pressed)
  <2>1. CASE Same(d, u)
    <3>1. u.c = d /\ u.out = <<>>
      BY <2>1 DEF Same
    <3>2. d.Repeat => Waited(u, q, delta) = Later(q, delta)
      BY <3>1 DEF Waited
    <3>3. QED
      BY <1>1, <1>2, <1>3, <1>4, <1>5, <3>1, <3>2 DEF KeyOK
  <2>2. CASE c.State = "RELEASED" /\ Pressed(d, u)
    <3>1. /\ u.c \in Contexts /\ u.c.State = "PRESSED" /\ u.out = <<>>
          /\ ~u.c.Longpress /\ ~u.c.Repeat
      BY <1>2, <2>2, ReleasedOK DEF Pressed, Contexts, States, KeyOK
    <3>2. Counted(c, n, u.out) = 0
      BY <2>2 DEF Counted
    <3>3. QED
      BY <1>4, <3>1, <3>2 DEF KeyOK
  <2>3. CASE c.State = "PRESSED" /\ Repeated(k, d, u)
    <3>1. /\ u.c \in Contexts /\ u.c.State = "PRESSED" /\ u.c.Longpress /\ u.c.Repeat /\ u.c.Time = 0
          /\ u.out = <<k>> /\ k # Power
      BY <1>2, <2>3, ReleasedOK DEF Repeated, Contexts, KeyOK
    <3>2. Counted(c, n, u.out) \in 0 .. 2
      BY <1>6, <3>1
    <3>3. 0 <= Waited(u, q, delta)
      BY <1>4, Bounds DEF Times
    <3>4. QED
      BY <1>4, <3>1, <3>2, <3>3 DEF KeyOK
  <2>4. CASE c.State = "PRESSED" /\ ~d.Longpress /\ HeldPower(k, d, u)
    <3>1. PICK report : u.out = <<report>>
      BY <2>4 DEF HeldPower
    <3>2. /\ u.c \in Contexts /\ u.c.State = "PRESSED" /\ u.c.Longpress /\ ~u.c.Repeat /\ k = Power
      BY <1>2, <2>4 DEF HeldPower, Contexts, KeyOK
    <3>3. n = 0
      BY <1>2, <2>4, <3>2 DEF KeyOK
    <3>4. Counted(c, n, u.out) = 1
      BY <1>6, <2>4, <3>1, <3>3
    <3>5. QED
      BY <1>4, <3>2, <3>4 DEF KeyOK
  <2>5. CASE c.State = "PRESSED" /\ HeldAlone(k, d, u)
    <3>1. /\ u.c \in Contexts /\ u.c.State = "PRESSED" /\ u.c.Longpress /\ u.c.Time = 0
          /\ u.out = <<k>> /\ k # Power
      BY <1>2, <2>5, ReleasedOK DEF HeldAlone, Contexts
    <3>2. Counted(c, n, u.out) \in 0 .. 2
      BY <1>6, <3>1
    <3>3. 0 <= Waited(u, q, delta)
      BY <1>4, Bounds DEF Times
    <3>4. QED
      BY <1>4, <3>1, <3>2, <3>3 DEF KeyOK
  <2>6. CASE c.State = "PRESSED" /\ ~d.Longpress /\ HeldCombined(k, d, u, pressed)
    <3>1. /\ u.c \in Contexts /\ u.c.State = "PRESSED" /\ u.c.Longpress /\ ~u.c.Repeat
          /\ u.out = <<>> /\ k # Power
      BY <1>2, <2>6 DEF HeldCombined, Contexts, KeyOK
    <3>2. QED
      BY <1>4, <1>5, <3>1 DEF KeyOK
  <2>7. CASE c.State = "PRESSED" /\ Suppressed(k, d, u)
    <3>1. /\ u.c \in Contexts /\ u.c.State = "LONGPRESS_RELEASE" /\ ~u.c.Longpress /\ ~u.c.Repeat
          /\ u.out = <<k>> /\ ~c.Longpress
      BY <1>2, <2>7 DEF Suppressed, Contexts, States, KeyOK
    <3>2. k = Power => n = 0
      BY <2>7, <3>1 DEF KeyOK
    <3>3. QED
      BY <1>4, <1>6, <2>7, <3>1, <3>2 DEF KeyOK
  <2>8. CASE Ended(d, u)
    <3>1. u.c = Released /\ u.out = <<>>
      BY <2>8 DEF Ended
    <3>2. QED
      BY <1>4, <1>5, <3>1, ReleasedOK DEF KeyOK, Released
  <2>9. QED
    BY <1>2, <1>8, <2>1, <2>2, <2>3, <2>4, <2>5, <2>6, <2>7, <2>8, UpdateBranches DEF Contexts, States
<1>9. QED
  BY <1>7, <1>8 DEF IsTurn, d

(* A hold that ends had been told, and one that comes to 500 ms is.        *)
LEMMA TurnTellsHold ==
  ASSUME NEW k, NEW c, NEW n, NEW q, KeyOK(k, c, n, q), NEW keys, Told(k, c, n, keys),
         NEW delta \in Nat, NEW pressed, NEW u, IsTurn(k, c, delta, pressed, u)
  PROVE  /\ c.State # "RELEASED" /\ u.c.State = "RELEASED" => n > 0 \/ k \in keys
         /\ u.c.State = "PRESSED" /\ u.c.Longpress =>
              \/ Counted(c, n, u.out) > 0
              \/ k \in keys
              \/ k # Power /\ Power \in pressed /\ ~c.Longpress
<1> DEFINE d == Advanced(c, delta)
<1>1. c \in Contexts /\ n \in 0 .. 2 /\ (c.State = "LONGPRESS_RELEASE" => n > 0)
      /\ (c.State = "RELEASED" => ~c.Longpress)
  BY DEF KeyOK
<1>2. d \in Contexts /\ d.State = c.State /\ d.Longpress = c.Longpress
  BY <1>1, AdvancedType
<1>3. c.State # "RELEASED" => Counted(c, n, <<>>) = n
  BY <1>1 DEF Counted
<1>4. c.State # "RELEASED" => \A r : Counted(c, n, <<r>>) > 0
  BY <1>1 DEF Counted
<1> HIDE DEF d
<1>5. CASE u = Nothing(c) \/ Same(d, u)
  <2>1. u.out = <<>> /\ u.c.State = c.State /\ u.c.Longpress = c.Longpress
    BY <1>2, <1>5 DEF Nothing, Same
  <2>2. QED
    BY <1>1, <1>3, <2>1 DEF Told
<1>6. CASE Pressed(d, u) /\ c.State = "RELEASED"
  <2>1. u.c.State = "PRESSED" /\ u.c.Longpress = c.Longpress
    BY <1>2, <1>6 DEF Pressed, Contexts
  <2>2. QED
    BY <1>1, <1>6, <2>1
<1>7. CASE /\ c.State = "PRESSED"
           /\ Repeated(k, d, u) \/ HeldPower(k, d, u) \/ HeldAlone(k, d, u) \/ Suppressed(k, d, u)
  <2>1. u.c.State # "RELEASED" /\ \E r : u.out = <<r>>
    BY <1>2, <1>7 DEF Repeated, HeldPower, HeldAlone, Suppressed, Contexts
  <2>2. QED
    BY <1>4, <1>7, <2>1
<1>8. CASE c.State = "PRESSED" /\ ~d.Longpress /\ HeldCombined(k, d, u, pressed)
  <2>1. u.c.State = "PRESSED" /\ k # Power /\ Power \in pressed /\ ~c.Longpress
    BY <1>2, <1>8 DEF HeldCombined, Contexts
  <2>2. QED
    BY <2>1
<1>9. CASE ((c.State = "PRESSED" /\ d.Longpress) \/ c.State = "LONGPRESS_RELEASE") /\ Ended(d, u)
  <2>1. u.c.State = "RELEASED"
    BY <1>9 DEF Ended, Released
  <2>2. QED
    BY <1>1, <1>2, <1>9, <2>1 DEF Told
<1>10. CASE u = Update(k, d, pressed)
  <2>1. c.State \in States
    BY <1>1 DEF Contexts
  <2>2. CASE c.State = "RELEASED"
    <3>1. Same(d, u) \/ Pressed(d, u)
      BY <1>2, <1>10, <2>2, UpdateBranches
    <3>2. QED
      BY <1>5, <1>6, <2>2, <3>1
  <2>3. CASE c.State = "PRESSED"
    <3>1. \/ Same(d, u)
          \/ Repeated(k, d, u)
          \/ ~d.Longpress /\ (HeldPower(k, d, u) \/ HeldAlone(k, d, u) \/ HeldCombined(k, d, u, pressed))
          \/ Suppressed(k, d, u)
          \/ d.Longpress /\ Ended(d, u)
      BY <1>2, <1>10, <2>3, UpdateBranches
    <3>2. QED
      BY <1>5, <1>7, <1>8, <1>9, <2>3, <3>1
  <2>4. CASE c.State = "LONGPRESS_RELEASE"
    <3>1. Ended(d, u)
      BY <1>2, <1>10, <2>4, UpdateBranches
    <3>2. QED
      BY <1>9, <2>4, <3>1
  <2>5. QED
    BY <2>1, <2>2, <2>3, <2>4 DEF States
<1>11. QED
  BY <1>5, <1>10 DEF IsTurn, d

-----------------------------------------------------------------------------
(* The poll as a whole is a turn of every key.                             *)
LEMMA PollTurns ==
  ASSUME NEW buttons, NEW read, NEW delta, GetKeys(buttons, read, delta), NEW k \in Keys
  PROVE  LET u == Turn(k, buttons, read, delta)
         IN  /\ IsTurn(k, context[k], delta, Seen(k, buttons, read), u)
             /\ context'[k] = u.c
             /\ reports'[k] = Counted(context[k], reports[k], u.out)
             /\ quiet'[k] = Waited(u, quiet[k], delta)
             /\ k \in combined' <=>
                  /\ u.c.State # "RELEASED"
                  /\ \/ k \in combined
                     \/ /\ ~context[k].Longpress /\ u.c.Longpress
                        /\ k # Power /\ Power \in down'
<1> DEFINE turn == [j \in Keys |-> Turn(j, buttons, read, delta)]
           u == Turn(k, buttons, read, delta)
<1>1. turn[k] = u
  OBVIOUS
<1>2. IsTurn(k, context[k], delta, Seen(k, buttons, read), u)
  BY DEF IsTurn, Turn, Advanced
<1>3. context'[k] = turn[k].c
  BY DEF GetKeys
<1>4. reports'[k] = Counted(context[k], reports[k], turn[k].out)
  BY DEF GetKeys, Counted
<1>5. quiet'[k] = Waited(turn[k], quiet[k], delta)
  BY DEF GetKeys, Waited
<1>6. k \in combined' <=>
        /\ turn[k].c.State # "RELEASED"
        /\ \/ k \in combined
           \/ /\ ~context[k].Longpress /\ turn[k].c.Longpress
              /\ k # Power /\ Power \in down'
  BY DEF GetKeys
<1> HIDE DEF turn, u
<1>7. QED
  BY <1>1, <1>2, <1>3, <1>4, <1>5, <1>6 DEF u

LEMMA KeysOKInit == KeysInit => KeysOK /\ HoldsTold
<1> SUFFICES ASSUME KeysInit PROVE KeysOK /\ HoldsTold
  OBVIOUS
<1>1. context \in [Keys -> Contexts]
  BY ReleasedOK DEF KeysInit
<1>2. \A k \in Keys : context[k] = Released /\ reports[k] = 0 /\ quiet[k] = 0
  BY DEF KeysInit
<1>3. QED
  BY <1>1, <1>2, ReleasedOK DEF KeysOK, KeyOK, HoldsTold, Told, Released

LEMMA KeysOKNext == KeysOK /\ [KeysNext]_keysVars => KeysOK'
<1> SUFFICES ASSUME KeysOK, [KeysNext]_keysVars PROVE KeysOK'
  OBVIOUS
<1>1. ASSUME NEW buttons \in SUBSET Keys, NEW failed \in SUBSET GpioKeys, NEW delta \in Deltas,
             GetKeys(buttons, Keys \ failed, delta)
      PROVE  KeysOK'
  <2>1. \A k \in Keys : KeyOK(k, context'[k], reports'[k], quiet'[k])
    <3> TAKE k \in Keys
    <3>1. delta \in Nat /\ KeyOK(k, context[k], reports[k], quiet[k])
      BY Bounds DEF KeysOK
    <3>2. QED
      BY <1>1, <3>1, PollTurns, TurnKeepsKey
  <2>2. context' \in [Keys -> Contexts]
    <3>1. context' = [k \in Keys |-> context'[k]]
      BY <1>1 DEF GetKeys
    <3>2. \A k \in Keys : context'[k] \in Contexts
      BY <2>1 DEF KeyOK
    <3>3. QED
      BY <3>1, <3>2
  <2>3. QED
    BY <2>1, <2>2 DEF KeysOK
<1>2. CASE KeypadDeviceImplReset
  <2>1. context' \in [Keys -> Contexts]
    BY <1>2, ReleasedOK DEF KeypadDeviceImplReset
  <2>2. \A k \in Keys : context'[k] = Released /\ reports'[k] = 0 /\ quiet'[k] = 0
    BY <1>2 DEF KeypadDeviceImplReset
  <2>3. QED
    BY <2>1, <2>2, ReleasedOK DEF KeysOK, KeyOK, Released
<1>3. CASE UNCHANGED keysVars
  BY <1>3 DEF keysVars, KeysOK
<1>4. QED
  BY <1>1, <1>2, <1>3 DEF KeysNext

(* A hold of the power key is reported once, as a carriage return or as a  *)
(* combination, whatever polls come late or fail to read other keys.       *)
THEOREM PowerOnce == KeysSpec => []PowerReportedOnce
<1>1. Power \in Keys
  BY KeysAssumption DEF Keys
<1>2. KeysOK => PowerReportedOnce
  BY <1>1 DEF KeysOK, KeyOK, PowerReportedOnce
<1>3. QED
  BY <1>2, KeysOKInit, KeysOKNext, PTL DEF KeysSpec

(* Two reports of a repeating key are at least RepeatTime apart: its Time  *)
(* never runs ahead of the time since the last one.                        *)
THEOREM RepeatsSpaced == KeysSpec => []RepeatsAreSpaced
<1>1. KeysOK => RepeatsAreSpaced
  BY DEF KeysOK, KeyOK, RepeatsAreSpaced
<1>2. QED
  BY <1>1, KeysOKInit, KeysOKNext, PTL DEF KeysSpec

-----------------------------------------------------------------------------
(* Every key finds the bit of Power as this poll leaves it.                *)
LEMMA PowerSeen ==
  ASSUME PowerFirst, NEW k \in Keys, NEW buttons, NEW read \in SUBSET Keys
  PROVE  Power \in Seen(k, buttons, read) => Power \in (down \ read) \cup (buttons \cap read)
<1>1. 1 \in DOMAIN KeyList /\ Place(Power) = 1
  BY KeysAssumption DEF PowerFirst, Place
<1>2. Place(k) \in DOMAIN KeyList
  BY DEF Keys, Place
<1>3. Place(Power) <= Place(k)
  BY <1>1, <1>2, KeysAssumption
<1>4. QED
  BY <1>3 DEF Seen

LEMMA HoldsNext ==
  ASSUME PowerFirst, KeysOK, HoldsTold, [KeysNext]_keysVars
  PROVE  /\ HoldsTold'
         /\ [\A k \in Keys :
               ~KeypadDeviceImplReset /\ context[k].State # "RELEASED" /\ context'[k].State = "RELEASED"
                 => reports[k] > 0 \/ k \in combined]_keysVars
<1>1. ASSUME NEW buttons \in SUBSET Keys, NEW failed \in SUBSET GpioKeys, NEW delta \in Deltas,
             GetKeys(buttons, Keys \ failed, delta), NEW k \in Keys
      PROVE  /\ Told(k, context'[k], reports'[k], combined')
             /\ context[k].State # "RELEASED" /\ context'[k].State = "RELEASED"
                  => reports[k] > 0 \/ k \in combined
  <2> DEFINE u == Turn(k, buttons, Keys \ failed, delta)
             pressed == Seen(k, buttons, Keys \ failed)
  <2>1. /\ IsTurn(k, context[k], delta, pressed, u)
        /\ context'[k] = u.c
        /\ reports'[k] = Counted(context[k], reports[k], u.out)
        /\ k \in combined' <=>
             /\ u.c.State # "RELEASED"
             /\ \/ k \in combined
                \/ /\ ~context[k].Longpress /\ u.c.Longpress
                   /\ k # Power /\ Power \in down'
    BY <1>1, PollTurns
  <2>2. Power \in pressed => Power \in down'
    BY <1>1, PowerSeen DEF GetKeys
  <2>3. /\ delta \in Nat /\ KeyOK(k, context[k], reports[k], quiet[k])
        /\ Told(k, context[k], reports[k], combined)
    BY Bounds DEF KeysOK, HoldsTold
  <2> HIDE DEF u, pressed
  <2>4. /\ context[k].State # "RELEASED" /\ u.c.State = "RELEASED" => reports[k] > 0 \/ k \in combined
        /\ u.c.State = "PRESSED" /\ u.c.Longpress =>
              \/ Counted(context[k], reports[k], u.out) > 0
              \/ k \in combined
              \/ k # Power /\ Power \in pressed /\ ~context[k].Longpress
    <3>1. IsTurn(k, context[k], delta, pressed, u)
      BY <2>1
    <3>2. QED
      BY <2>3, <3>1, TurnTellsHold
  <2>5. QED
    BY <2>1, <2>2, <2>4 DEF Told
<1>2. CASE KeypadDeviceImplReset
  <2>1. \A k \in Keys : context'[k].State = "RELEASED"
    BY <1>2 DEF KeypadDeviceImplReset, Released
  <2>2. QED
    BY <1>2, <2>1 DEF HoldsTold, Told
<1>3. CASE UNCHANGED keysVars
  BY <1>3 DEF keysVars, HoldsTold
<1>4. QED
  BY <1>1, <1>2, <1>3 DEF KeysNext, HoldsTold

(* A hold ends silently only if the key was part of a combination, with    *)
(* the power key at the head of KeyList: a key polled before it would      *)
(* decide by the bit of an earlier poll.                                   *)
THEOREM HoldsAreTold ==
  ASSUME PowerFirst
  PROVE  KeysSpec => NoSilentHold
<1>1. KeysOK /\ HoldsTold /\ [KeysNext]_keysVars =>
        /\ HoldsTold'
        /\ [\A k \in Keys :
               ~KeypadDeviceImplReset /\ context[k].State # "RELEASED" /\ context'[k].State = "RELEASED"
                 => reports[k] > 0 \/ k \in combined]_keysVars
  BY HoldsNext
<1>2. QED
  BY <1>1, KeysOKInit, KeysOKNext, PTL DEF KeysSpec, NoSilentHold
=============================================================================

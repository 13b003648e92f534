-------------------------- MODULE SmdReceive_proofs --------------------------
(***************************************************************************)
(* Proofs about smd_read, for every size of the FIFO, of the header and of *)
(* the payloads, and every place where the indices start: as long as the   *)
(* RPM publishes a header, or a payload, with one move of write_index, the *)
(* header copied out is the one on its way, and packets come out whole,    *)
(* once and in order.                                                      *)
(***************************************************************************)
EXTENDS SmdReceive, SequenceTheorems, TLAPS

Words == [pkt : Nat, off : Nat, pkt_size : Nat]

(* These words lie in the FIFO from k slots after the index on.            *)
HoldsIn(buf, index, k, words) ==
  \A i \in 1 .. Len(words) : buf[Advance(index, k + i - 1)] = words[i]

Holds(k, words) == HoldsIn(fifo, read_index, k, words)

Types ==
  /\ write_index \in Slots /\ read_index \in Slots
  /\ sent \in Nat /\ received \in Nat
  /\ pc \in {"request", "header", "payload"}

(* No packet on its way.                                                   *)
Idle ==
  /\ sent = received /\ left = <<>> /\ write_index = read_index
  /\ pc # "payload"
  /\ pc = "header" => sent < MaxPackets

(* The RPM has begun a packet and published nothing of it ...              *)
Begun(len) ==
  /\ pc = "header" /\ left = Header(sent, len) \o Payload(sent, len)
  /\ write_index = read_index

(* ... its header, which smd_read has not copied, or has ...               *)
HeaderOut(len) ==
  /\ pc = "header" /\ left = Payload(sent, len)
  /\ write_index = Advance(read_index, HdrWords)
  /\ Holds(0, Header(sent, len))
HeaderIn(len) ==
  /\ pc = "payload" /\ left = Payload(sent, len)
  /\ write_index = read_index
  /\ smd_hdr = Header(sent, len)

(* ... or all of it, before and after smd_read copied the header.          *)
AllOut(len) ==
  /\ pc = "header" /\ left = <<>>
  /\ write_index = Advance(read_index, HdrWords + len)
  /\ Holds(0, Header(sent, len)) /\ Holds(HdrWords, Payload(sent, len))
PayloadOut(len) ==
  /\ pc = "payload" /\ left = <<>>
  /\ write_index = Advance(read_index, len)
  /\ smd_hdr = Header(sent, len)
  /\ Holds(0, Payload(sent, len))

OnItsWay ==
  \E len \in 1 .. MaxLen :
    /\ sent = received + 1 /\ sent \in 1 .. MaxPackets
    /\ packet = Payload(sent, len)
    /\ \/ Begun(len) \/ HeaderOut(len) \/ HeaderIn(len)
       \/ AllOut(len) \/ PayloadOut(len)

(* The inductive invariant: what lies between the indices is what the RPM  *)
(* published of the one packet on its way and smd_read did not copy yet.   *)
IInv == Types /\ (Idle \/ OnItsWay)

-----------------------------------------------------------------------------
LEMMA Sizes ==
  /\ HdrWords \in Nat /\ HdrWords > 0 /\ MaxLen \in Nat
  /\ FifoWords \in Nat /\ HdrWords + MaxLen < FifoWords
  /\ Modulus \in Nat /\ 2 * FifoWords < Modulus
  /\ MaxPackets \in Nat
  BY FifoAssumption

LEMMA HeaderType ==
  ASSUME NEW n \in Nat, NEW len \in Nat
  PROVE  /\ Header(n, len) \in Seq(Words) /\ Len(Header(n, len)) = HdrWords
         /\ Header(n, len)[1].pkt_size = len
<1>1. \A i \in 1 .. HdrWords : Header(n, len)[i] \in Words
  BY Sizes DEF Header, Words
<1>2. QED
  BY <1>1, Sizes DEF Header

LEMMA PayloadType ==
  ASSUME NEW n \in Nat, NEW len \in Nat
  PROVE  Payload(n, len) \in Seq(Words) /\ Len(Payload(n, len)) = len
<1>1. \A i \in 1 .. len : Payload(n, len)[i] \in Words
  BY Sizes DEF Payload, Words
<1>2. QED
  BY <1>1 DEF Payload

(* Advancing twice is advancing by the sum; no step comes back to where it *)
(* started before it went all the way round.                               *)
LEMMA AdvanceLemma ==
  ASSUME NEW index \in Slots, NEW k \in 0 .. FifoWords
  PROVE  /\ Advance(index, k) \in Slots
         /\ Advance(index, 0) = index
         /\ \A i \in 0 .. FifoWords : k + i <= FifoWords =>
              Advance(Advance(index, k), i) = Advance(index, k + i)
  BY Sizes DEF Advance, Slots

LEMMA OffsetLemma ==
  ASSUME NEW index \in Slots, NEW k \in 0 .. FifoWords, NEW i \in 0 .. FifoWords - 1
  PROVE  Offset(Advance(index, k), Advance(index, i)) =
           IF i >= k THEN i - k ELSE i - k + FifoWords
  BY Sizes DEF Offset, Advance, Slots

(* memcpy_to_fifo puts the words where it was told and leaves those that   *)
(* lie before them.                                                        *)
LEMMA CopyToLemma ==
  ASSUME NEW buf, NEW index \in Slots, NEW k \in Nat, NEW words \in Seq(Words),
         k + Len(words) <= FifoWords
  PROVE  /\ HoldsIn(CopyTo(buf, Advance(index, k), words), index, k, words)
         /\ \A old \in Seq(Words) : Len(old) <= k /\ HoldsIn(buf, index, 0, old) =>
              HoldsIn(CopyTo(buf, Advance(index, k), words), index, 0, old)
<1> DEFINE new == CopyTo(buf, Advance(index, k), words)
<1>1. Len(words) \in Nat /\ k \in 0 .. FifoWords
  BY Sizes, LenProperties
<1>2. ASSUME NEW i \in 1 .. Len(words)
      PROVE  new[Advance(index, k + i - 1)] = words[i]
  <2>1. k + i - 1 \in 0 .. FifoWords - 1
    BY <1>1, Sizes
  <2>2. Advance(index, k + i - 1) \in Slots
    BY <2>1, AdvanceLemma, Sizes
  <2>3. Offset(Advance(index, k), Advance(index, k + i - 1)) = i - 1
    BY <1>1, <2>1, OffsetLemma, Sizes
  <2>4. QED
    BY <1>1, <2>2, <2>3 DEF CopyTo
<1>3. ASSUME NEW i \in 1 .. k
      PROVE  new[Advance(index, i - 1)] = buf[Advance(index, i - 1)]
  <2>1. i - 1 \in 0 .. FifoWords - 1 /\ ~(i - 1 >= k)
    BY <1>1, Sizes
  <2>2. Advance(index, i - 1) \in Slots
    BY <2>1, AdvanceLemma, Sizes
  <2>3. Offset(Advance(index, k), Advance(index, i - 1)) = i - 1 - k + FifoWords
    BY <1>1, <2>1, OffsetLemma
  <2>4. ~(i - 1 - k + FifoWords < Len(words))
    BY <1>1, <2>1, Sizes
  <2>5. QED
    BY <2>2, <2>3, <2>4 DEF CopyTo
<1> HIDE DEF new
<1>4. HoldsIn(new, index, k, words)
  BY <1>2 DEF HoldsIn
<1>5. ASSUME NEW old \in Seq(Words), Len(old) <= k, HoldsIn(buf, index, 0, old)
      PROVE  HoldsIn(new, index, 0, old)
  <2>1. \A i \in 1 .. Len(old) : i \in 1 .. k /\ 0 + i - 1 = i - 1
    BY <1>1, <1>5, LenProperties
  <2>2. \A i \in 1 .. Len(old) : new[Advance(index, i - 1)] = buf[Advance(index, i - 1)]
    BY <1>3, <2>1
  <2>3. \A i \in 1 .. Len(old) : buf[Advance(index, i - 1)] = old[i]
    BY <1>5, <2>1 DEF HoldsIn
  <2>4. QED
    BY <2>1, <2>2, <2>3 DEF HoldsIn
<1>6. QED
  BY <1>4, <1>5 DEF new

(* memcpy_from_fifo hands out what lies after the index.                   *)
LEMMA CopyFromLemma ==
  ASSUME NEW words \in Seq(Words), Holds(0, words)
  PROVE  CopyFrom(fifo, read_index, Len(words)) = words
<1>1. Len(words) \in Nat /\ words = [i \in 1 .. Len(words) |-> words[i]]
  BY LenProperties
<1>2. \A i \in 1 .. Len(words) : fifo[Advance(read_index, i - 1)] = words[i]
  BY <1>1 DEF Holds, HoldsIn
<1>3. QED
  BY <1>1, <1>2 DEF CopyFrom

(* The two pieces of a packet.                                             *)
LEMMA PieceLemma ==
  ASSUME NEW n \in Nat, NEW len \in 1 .. MaxLen
  PROVE  LET whole == Header(n, len) \o Payload(n, len)
         IN  /\ Len(whole) = HdrWords + len
             /\ SubSeq(whole, 1, HdrWords) = Header(n, len)
             /\ SubSeq(whole, HdrWords + 1, Len(whole)) = Payload(n, len)
             /\ SubSeq(Payload(n, len), 1, len) = Payload(n, len)
             /\ SubSeq(Payload(n, len), len + 1, len) = <<>>
<1> DEFINE h == Header(n, len)
           p == Payload(n, len)
           whole == h \o p
<1>1. len \in Nat /\ h \in Seq(Words) /\ Len(h) = HdrWords /\ p \in Seq(Words) /\ Len(p) = len
  BY HeaderType, PayloadType, Sizes
<1> HIDE DEF h, p
<1>2. /\ whole \in Seq(Words) /\ Len(whole) = HdrWords + len
      /\ \A i \in 1 .. HdrWords + len : whole[i] = IF i <= HdrWords THEN h[i] ELSE p[i - HdrWords]
  BY <1>1, ConcatProperties
<1>3. SubSeq(whole, 1, HdrWords) = h
  <2>1. 1 \in 1 .. Len(h) /\ Len(h) \in 1 .. Len(h)
    BY <1>1, Sizes
  <2>2. SubSeq(h \o p, 1, Len(h)) = SubSeq(h, 1, Len(h))
    BY <1>1, <2>1, SubSeqOfConcat1
  <2>3. SubSeq(h, 1, Len(h)) = h
    BY <1>1, SubSeqFull
  <2>4. QED
    BY <1>1, <2>2, <2>3
<1>4. SubSeq(whole, HdrWords + 1, Len(whole)) = p
  <2> DEFINE k == HdrWords + 1
             m == HdrWords + len
  <2>1. k \in Len(h) + 1 .. Len(h) + Len(p) /\ m \in Len(h) + 1 .. Len(h) + Len(p)
    BY <1>1, Sizes
  <2>2. k - Len(h) = 1 /\ m - Len(h) = Len(p)
    BY <1>1, Sizes
  <2> HIDE DEF k, m
  <2>3. SubSeq(h \o p, k, m) = SubSeq(p, k - Len(h), m - Len(h))
    BY <1>1, <2>1, SubSeqOfConcat2
  <2>4. SubSeq(p, 1, Len(p)) = p
    BY <1>1, SubSeqFull
  <2>5. SubSeq(h \o p, k, m) = p
    BY <2>2, <2>3, <2>4
  <2>6. QED
    BY <1>2, <2>5 DEF k, m
<1>5. SubSeq(p, 1, len) = p /\ SubSeq(p, len + 1, len) = <<>>
  BY <1>1, SubSeqFull, SubSeqEmpty
<1>6. QED
  BY <1>2, <1>3, <1>4, <1>5 DEF whole, h, p

LEMMA InitIInv == Init => IInv
  BY DEF Init, IInv, Types, Idle

(* One step per action: what the actions of smd_read find between the      *)
(* indices, and what those of the RPM add there.                           *)
LEMMA CallNext == IInv /\ Call => IInv' /\ UNCHANGED <<packet, response>>
<1> SUFFICES ASSUME IInv, Call PROVE IInv' /\ UNCHANGED <<packet, response>>
  OBVIOUS
<1>1. Idle
  BY DEF IInv, OnItsWay, Begun, HeaderOut, HeaderIn, AllOut, PayloadOut, Call
<1>2. Types' /\ Idle'
  BY <1>1 DEF IInv, Types, Idle, Call, rpm
<1>3. QED
  BY <1>2 DEF IInv, Call, rpm

LEMMA AnswerNext ==
  ASSUME IInv, ~Streaming, RpmAnswer
  PROVE  /\ IInv'
         /\ \E p \in {Payload(n, len) : n \in 1 .. MaxPackets, len \in 1 .. MaxLen} : packet' = p
         /\ sent = received /\ sent' > received' /\ UNCHANGED response
<1>1. Types /\ Idle /\ pc = "header" /\ sent = received
  BY DEF IInv, Types, OnItsWay, Idle, RpmAnswer
<1>2. PICK len \in 1 .. MaxLen :
        /\ packet' = Payload(sent + 1, len)
        /\ left' = Header(sent + 1, len) \o Payload(sent + 1, len)
  BY DEF RpmAnswer
<1>3. /\ sent' = sent + 1 /\ sent' \in 1 .. MaxPackets
      /\ UNCHANGED <<fifo, write_index, read_index, pc, received, response>>
  BY <1>1, Sizes DEF Types, Idle, RpmAnswer, apps
<1>4. Types' /\ Begun(len)'
  BY <1>1, <1>2, <1>3 DEF Types, Idle, Begun
<1>5. OnItsWay'
  BY <1>1, <1>2, <1>3, <1>4 DEF OnItsWay
<1>6. QED
  BY <1>1, <1>2, <1>3, <1>4, <1>5 DEF IInv, Types

LEMMA PublishNext ==
  ASSUME IInv, ~Streaming, RpmPublish
  PROVE  IInv' /\ UNCHANGED <<packet, response, sent, received>>
<1>1. Types /\ left # <<>> /\ ~Idle
  BY DEF IInv, RpmPublish, Idle
<1>2. PICK len \in 1 .. MaxLen :
        /\ sent = received + 1 /\ sent \in 1 .. MaxPackets
        /\ packet = Payload(sent, len)
        /\ (Begun(len) \/ HeaderOut(len) \/ HeaderIn(len))
  BY <1>1 DEF IInv, OnItsWay, AllOut, PayloadOut
<1>3. /\ fifo' = CopyTo(fifo, write_index, SubSeq(left, 1, Piece))
      /\ write_index' = Advance(write_index, Piece)
      /\ left' = SubSeq(left, Piece + 1, Len(left))
      /\ UNCHANGED <<read_index, packet, sent, pc, smd_hdr, response, received>>
  BY DEF RpmPublish, apps
<1>4. /\ sent \in Nat /\ len \in Nat /\ read_index \in Slots /\ write_index \in Slots
      /\ Len(packet) = len
  BY <1>1, <1>2, PayloadType, Sizes DEF Types
<1>5. /\ Header(sent, len) \in Seq(Words) /\ Len(Header(sent, len)) = HdrWords
      /\ Payload(sent, len) \in Seq(Words) /\ Len(Payload(sent, len)) = len
  BY <1>4, HeaderType, PayloadType
<1>6. /\ HdrWords \in 0 .. FifoWords /\ len \in 0 .. FifoWords
      /\ HdrWords + len \in 0 .. FifoWords /\ HdrWords + len < FifoWords
  BY <1>4, Sizes
<1>7. Advance(read_index, 0) = read_index
  BY <1>4, <1>6, AdvanceLemma
<1>8. CASE Begun(len)
  <2>1. Len(left) = HdrWords + len /\ Piece = HdrWords
    BY <1>4, <1>8, PieceLemma, Sizes DEF Begun, Piece
  <2>2. SubSeq(left, 1, Piece) = Header(sent, len) /\ left' = Payload(sent, len)
    BY <1>3, <1>4, <1>8, <2>1, PieceLemma DEF Begun
  <2>3. fifo' = CopyTo(fifo, Advance(read_index, 0), Header(sent, len))
    BY <1>3, <1>7, <1>8, <2>2 DEF Begun
  <2>4. write_index' = Advance(read_index, HdrWords) /\ write_index' \in Slots
    BY <1>3, <1>4, <1>6, <1>8, <2>1, AdvanceLemma DEF Begun
  <2>5. HoldsIn(fifo', read_index, 0, Header(sent, len))
    BY <1>4, <1>5, <1>6, <2>3, CopyToLemma
  <2>6. HeaderOut(len)'
    BY <1>3, <1>8, <2>2, <2>4, <2>5 DEF Begun, HeaderOut, Holds
  <2>7. Types' /\ OnItsWay'
    BY <1>1, <1>2, <1>3, <2>4, <2>6 DEF Types, OnItsWay
  <2>8. QED
    BY <1>3, <2>7 DEF IInv
<1>9. CASE HeaderOut(len) \/ HeaderIn(len)
  <2>1. left = Payload(sent, len) /\ Len(left) = len /\ Piece = len
    BY <1>4, <1>5, <1>9, ~Streaming DEF HeaderOut, HeaderIn, Piece
  <2>2. SubSeq(left, 1, Piece) = Payload(sent, len) /\ left' = <<>>
    BY <1>3, <1>4, <2>1, PieceLemma
  <2>3. CASE HeaderOut(len)
    <3>1. fifo' = CopyTo(fifo, Advance(read_index, HdrWords), Payload(sent, len))
      BY <1>3, <2>2, <2>3 DEF HeaderOut
    <3>2. write_index' = Advance(read_index, HdrWords + len) /\ write_index' \in Slots
      BY <1>3, <1>4, <1>6, <2>1, <2>3, AdvanceLemma DEF HeaderOut
    <3>3. HoldsIn(fifo', read_index, HdrWords, Payload(sent, len))
      <4>1. HdrWords \in Nat /\ HdrWords + Len(Payload(sent, len)) <= FifoWords
        BY <1>5, <1>6, Sizes
      <4>2. QED
        BY <1>4, <1>5, <3>1, <4>1, CopyToLemma
    <3>4. HoldsIn(fifo', read_index, 0, Header(sent, len))
      <4>1. HoldsIn(fifo, read_index, 0, Header(sent, len))
        BY <2>3 DEF HeaderOut, Holds
      <4>2. QED
        BY <1>4, <1>5, <1>6, <3>1, <4>1, CopyToLemma
    <3>5. AllOut(len)'
      BY <1>3, <2>2, <2>3, <3>2, <3>3, <3>4 DEF HeaderOut, AllOut, Holds
    <3>6. Types' /\ OnItsWay'
      BY <1>1, <1>2, <1>3, <3>2, <3>5 DEF Types, OnItsWay
    <3>7. QED
      BY <1>3, <3>6 DEF IInv
  <2>4. CASE HeaderIn(len)
    <3>1. fifo' = CopyTo(fifo, Advance(read_index, 0), Payload(sent, len))
      BY <1>3, <1>7, <2>2, <2>4 DEF HeaderIn
    <3>2. write_index' = Advance(read_index, len) /\ write_index' \in Slots
      BY <1>3, <1>4, <1>6, <2>1, <2>4, AdvanceLemma DEF HeaderIn
    <3>3. HoldsIn(fifo', read_index, 0, Payload(sent, len))
      BY <1>4, <1>5, <1>6, <3>1, CopyToLemma
    <3>4. PayloadOut(len)'
      BY <1>3, <2>2, <2>4, <3>2, <3>3 DEF HeaderIn, PayloadOut, Holds
    <3>5. Types' /\ OnItsWay'
      BY <1>1, <1>2, <1>3, <3>2, <3>4 DEF Types, OnItsWay
    <3>6. QED
      BY <1>3, <3>5 DEF IInv
  <2>5. QED
    BY <1>9, <2>3, <2>4
<1>10. QED
  BY <1>2, <1>8, <1>9

LEMMA ReadHeaderNext ==
  ASSUME IInv, ReadHeader
  PROVE  IInv' /\ UNCHANGED <<packet, response, sent, received>>
<1>1. Types /\ pc = "header" /\ Available(write_index, read_index) >= HdrWords
  BY DEF IInv, ReadHeader
<1>2. write_index # read_index
  BY <1>1, Sizes DEF Available, Types, Slots
<1>3. PICK len \in 1 .. MaxLen :
        /\ sent = received + 1 /\ sent \in 1 .. MaxPackets
        /\ packet = Payload(sent, len)
        /\ (HeaderOut(len) \/ AllOut(len))
  BY <1>1, <1>2 DEF IInv, OnItsWay, Idle, Begun, HeaderIn, PayloadOut
<1>4. /\ smd_hdr' = CopyFrom(fifo, read_index, HdrWords)
      /\ read_index' = Advance(read_index, HdrWords)
      /\ pc' = "payload"
      /\ UNCHANGED <<fifo, write_index, left, packet, sent, response, received>>
  BY DEF ReadHeader, rpm
<1>5. /\ sent \in Nat /\ len \in Nat /\ read_index \in Slots
      /\ HdrWords \in 0 .. FifoWords /\ len \in 0 .. FifoWords /\ HdrWords + len <= FifoWords
  BY <1>1, Sizes DEF Types
<1>6. /\ Header(sent, len) \in Seq(Words) /\ Len(Header(sent, len)) = HdrWords
      /\ Payload(sent, len) \in Seq(Words) /\ Len(Payload(sent, len)) = len
  BY <1>5, HeaderType, PayloadType
<1>7. smd_hdr' = Header(sent, len)
  BY <1>3, <1>4, <1>6, CopyFromLemma DEF HeaderOut, AllOut
<1>8. Types'
  BY <1>1, <1>4, <1>5, AdvanceLemma DEF Types
<1>9. CASE HeaderOut(len)
  <2>1. HeaderIn(len)'
    BY <1>4, <1>7, <1>9 DEF HeaderOut, HeaderIn
  <2>2. QED
    BY <1>3, <1>4, <1>8, <2>1 DEF IInv, OnItsWay
<1>10. CASE AllOut(len)
  <2>1. write_index' = Advance(read_index', len)
    BY <1>4, <1>5, <1>10, AdvanceLemma DEF AllOut
  <2>2. HoldsIn(fifo, read_index', 0, Payload(sent, len))
    <3>1. HoldsIn(fifo, read_index, HdrWords, Payload(sent, len))
      BY <1>10 DEF AllOut, Holds
    <3>2. ASSUME NEW i \in 1 .. len
          PROVE  Advance(read_index', 0 + i - 1) = Advance(read_index, HdrWords + i - 1)
      <4>1. i - 1 \in 0 .. FifoWords /\ HdrWords + (i - 1) <= FifoWords
        BY <1>5, Sizes
      <4>2. Advance(Advance(read_index, HdrWords), i - 1) = Advance(read_index, HdrWords + (i - 1))
        BY <1>5, <4>1, AdvanceLemma
      <4>3. HdrWords + (i - 1) = HdrWords + i - 1 /\ 0 + i - 1 = i - 1
        BY <1>5
      <4>4. QED
        BY <1>4, <4>2, <4>3
    <3>3. QED
      BY <1>6, <3>1, <3>2 DEF HoldsIn
  <2>3. PayloadOut(len)'
    BY <1>4, <1>7, <1>10, <2>1, <2>2 DEF AllOut, PayloadOut, Holds
  <2>4. QED
    BY <1>3, <1>4, <1>8, <2>3 DEF IInv, OnItsWay
<1>11. QED
  BY <1>3, <1>9, <1>10

LEMMA ReadPayloadNext ==
  ASSUME IInv, ReadPayload
  PROVE  /\ IInv'
         /\ sent = received + 1 /\ sent' = received' /\ response' = packet
<1>1. Types /\ pc = "payload" /\ Available(write_index, read_index) >= smd_hdr[1].pkt_size
  BY DEF IInv, ReadPayload
<1>2. PICK len \in 1 .. MaxLen :
        /\ sent = received + 1 /\ sent \in 1 .. MaxPackets
        /\ packet = Payload(sent, len)
        /\ (HeaderIn(len) \/ PayloadOut(len))
  BY <1>1 DEF IInv, OnItsWay, Idle, Begun, HeaderOut, AllOut
<1>3. sent \in Nat /\ len \in Nat /\ read_index \in Slots /\ len \in 0 .. FifoWords
  BY <1>1, Sizes DEF Types
<1>4. /\ smd_hdr[1].pkt_size = len
      /\ Payload(sent, len) \in Seq(Words) /\ Len(Payload(sent, len)) = len
  BY <1>2, <1>3, HeaderType, PayloadType DEF HeaderIn, PayloadOut
<1>5. PayloadOut(len)
  <2>1. write_index # read_index
    BY <1>1, <1>3, <1>4, Sizes DEF Available, Types, Slots
  <2>2. QED
    BY <1>2, <2>1 DEF HeaderIn
<1>6. /\ response' = CopyFrom(fifo, read_index, len)
      /\ read_index' = Advance(read_index, len)
      /\ received' = received + 1
      /\ pc' = "request"
      /\ UNCHANGED <<fifo, write_index, left, packet, sent, smd_hdr>>
  BY <1>4 DEF ReadPayload, rpm
<1>7. response' = packet
  BY <1>2, <1>4, <1>5, <1>6, CopyFromLemma DEF PayloadOut
<1>8. Types' /\ Idle'
  BY <1>1, <1>2, <1>3, <1>5, <1>6, AdvanceLemma DEF Types, Idle, PayloadOut
<1>9. QED
  BY <1>2, <1>6, <1>7, <1>8 DEF IInv

LEMMA StutterNext == IInv /\ UNCHANGED vars => IInv'
  BY DEF IInv, Types, Idle, OnItsWay, Begun, HeaderOut, HeaderIn, AllOut, PayloadOut, Holds, vars, rpm, apps

LEMMA NextIInv == ASSUME ~Streaming PROVE IInv /\ [Next]_vars => IInv'
  BY CallNext, AnswerNext, PublishNext, ReadHeaderNext, ReadPayloadNext, StutterNext DEF Next

-----------------------------------------------------------------------------
(* smd_read never works with a pkt_size that is not the one the RPM sent:  *)
(* the header it copied is that of the packet on its way, as long as the   *)
(* RPM publishes a header with one move of write_index.                    *)
THEOREM HeadersIntact == ASSUME ~Streaming PROVE Spec => []HeaderIntact
<1>1. IInv => HeaderIntact
  <2> SUFFICES ASSUME IInv, pc = "payload"
               PROVE  sent = received + 1 /\ smd_hdr = Header(sent, Len(packet))
    BY DEF HeaderIntact
  <2>1. PICK len \in 1 .. MaxLen :
          /\ sent = received + 1 /\ packet = Payload(sent, len)
          /\ smd_hdr = Header(sent, len)
    BY DEF IInv, Idle, OnItsWay, Begun, HeaderOut, HeaderIn, AllOut, PayloadOut
  <2>2. Len(packet) = len
    BY <2>1, PayloadType, Sizes DEF IInv, Types
  <2>3. QED
    BY <2>1, <2>2
<1>2. QED
  BY <1>1, InitIInv, NextIInv, PTL DEF Spec

(* Every step of the RPM and of smd_read is a step of the pipe of whole    *)
(* packets, or none: the RPM puts a packet when it begins it, smd_read     *)
(* takes it with the call that returns.                                    *)
LEMMA StepRefines ==
  ASSUME ~Streaming, IInv, [Next]_vars
  PROVE  [Pipe!Put \/ Pipe!Take]_(Pipe!pipeVars)
<1>1. CASE Call
  BY <1>1, CallNext DEF Call, rpm, Pipe!pipeVars
<1>2. CASE RpmAnswer
  <2>1. /\ sent = received /\ sent' > received' /\ response' = response
        /\ packet' \in {Payload(n, len) : n \in 1 .. MaxPackets, len \in 1 .. MaxLen}
    BY <1>2, AnswerNext
  <2>2. ~(sent > received)
    BY <2>1 DEF IInv, Types
  <2>3. QED
    BY <2>1, <2>2 DEF Pipe!Put
<1>3. CASE RpmPublish
  BY <1>3, PublishNext DEF Pipe!pipeVars
<1>4. CASE ReadHeader
  BY <1>4, ReadHeaderNext DEF Pipe!pipeVars
<1>5. CASE ReadPayload
  <2>1. sent = received + 1 /\ sent' = received' /\ response' = packet
    BY <1>5, ReadPayloadNext
  <2>2. sent > received /\ ~(sent' > received')
    <3>1. IInv'
      BY <1>5, ReadPayloadNext
    <3>2. QED
      BY <2>1, <3>1 DEF IInv, Types
  <2>3. QED
    BY <2>1, <2>2 DEF Pipe!Take
<1>6. CASE UNCHANGED vars
  BY <1>6 DEF vars, rpm, apps, Pipe!pipeVars
<1>7. QED
  BY <1>1, <1>2, <1>3, <1>4, <1>5, <1>6 DEF Next

(* The receive FIFO and smd_read implement the pipe: packets come out      *)
(* whole, once and in the order the RPM began them.                        *)
THEOREM ReceiveImplementsPipe == ASSUME ~Streaming PROVE Spec => ImplementsPipe
<1>1. Init => Pipe!Init
  BY DEF Init, Pipe!Init
<1>2. QED
  BY <1>1, InitIInv, NextIInv, StepRefines, PTL DEF Spec, ImplementsPipe, Pipe!Spec
=============================================================================

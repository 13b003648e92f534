----------------------------- MODULE I2cQup_proofs -----------------------------
(***************************************************************************)
(* Proofs about qup_i2c_xfer (I2cQup), for every size of block and FIFO,   *)
(* every read limit and messages of every length:                          *)
(*   - what is stored in the buffers is what the slave sent, once and in   *)
(*     order, whatever errors come and go, for every array of messages;    *)
(*   - what reaches the bus is the messages byte by byte, for arrays in    *)
(*     which no third message follows two that are packed together.        *)
(* Both rest on one argument about the packing loop, by induction over its *)
(* turns.                                                                  *)
(***************************************************************************)
EXTENDS I2cQup, SequenceTheorems, WellFoundedInduction, TLAPS

Message == [addr : Nat, rd : BOOLEAN, len : Nat \ {0}]
Items == [tag : {"start", "data", "stop", "nop", "rec", "split"},
          msg : Nat, n : Nat, bytes : Nat]
Entry == [msg : Nat, pos : Nat, byte : Nat]  \* of got
LoopState == [msg : Nat, rem : Nat, pos : Nat, cnt : Nat, idx : Nat,
              carry : Seq(Items), filled : BOOLEAN, put : Seq(Items)]

(* Entries that ask for bytes: none in q, or only the last one of q.  None *)
(* of them is a read parted from its start.                                *)
Silent(q) == \A i \in 1 .. Len(q) : q[i].tag # "split" /\ q[i].bytes = 0
Asking(q) == \A i \in 1 .. Len(q) : q[i].tag # "split" /\ (i < Len(q) => q[i].bytes = 0)
LastBytes(q) == IF q = <<>> THEN 0 ELSE q[Len(q)].bytes

(* The most a read command at place p of message m asks for.               *)
Chunk(m, p) == Min({msgs[m].len - p, ReadLimit})

-----------------------------------------------------------------------------
(* Where the driver stands in the array.                                   *)
Looping == pc \in {"pause", "fill", "run", "check", "end"}
Working == Looping \/ pc \in {"message", "ready"}
(* The read command of the message at hand is in the FIFO or beyond.       *)
Issued == Looping /\ msgs[msg].rd /\ filled

ArrayOK ==
  /\ pc \in {"idle", "message", "pause", "fill", "run", "check", "end", "ready", "recover", "out"}
  /\ msgs \in Seq(Message) /\ ret \in {"none", "num", "error"} /\ filled \in BOOLEAN
  /\ pc = "idle" => pos = 0 /\ cnt = 0
  /\ Working => /\ msg \in 1 .. Len(msgs) + 1 /\ rem = Len(msgs) - msg + 1
                /\ pos \in Nat /\ cnt \in Nat
                /\ msg <= Len(msgs) => pos <= msgs[msg].len
                /\ ret = "none"
  /\ pc \in {"message", "ready"} =>
       IF msg <= Len(msgs) THEN pos < msgs[msg].len ELSE pc = "ready" /\ pos = 0
  /\ Looping => /\ msg <= Len(msgs) /\ devmsg = msg
                /\ wr_sz \in Nat /\ wr_sz % 2 = 0 /\ wr_sz > 2
                /\ ~msgs[msg].rd => cnt = msgs[msg].len - pos
                /\ msgs[msg].rd => pos + cnt <= msgs[msg].len
                /\ Issued \/ ~msgs[msg].rd \/ cnt = Chunk(msg, pos)
                /\ pc \in {"pause", "fill"} => cnt > 0
                /\ pc \in {"run", "check", "end"} => filled \/ ~msgs[msg].rd
                /\ pc = "end" => cnt = 0
  /\ pc \notin {"message"} /\ ~Working /\ ret = "num" => msg = Len(msgs) + 1 /\ pos = 0

(* Bytes that were asked for and are not stored yet.                       *)
Coming == due + Len(infifo) + LastBytes(out)
(* An error has emptied the FIFOs, or they had no room for the command:    *)
(* the bytes at hand will not come.                                        *)
Lost == Issued /\ Coming # cnt
Sound == (Working /\ ~Lost) \/ (~Working /\ ret = "num")

ComingOK ==
  /\ out \in Seq(Items) /\ infifo \in Seq(Nat) /\ due \in Nat /\ sent \in Nat
  /\ Working \/ ret = "num" =>
       /\ Asking(out)
       /\ IF Issued THEN Coming = cnt \/ (Coming = 0 /\ cnt > 0) ELSE Coming = 0
  /\ Sound => /\ sent = Len(got) + Len(infifo)
              /\ \A i \in 1 .. Len(infifo) : infifo[i] = Len(got) + i

(* What is stored so far: all up to the place the driver stands at.        *)
Stored(m, p, e) == e.msg = m /\ e.pos = p
Precedes(e, f) == e.msg < f.msg \/ (e.msg = f.msg /\ e.pos < f.pos)
Passed(m, p) == m < msg \/ (m = msg /\ p <= pos)
GotOK ==
  /\ got \in Seq(Entry)
  /\ Working \/ ret = "num" =>
       /\ \A i \in 1 .. Len(got) :
            /\ got[i].byte = i /\ got[i].msg \in 1 .. Len(msgs) /\ msgs[got[i].msg].rd
            /\ Passed(got[i].msg, got[i].pos)
            /\ i > 1 => Precedes(got[i - 1], got[i])
       /\ \A m \in 1 .. Len(msgs) : msgs[m].rd =>
            \A p \in 1 .. msgs[m].len : Passed(m, p) =>
              \E i \in 1 .. Len(got) : Stored(m, p, got[i])

ReadInv == ArrayOK /\ ComingOK /\ GotOK

-----------------------------------------------------------------------------
(* The bus.  Entry x may follow entry e: it is what is due, or a filler    *)
(* that leaves the place as it is.                                         *)
Joins(e, x) ==
  \/ x.tag = "nop" /\ x.msg = e.msg /\ x.n = e.n /\ e.tag # "start"
  \/ x.tag # "nop" /\ Plain(x) = Following(e)
Chained(q) == \A i \in 1 .. Len(q) - 1 : Joins(q[i], q[i + 1])

(* Entries of messages there are, with a stop only where one belongs.      *)
Placed(e) ==
  /\ e.msg \in 1 .. Len(msgs)
  /\ e.tag = "stop" => /\ e.n = msgs[e.msg].len
                       /\ e.msg < Len(msgs) => msgs[e.msg + 1].addr # msgs[e.msg].addr
AllPlaced(q) == \A i \in 1 .. Len(q) : Placed(q[i])

(* Places on the way through the array: between entries of message m,      *)
(* after n bytes, or after a start there.  At(m + 1, 0) is also where      *)
(* message m has ended.                                                    *)
At(m, n) == [msg |-> m, n |-> n, begun |-> FALSE]
Begun(m, n) == [msg |-> m, n |-> n, begun |-> TRUE]

(* Entry e has taken the bus to place a.                                   *)
Reached(e, a) ==
  IF a.begun THEN e.tag = "start" /\ e.msg = a.msg /\ e.n = a.n
  ELSE /\ e.tag # "start"
       /\ IF a.n = 0 THEN e.msg = a.msg - 1 /\ e.n = msgs[e.msg].len
          ELSE e.msg = a.msg /\ e.n = a.n

(* Entry x is due at place a.                                              *)
DueAt(a) ==
  CASE msgs[a.msg].rd /\ a.begun -> Command("rec", a.msg, a.n, Chunk(a.msg, a.n))
    [] ~msgs[a.msg].rd /\ (a.begun \/ a.n > 0) -> Item("data", a.msg, a.n + 1)
    [] ~a.begun /\ (msgs[a.msg].rd \/ a.n = 0) -> Item("start", a.msg, a.n)
Due(x, a) ==
  \/ x.tag = "nop" /\ ~a.begun /\ a.n > 0 /\ x.msg = a.msg /\ x.n = a.n
  \/ x.tag # "nop" /\ a.n < msgs[a.msg].len /\ Plain(x) = DueAt(a)

(* The entries of q lead from place a to place b.                          *)
Path(q, a, b) ==
  IF q = <<>> THEN a = b
  ELSE Due(q[1], a) /\ Reached(q[Len(q)], b) /\ Chained(q) /\ AllPlaced(q)

(* The entries the driver has issued lead to the driver's place.           *)
Place == At(msg, IF Issued THEN pos + cnt ELSE pos)
UpTo(a) ==
  IF out # <<>> THEN Reached(out[Len(out)], a)
  ELSE IF wire # <<>> THEN Reached(wire[Len(wire)], a)
  ELSE a = At(1, 0)

QuietOK ==
  /\ clean => flagged = "none" /\ err = "none"
  /\ pc = "idle" => masked /\ err = "none"
  /\ pc = "recover" => ~clean /\ ret = "error"
  /\ clean /\ (pc \in {"check", "end"} \/ (pc = "ready" /\ rem = 0)) => qstate = "run"

BusOK ==
  clean =>
    /\ wire \in Seq(Items) /\ AllPlaced(wire) /\ AllPlaced(out)
    /\ \A i \in 1 .. Len(wire) :
         wire[i].tag # "nop" /\ Plain(wire[i]) = IF i = 1 THEN Item("start", 1, 0) ELSE Following(wire[i - 1])
    /\ Chained(out)
    /\ out # <<>> => IF wire = <<>> THEN out[1] = Item("start", 1, 0)
                     ELSE Joins(wire[Len(wire)], out[1])
    /\ Working \/ ret = "num" => UpTo(Place) /\ msgs # <<>>
    /\ ~Working /\ ret = "num" => out = <<>> /\ due = 0

-----------------------------------------------------------------------------
(* Numbers and sequences.                                                  *)

LEMMA SumWithin ==
  ASSUME NEW a \in Nat, NEW b \in Nat, NEW c \in Nat
  PROVE  (a + b <= c => a <= c) /\ (a + b = c => b = c - a)
OBVIOUS

LEMMA MinOfTwo == ASSUME NEW a \in Int, NEW b \in Int
                  PROVE  Min({a, b}) = IF a <= b THEN a ELSE b
<1>1. \E x \in {a, b} : \A y \in {a, b} : x =< y
  OBVIOUS
<1>2. Min({a, b}) \in {a, b} /\ \A y \in {a, b} : Min({a, b}) =< y
  BY <1>1, Zenon DEF Min
<1>3. QED
  BY <1>2

LEMMA MaxOfTwo == ASSUME NEW a \in Int, NEW b \in Int
                  PROVE  Max({a, b}) = IF a >= b THEN a ELSE b
<1>1. \E x \in {a, b} : \A y \in {a, b} : x >= y
  OBVIOUS
<1>2. Max({a, b}) \in {a, b} /\ \A y \in {a, b} : Max({a, b}) >= y
  BY <1>1, Zenon DEF Max
<1>3. QED
  BY <1>2

LEMMA LeastNumber ==
  ASSUME NEW S \in SUBSET Nat, S # {}
  PROVE  \E m \in S : \A n \in S : m <= n
<1>1. PICK m \in S : \A n \in S : ~(<<n, m>> \in OpToRel(<, Nat))
  BY NatLessThanWellFounded, WFMin, Zenon
<1>2. ASSUME NEW n \in S PROVE m <= n
  <2>1. n < m => <<n, m>> \in OpToRel(<, Nat)
    BY DEF OpToRel
  <2>2. ~(n < m)
    BY <1>1, <2>1, Zenon
  <2>3. n \in Nat /\ m \in Nat
    OBVIOUS
  <2>4. QED
    BY <2>2, <2>3
<1>3. QED
  BY <1>2

LEMMA SilentConcat ==
  ASSUME NEW a \in Seq(Items), NEW b \in Seq(Items), Silent(a), Silent(b)
  PROVE  a \o b \in Seq(Items) /\ Silent(a \o b)
<1>1. /\ a \o b \in Seq(Items) /\ Len(a \o b) = Len(a) + Len(b) /\ Len(a) \in Nat /\ Len(b) \in Nat
      /\ \A i \in 1 .. Len(a) + Len(b) : (a \o b)[i] = IF i <= Len(a) THEN a[i] ELSE b[i - Len(a)]
  BY ConcatProperties, LenProperties
<1>2. ASSUME NEW i \in 1 .. Len(a \o b) PROVE (a \o b)[i].tag # "split" /\ (a \o b)[i].bytes = 0
  <2>1. CASE i <= Len(a)
    <3>1. i \in 1 .. Len(a) /\ (a \o b)[i] = a[i]
      BY <1>1, <2>1
    <3>2. QED
      BY <3>1 DEF Silent
  <2>2. CASE ~(i <= Len(a))
    <3>1. i - Len(a) \in 1 .. Len(b) /\ (a \o b)[i] = b[i - Len(a)]
      BY <1>1, <2>2
    <3>2. QED
      BY <3>1 DEF Silent
  <2>3. QED
    BY <2>1, <2>2
<1>3. QED
  BY <1>1, <1>2 DEF Silent

LEMMA AskingConcat ==
  ASSUME NEW a \in Seq(Items), NEW b \in Seq(Items), Silent(a), Asking(b)
  PROVE  /\ a \o b \in Seq(Items) /\ Asking(a \o b)
         /\ LastBytes(a \o b) = LastBytes(b)
<1>1. /\ a \o b \in Seq(Items) /\ Len(a \o b) = Len(a) + Len(b) /\ Len(a) \in Nat /\ Len(b) \in Nat
      /\ \A i \in 1 .. Len(a) + Len(b) : (a \o b)[i] = IF i <= Len(a) THEN a[i] ELSE b[i - Len(a)]
  BY ConcatProperties, LenProperties
<1>2. ASSUME NEW i \in 1 .. Len(a \o b)
      PROVE  (a \o b)[i].tag # "split" /\ (i < Len(a \o b) => (a \o b)[i].bytes = 0)
  <2>1. CASE i <= Len(a)
    <3>1. i \in 1 .. Len(a) /\ (a \o b)[i] = a[i]
      BY <1>1, <2>1
    <3>2. QED
      BY <3>1 DEF Silent
  <2>2. CASE ~(i <= Len(a))
    <3>1. /\ i - Len(a) \in 1 .. Len(b) /\ (a \o b)[i] = b[i - Len(a)]
          /\ i < Len(a \o b) => i - Len(a) < Len(b)
      BY <1>1, <2>2
    <3>2. QED
      BY <3>1 DEF Asking
  <2>3. QED
    BY <2>1, <2>2
<1>3. LastBytes(a \o b) = LastBytes(b)
  <2>1. CASE b = <<>>
    <3>1. a \o b = a /\ Len(b) = 0
      BY <2>1, ConcatEmptySeq
    <3>2. a # <<>> => Len(a) \in 1 .. Len(a)
      BY EmptySeq
    <3>3. QED
      BY <2>1, <3>1, <3>2 DEF LastBytes, Silent
  <2>2. CASE b # <<>>
    <3>1. Len(b) \in Nat \ {0}
      BY <2>2, EmptySeq
    <3>2. a \o b # <<>> /\ (a \o b)[Len(a \o b)] = b[Len(b)]
      <4>1. Len(a \o b) \in 1 .. Len(a) + Len(b) /\ ~(Len(a \o b) <= Len(a)) /\ Len(a \o b) - Len(a) = Len(b)
        BY <1>1, <3>1
      <4>2. a \o b # <<>>
        BY <1>1, <4>1
      <4>3. QED
        BY <1>1, <4>1, <4>2
    <3>3. QED
      BY <2>2, <3>2 DEF LastBytes
  <2>3. QED
    BY <2>1, <2>2
<1>4. QED
  BY <1>1, <1>2, <1>3 DEF Asking

(* A prefix of a command sequence asks for the same bytes or for none.     *)
LEMMA AskingPrefix ==
  ASSUME NEW q \in Seq(Items), Asking(q), NEW k \in Int, k <= Len(q)
  PROVE  /\ SubSeq(q, 1, k) \in Seq(Items) /\ Asking(SubSeq(q, 1, k))
         /\ LastBytes(SubSeq(q, 1, k)) = 0 \/ LastBytes(SubSeq(q, 1, k)) = LastBytes(q)
         /\ k = Len(q) => LastBytes(SubSeq(q, 1, k)) = LastBytes(q)
<1>1. Len(q) \in Nat /\ \A i \in 1 .. k : q[i] \in Items
  <2>1. Len(q) \in Nat
    BY LenProperties
  <2>2. \A i \in 1 .. k : i \in 1 .. Len(q)
    BY <2>1
  <2>3. QED
    BY <2>1, <2>2, ElementOfSeq
<1> DEFINE p == SubSeq(q, 1, k)
<1>2. /\ p \in Seq(Items) /\ Len(p) = IF 1 <= k THEN k ELSE 0
      /\ \A i \in 1 .. k : p[i] = q[i]
  <2>1. /\ p \in Seq(Items) /\ Len(p) = IF 1 <= k THEN k - 1 + 1 ELSE 0
        /\ \A i \in 1 .. k - 1 + 1 : p[i] = q[1 + i - 1]
    BY <1>1, SubSeqProperties
  <2>2. QED
    BY <2>1
<1> HIDE DEF p
<1>3. \A i \in 1 .. Len(p) : i \in 1 .. Len(q) /\ i \in 1 .. k /\ (i < Len(p) => i < Len(q))
  BY <1>1, <1>2
<1>4. Asking(p)
  BY <1>2, <1>3 DEF Asking
<1>5. CASE 1 <= k
  <2>1. p # <<>> /\ p[Len(p)] = q[k] /\ q # <<>>
    <3>1. k \in 1 .. k /\ Len(p) = k /\ Len(p) # 0 /\ Len(q) # 0
      BY <1>1, <1>2, <1>5
    <3>2. QED
      BY <1>2, <3>1, EmptySeq
  <2>2. k < Len(q) => q[k].bytes = 0
    BY <1>1, <1>5 DEF Asking
  <2>3. LastBytes(p) = q[k].bytes /\ LastBytes(q) = q[Len(q)].bytes
    BY <2>1 DEF LastBytes
  <2>4. k < Len(q) \/ k = Len(q)
    BY <1>1
  <2>5. QED
    BY <1>2, <1>4, <2>2, <2>3, <2>4 DEF p
<1>6. CASE ~(1 <= k)
  <2>1. p = <<>>
    <3>1. Len(p) = 0
      BY <1>2, <1>6
    <3>2. QED
      BY <1>2, <3>1, EmptySeq
  <2>2. k = Len(q) => q = <<>>
    BY <1>1, <1>6, EmptySeq
  <2>3. QED
    BY <1>2, <1>4, <2>1, <2>2 DEF p, LastBytes
<1>7. QED
  BY <1>5, <1>6

-----------------------------------------------------------------------------
(* The packing loop.                                                       *)

(* The driver at the start of it.                                          *)
AtFill ==
  /\ msgs \in Seq(Message) /\ msg \in 1 .. Len(msgs) /\ rem = Len(msgs) - msg + 1
  /\ wr_sz \in Nat /\ wr_sz % 2 = 0 /\ wr_sz > 2
  /\ pos \in Nat /\ cnt \in Nat \ {0} /\ pos + cnt <= msgs[msg].len
  /\ msgs[msg].rd => cnt = Chunk(msg, pos)
  /\ ~msgs[msg].rd => cnt = msgs[msg].len - pos
  /\ filled = FALSE

(* Before a turn: the message at hand is still to be issued, and if it     *)
(* reads, start and command fit into the block.                            *)
Pending(s) ==
  /\ ~s.filled
  /\ s.idx < wr_sz /\ s.cnt > 0 /\ s.pos + s.cnt <= msgs[s.msg].len
  /\ s.msg = msg => s.pos = pos /\ s.idx = 0 /\ s.put = <<>> /\ s.carry = <<>>
  /\ s.msg # msg => s.pos = 0
  /\ Silent(s.put) /\ Silent(s.carry)
  /\ msgs[s.msg].rd => s.idx + 1 < wr_sz /\ s.cnt = Chunk(s.msg, s.pos)
  /\ s.msg = msg /\ ~msgs[s.msg].rd => s.cnt = msgs[s.msg].len - s.pos

(* After the last one: it is issued.                                       *)
Ready(s) ==
  /\ s.filled
  /\ msgs[s.msg].rd => /\ Asking(s.put) /\ LastBytes(s.put) = s.cnt /\ s.cnt > 0
                       /\ s.pos = IF s.msg = msg THEN pos ELSE 0
                       /\ s.pos + s.cnt <= msgs[s.msg].len
  /\ ~msgs[s.msg].rd => /\ Silent(s.put)
                        /\ s.pos > 0 /\ s.pos + s.cnt = msgs[s.msg].len

(* The messages passed on the way all write.                               *)
Along(s) ==
  /\ s \in LoopState
  /\ s.msg \in msg .. Len(msgs) /\ s.rem = Len(msgs) - s.msg + 1
  /\ \A m \in msg .. s.msg - 1 : ~msgs[m].rd

LoopOK(s) == Along(s) /\ (Pending(s) \/ Ready(s))

LEMMA MessageType ==
  ASSUME AtFill, NEW m \in msg .. Len(msgs)
  PROVE  msgs[m] \in Message /\ msgs[m].len \in Nat \ {0} /\ msgs[m].rd \in BOOLEAN
<1>1. Len(msgs) \in Nat /\ m \in 1 .. Len(msgs)
  BY LenProperties DEF AtFill
<1>2. msgs[m] \in Message
  BY <1>1, ElementOfSeq DEF AtFill
<1>3. QED
  BY <1>2 DEF Message

LEMMA ChunkType ==
  ASSUME NEW m, NEW p, msgs[m].len \in Nat, p \in Nat, p < msgs[m].len
  PROVE  Chunk(m, p) \in Nat \ {0} /\ p + Chunk(m, p) <= msgs[m].len
<1>1. Chunk(m, p) = IF msgs[m].len - p <= ReadLimit THEN msgs[m].len - p ELSE ReadLimit
  BY MinOfTwo, QupAssumption DEF Chunk
<1>2. QED
  BY <1>1, QupAssumption

LEMMA FirstTurn == ASSUME AtFill PROVE LoopOK(Unpacked) /\ Pending(Unpacked) /\ Unpacked.msg = msg
<1>1. /\ Unpacked.msg = msg /\ Unpacked.rem = rem /\ Unpacked.pos = pos /\ Unpacked.cnt = cnt
      /\ Unpacked.idx = 0 /\ Unpacked.carry = <<>> /\ Unpacked.filled = FALSE /\ Unpacked.put = <<>>
  BY DEF Unpacked, AtFill
<1>2. Len(msgs) \in Nat /\ <<>> \in Seq(Items) /\ Len(<<>>) = 0
  BY LenProperties, EmptySeq DEF AtFill
<1>3. Silent(<<>>)
  BY DEF Silent
<1>4. msg \in Nat /\ rem \in Nat
  BY <1>2 DEF AtFill
<1>5. Unpacked \in LoopState
  BY <1>2, <1>4 DEF Unpacked, LoopState, AtFill
<1>6. Along(Unpacked)
  BY <1>1, <1>2, <1>4, <1>5 DEF Along, AtFill
<1>7. Pending(Unpacked)
  BY <1>1, <1>3 DEF Pending, AtFill
<1>8. QED
  BY <1>1, <1>6, <1>7 DEF LoopOK

(* The half word that is held goes out unchanged.                          *)
LEMMA HeldType ==
  ASSUME NEW s \in LoopState, Silent(s.carry)
  PROVE  Held(s) \in Seq(Items) /\ Silent(Held(s))
<1>1. s.carry \in Seq(Items) /\ <<>> \in Seq(Items) /\ Len(<<>>) = 0
  BY EmptySeq DEF LoopState
<1>2. QED
  BY <1>1 DEF Held, Silent

LEMMA TwoEntries ==
  ASSUME NEW a \in Items, NEW b \in Items, a.tag # "split", b.tag # "split", a.bytes = 0
  PROVE  <<a, b>> \in Seq(Items) /\ Asking(<<a, b>>) /\ LastBytes(<<a, b>>) = b.bytes
<1>1. Len(<<a, b>>) = 2 /\ <<a, b>>[1] = a /\ <<a, b>>[2] = b /\ <<a, b>> # <<>>
  OBVIOUS
<1>2. \A i \in 1 .. 2 : i = 1 \/ i = 2
  OBVIOUS
<1>3. QED
  BY <1>1, <1>2 DEF Asking, LastBytes

LEMMA Appended ==
  ASSUME NEW S, NEW q \in Seq(S), NEW r \in Seq(S), NEW t, t = q \o r
  PROVE  /\ t \in Seq(S) /\ Len(t) = Len(q) + Len(r) /\ Len(q) \in Nat
         /\ \A i \in 1 .. Len(q) + Len(r) : t[i] = IF i <= Len(q) THEN q[i] ELSE r[i - Len(q)]
BY ConcatProperties, LenProperties

LEMMA ItemsAssociative ==
  ASSUME NEW q \in Seq(Items), NEW r \in Seq(Items), NEW t \in Seq(Items)
  PROVE  (q \o r) \o t = q \o (r \o t)
BY ConcatAssociative

LEMMA ItemTypes ==
  ASSUME NEW m \in Nat, NEW n \in Nat
  PROVE  \A tag \in {"start", "data", "stop", "nop"} :
           /\ Item(tag, m, n) \in Items /\ Item(tag, m, n).tag = tag
           /\ Item(tag, m, n).msg = m /\ Item(tag, m, n).n = n /\ Item(tag, m, n).bytes = 0
BY DEF Item, Items

(* A read ends the loop.                                                   *)
LEMMA ReadIssued ==
  ASSUME AtFill, NEW s, LoopOK(s), Pending(s), msgs[s.msg].rd
  PROVE  /\ LoopOK(Issue(s)) /\ Issue(s).filled
         /\ Issue(s).msg = s.msg /\ Issue(s).pos = s.pos /\ Issue(s).cnt = s.cnt
         /\ Issue(s).put = s.put \o Held(s) \o <<Item("start", s.msg, s.pos), Command("rec", s.msg, s.pos, s.cnt)>>
<1> DEFINE start == Item("start", s.msg, s.pos)
           rec == Command("rec", s.msg, s.pos, s.cnt)
           put == s.put \o Held(s) \o <<start, rec>>
           u == [s EXCEPT !.idx = s.idx + 2, !.put = put]
<1>1. /\ s \in LoopState /\ s.msg \in msg .. Len(msgs) /\ s.put \in Seq(Items)
      /\ s.msg \in Nat /\ s.pos \in Nat /\ s.cnt \in Nat /\ s.idx \in Nat /\ s.filled = FALSE
  BY DEF LoopOK, Along, LoopState, Pending
<1>2. IssueRead(s) = u
  <2>1. ~(s.idx + 1 >= wr_sz)
    BY <1>1 DEF Pending, AtFill
  <2>2. QED
    BY <2>1 DEF IssueRead
<1>3. Issue(s) = [u EXCEPT !.filled = TRUE]
  <2>1. u.msg = s.msg
    BY <1>1 DEF LoopState
  <2>2. QED
    BY <1>2, <2>1 DEF Issue, NextToFill
<1>4. put \in Seq(Items) /\ Asking(put) /\ LastBytes(put) = s.cnt
  <2>1. Held(s) \in Seq(Items) /\ Silent(Held(s)) /\ Silent(s.put)
    BY <1>1, HeldType DEF Pending
  <2>2. s.put \o Held(s) \in Seq(Items) /\ Silent(s.put \o Held(s))
    BY <1>1, <2>1, SilentConcat
  <2>3. /\ start \in Items /\ rec \in Items /\ start.tag # "split" /\ rec.tag # "split"
        /\ start.bytes = 0 /\ rec.bytes = s.cnt
    BY <1>1 DEF Item, Command, Items
  <2> HIDE DEF start, rec
  <2>4. <<start, rec>> \in Seq(Items) /\ Asking(<<start, rec>>) /\ LastBytes(<<start, rec>>) = s.cnt
    BY <2>3, TwoEntries
  <2>5. QED
    BY <2>2, <2>4, AskingConcat
<1> HIDE DEF put
<1>5. /\ u \in LoopState /\ u.msg = s.msg /\ u.rem = s.rem /\ u.pos = s.pos /\ u.cnt = s.cnt
      /\ u.put = put
  <2>1. s.idx + 2 \in Nat
    BY <1>1
  <2>2. QED
    BY <1>1, <1>4, <2>1 DEF LoopState
<1> DEFINE v == [u EXCEPT !.filled = TRUE]
<1> HIDE DEF u
<1>6. /\ v \in LoopState /\ v.msg = s.msg /\ v.rem = s.rem /\ v.pos = s.pos /\ v.cnt = s.cnt
      /\ v.filled = TRUE /\ v.put = put
  BY <1>5 DEF LoopState
<1> HIDE DEF v
<1>7. Along(v)
  BY <1>6 DEF LoopOK, Along
<1>8. Ready(v)
  BY <1>1, <1>4, <1>6 DEF Ready, Pending
<1>9. Issue(s) = v
  BY <1>3 DEF v
<1>10. QED
  BY <1>6, <1>7, <1>8, <1>9 DEF LoopOK, put

(* What one turn of qup_issue_write puts, and its four ways to end: the    *)
(* last byte fills a word or ends the array, is followed by a filler, is   *)
(* a stop in a word of its own, or waits for its other half.               *)
Bytes(s) == Max({Min({s.cnt + 1, wr_sz - s.idx}) - 1, 1})
Slot(s) == s.idx + Bytes(s)
End(s) == s.pos + Bytes(s)
Lead(s) == IF s.pos = 0 THEN Held(s) \o <<Item("start", s.msg, 0)>>
           ELSE <<Item("nop", s.msg, s.pos)>>
Body(s) == Lead(s) \o [i \in 1 .. Bytes(s) - 1 |-> Item("data", s.msg, s.pos + i)]
Final(s) == Item(IF End(s) < msgs[s.msg].len \/ s.rem > 1 THEN "data" ELSE "stop", s.msg, End(s))
Filler(s) == Item("nop", s.msg, End(s))
Stop(s) == Item("stop", s.msg, End(s))
AddressEnds(s) ==
  End(s) = msgs[s.msg].len /\ Slot(s) < wr_sz /\ msgs[s.msg + 1].addr # msgs[s.msg].addr

Written(s, tail, width, carry) ==
  [s EXCEPT !.put = s.put \o Body(s) \o tail, !.idx = Slot(s) + width, !.carry = carry,
            !.pos = End(s), !.cnt = msgs[s.msg].len - End(s)]

Whole(s, u) == u = Written(s, <<Final(s)>>, 1, s.carry) /\ (Odd(Slot(s)) \/ s.rem <= 1)
Filled(s, u) == u = Written(s, <<Final(s), Filler(s)>>, 2, s.carry) /\ ~Odd(Slot(s)) /\ ReadLeftOne(s, Slot(s))
Stopped(s, u) ==
  /\ u = Written(s, <<Stop(s)>>, 2, s.carry) /\ ~Odd(Slot(s)) /\ s.rem > 1 /\ AddressEnds(s)
Halved(s, u) ==
  /\ u = Written(s, <<>>, 1, <<Final(s)>>) /\ ~Odd(Slot(s)) /\ s.rem > 1
  /\ ~ReadLeftOne(s, Slot(s)) /\ ~AddressEnds(s)

LEMMA WriteCases ==
  ASSUME NEW s, s.rem \in Int, NEW u, u = IssueWrite(s)
  PROVE  Whole(s, u) \/ Filled(s, u) \/ Stopped(s, u) \/ Halved(s, u)
<1>1. CASE Odd(Slot(s)) \/ s.rem <= 1
  <2>1. u = Written(s, <<Final(s)>>, 1, s.carry)
    BY <1>1 DEF IssueWrite, Written, Body, Lead, Bytes, Slot, End, Final, ReadLeftOne
  <2>2. QED
    BY <1>1, <2>1 DEF Whole
<1>2. CASE ~Odd(Slot(s)) /\ s.rem > 1 /\ ReadLeftOne(s, Slot(s))
  <2>1. u = Written(s, <<Final(s), Filler(s)>>, 2, s.carry)
    BY <1>2 DEF IssueWrite, Written, Body, Lead, Bytes, Slot, End, Final, Filler
  <2>2. QED
    BY <1>2, <2>1 DEF Filled
<1>3. CASE ~Odd(Slot(s)) /\ s.rem > 1 /\ ~ReadLeftOne(s, Slot(s)) /\ AddressEnds(s)
  <2>1. u = Written(s, <<Stop(s)>>, 2, s.carry)
    BY <1>3 DEF IssueWrite, Written, Body, Lead, Bytes, Slot, End, Final, Stop, AddressEnds
  <2>2. QED
    BY <1>3, <2>1 DEF Stopped
<1>4. CASE ~Odd(Slot(s)) /\ s.rem > 1 /\ ~ReadLeftOne(s, Slot(s)) /\ ~AddressEnds(s)
  <2>1. u = Written(s, <<>>, 1, <<Final(s)>>)
    BY <1>4 DEF IssueWrite, Written, Body, Lead, Bytes, Slot, End, Final, AddressEnds
  <2>2. QED
    BY <1>4, <2>1 DEF Halved
<1>5. s.rem <= 1 \/ s.rem > 1
  OBVIOUS
<1>6. QED
  BY <1>1, <1>2, <1>3, <1>4, <1>5

(* How much a turn takes: a byte at least, and up to the end of the        *)
(* message or of the block.                                                *)
LEMMA BytesRange ==
  ASSUME AtFill, NEW s, LoopOK(s), Pending(s)
  PROVE  /\ Bytes(s) \in 1 .. s.cnt
         /\ Slot(s) \in Nat /\ End(s) \in Nat \ {0} /\ End(s) <= msgs[s.msg].len
         /\ IF s.idx = wr_sz - 1 THEN Slot(s) = wr_sz ELSE Slot(s) <= wr_sz - 1
         /\ Slot(s) < wr_sz - 1 => Bytes(s) = s.cnt
<1>1. /\ s.cnt \in Nat \ {0} /\ s.idx \in Nat /\ s.pos \in Nat /\ wr_sz \in Nat /\ s.idx < wr_sz
      /\ s.pos + s.cnt <= msgs[s.msg].len /\ msgs[s.msg].len \in Nat
  <2>1. s \in LoopState /\ s.msg \in msg .. Len(msgs)
    BY DEF LoopOK, Along
  <2>2. msgs[s.msg].len \in Nat
    BY <2>1, MessageType
  <2>3. s.cnt > 0 /\ s.idx < wr_sz /\ s.pos + s.cnt <= msgs[s.msg].len /\ wr_sz \in Nat
    BY DEF Pending, AtFill
  <2>4. s.cnt \in Nat /\ s.idx \in Nat /\ s.pos \in Nat
    BY <2>1 DEF LoopState
  <2>5. QED
    BY <2>2, <2>3, <2>4
<1> DEFINE e == IF s.cnt + 1 <= wr_sz - s.idx THEN s.cnt + 1 ELSE wr_sz - s.idx
<1>2. Min({s.cnt + 1, wr_sz - s.idx}) = e
  BY <1>1, MinOfTwo
<1>3. e \in Nat \ {0}
  BY <1>1
<1>4. Bytes(s) = IF e - 1 >= 1 THEN e - 1 ELSE 1
  <2> HIDE DEF e
  <2>1. e - 1 \in Int /\ Bytes(s) = Max({e - 1, 1})
    BY <1>2, <1>3 DEF Bytes
  <2>2. QED
    BY <2>1, MaxOfTwo
<1>5. /\ Bytes(s) \in 1 .. s.cnt
      /\ IF s.idx = wr_sz - 1 THEN Bytes(s) = 1 ELSE s.idx + Bytes(s) <= wr_sz - 1
      /\ s.idx + Bytes(s) < wr_sz - 1 => Bytes(s) = s.cnt
  BY <1>1, <1>4
<1>6. QED
  BY <1>1, <1>5 DEF Slot, End

(* The entries a turn puts are of their kinds.                             *)
LEMMA WrittenItems ==
  ASSUME AtFill, NEW s, LoopOK(s), Pending(s), ~msgs[s.msg].rd
  PROVE  /\ Body(s) \in Seq(Items) /\ Silent(Body(s))
         /\ \A x \in {Final(s), Filler(s), Stop(s)} :
              x \in Items /\ x.tag # "split" /\ x.bytes = 0
<1>1. /\ s \in LoopState /\ s.msg \in Nat /\ s.pos \in Nat /\ s.idx \in Nat
      /\ Silent(s.carry)
  BY DEF LoopOK, Along, LoopState, Pending
<1>2. Bytes(s) \in Nat \ {0} /\ End(s) \in Nat
  <2>1. Bytes(s) \in 1 .. s.cnt /\ End(s) \in Nat
    BY BytesRange
  <2>2. QED
    BY <2>1, <1>1 DEF LoopState
<1>3. \A n \in Nat : \A tag \in {"start", "data", "stop", "nop"} :
        Item(tag, s.msg, n) \in Items /\ Item(tag, s.msg, n).tag # "split" /\ Item(tag, s.msg, n).bytes = 0
  BY <1>1 DEF Item, Items
<1>4. Lead(s) \in Seq(Items) /\ Silent(Lead(s))
  <2>1. \A x \in Items : x.tag # "split" /\ x.bytes = 0 => <<x>> \in Seq(Items) /\ Silent(<<x>>)
    <3> TAKE x \in Items
    <3> HAVE x.tag # "split" /\ x.bytes = 0
    <3>1. Len(<<x>>) = 1 /\ <<x>>[1] = x /\ <<x>> \in Seq(Items)
      OBVIOUS
    <3>2. QED
      BY <3>1 DEF Silent
  <2>2. CASE s.pos = 0
    <3>1. Held(s) \in Seq(Items) /\ Silent(Held(s))
      BY <1>1, HeldType
    <3>2. <<Item("start", s.msg, 0)>> \in Seq(Items) /\ Silent(<<Item("start", s.msg, 0)>>)
      BY <1>3, <2>1
    <3>3. QED
      BY <2>2, <3>1, <3>2, SilentConcat DEF Lead
  <2>3. CASE s.pos # 0
    <3>1. <<Item("nop", s.msg, s.pos)>> \in Seq(Items) /\ Silent(<<Item("nop", s.msg, s.pos)>>)
      BY <1>1, <1>3, <2>1
    <3>2. QED
      BY <2>3, <3>1 DEF Lead
  <2>4. QED
    BY <2>2, <2>3
<1> DEFINE data == [i \in 1 .. Bytes(s) - 1 |-> Item("data", s.msg, s.pos + i)]
<1>5. data \in Seq(Items) /\ Silent(data)
  <2>1. Bytes(s) - 1 \in Nat
    BY <1>2
  <2>2. \A i \in 1 .. Bytes(s) - 1 : s.pos + i \in Nat
    BY <1>1, <2>1
  <2>3. \A i \in 1 .. Bytes(s) - 1 :
          Item("data", s.msg, s.pos + i) \in Items /\ Item("data", s.msg, s.pos + i).tag # "split"
          /\ Item("data", s.msg, s.pos + i).bytes = 0
    BY <1>3, <2>2
  <2>4. data \in Seq(Items) /\ Len(data) = Bytes(s) - 1
    BY <2>1, <2>3, IsASeq, LenProperties
  <2>5. QED
    BY <2>3, <2>4 DEF Silent
<1>6. Body(s) = Lead(s) \o data
  BY DEF Body
<1> HIDE DEF data
<1>7. Body(s) \in Seq(Items) /\ Silent(Body(s))
  BY <1>4, <1>5, <1>6, SilentConcat
<1>8. QED
  BY <1>2, <1>3, <1>7 DEF Final, Filler, Stop

(* A turn of qup_issue_write: the state it leaves to the end of the turn.  *)
Turn(s, u, tail, width, carry) ==
  /\ u \in LoopState
  /\ u.msg = s.msg /\ u.rem = s.rem /\ u.filled = FALSE
  /\ u.pos = End(s) /\ u.cnt = msgs[s.msg].len - End(s)
  /\ u.idx = Slot(s) + width /\ u.carry = carry
  /\ u.put = s.put \o Body(s) \o tail /\ Silent(u.put)
LEMMA WriteTurn ==
  ASSUME AtFill, NEW s, LoopOK(s), Pending(s), ~msgs[s.msg].rd
  PROVE  \A width \in {1, 2} : \A tail, carry \in Seq(Items) : Silent(tail) /\ Silent(carry) =>
           Turn(s, Written(s, tail, width, carry), tail, width, carry)
<1> TAKE width \in {1, 2}
<1> TAKE tail, carry \in Seq(Items)
<1> HAVE Silent(tail) /\ Silent(carry)
<1>0. PICK u : u = Written(s, tail, width, carry)
  OBVIOUS
<1>1. /\ s \in LoopState /\ s.put \in Seq(Items) /\ Silent(s.put) /\ s.filled = FALSE
      /\ s.msg \in msg .. Len(msgs)
  BY DEF LoopOK, Along, LoopState, Pending
<1>2. Body(s) \in Seq(Items) /\ Silent(Body(s))
  BY WrittenItems
<1>3. s.put \o Body(s) \in Seq(Items) /\ Silent(s.put \o Body(s))
  BY <1>1, <1>2, SilentConcat
<1>4. s.put \o Body(s) \o tail \in Seq(Items) /\ Silent(s.put \o Body(s) \o tail)
  BY <1>3, SilentConcat
<1>5. /\ Slot(s) + width \in Nat /\ End(s) \in Nat
      /\ msgs[s.msg].len - End(s) \in Nat
  <2>1. Slot(s) \in Nat /\ End(s) \in Nat /\ End(s) <= msgs[s.msg].len
    BY BytesRange
  <2>2. msgs[s.msg].len \in Nat
    BY <1>1, MessageType
  <2>3. QED
    BY <2>1, <2>2
<1> DEFINE put == s.put \o Body(s) \o tail
           idx == Slot(s) + width
           rest == msgs[s.msg].len - End(s)
           end == End(s)
<1>6. u = [s EXCEPT !.put = put, !.idx = idx, !.carry = carry, !.pos = end, !.cnt = rest]
  BY <1>0 DEF Written
<1>7. put \in Seq(Items) /\ idx \in Nat /\ end \in Nat /\ rest \in Nat /\ Silent(put)
  BY <1>4, <1>5
<1> HIDE DEF put, idx, rest, end
<1>8. /\ u \in LoopState /\ u.msg = s.msg /\ u.rem = s.rem /\ u.filled = FALSE
      /\ u.pos = end /\ u.cnt = rest /\ u.idx = idx /\ u.carry = carry /\ u.put = put
  BY <1>1, <1>6, <1>7 DEF LoopState
<1>9. QED
  BY <1>0, <1>7, <1>8 DEF put, idx, rest, end, Turn

LEMMA OneEntry ==
  ASSUME NEW x \in Items, x.tag # "split", x.bytes = 0
  PROVE  <<x>> \in Seq(Items) /\ Silent(<<x>>)
<1>1. Len(<<x>>) = 1 /\ <<x>>[1] = x /\ <<x>> \in Seq(Items)
  OBVIOUS
<1>2. QED
  BY <1>1 DEF Silent

(* What a message that writes leaves to NextToFill: a read of the same     *)
(* address still finds room for its start and its command.                 *)
Left(s, u) ==
  /\ u \in LoopState
  /\ u.msg = s.msg /\ u.rem = s.rem /\ u.filled = FALSE
  /\ u.pos = End(s) /\ u.cnt = msgs[s.msg].len - End(s)
  /\ Silent(u.put) /\ Silent(u.carry)
  /\ s.rem > 1 /\ u.idx < wr_sz /\ msgs[s.msg + 1].addr = msgs[s.msg].addr /\ msgs[s.msg + 1].rd
       => u.idx + 1 < wr_sz

LEMMA WriteLeft ==
  ASSUME AtFill, NEW s, LoopOK(s), Pending(s), ~msgs[s.msg].rd
  PROVE  Left(s, IssueWrite(s))
<1>0. PICK u : u = IssueWrite(s)
  OBVIOUS
<1>1. /\ s \in LoopState /\ s.rem \in Int /\ s.carry \in Seq(Items) /\ Silent(s.carry)
      /\ s.msg \in msg .. Len(msgs) /\ s.idx \in Nat
  BY DEF LoopOK, Along, LoopState, Pending
<1>2. Slot(s) \in Nat /\ wr_sz \in Nat /\ wr_sz % 2 = 0
  BY BytesRange DEF AtFill
<1>3. /\ Final(s) \in Items /\ Final(s).tag # "split" /\ Final(s).bytes = 0
      /\ Filler(s) \in Items /\ Filler(s).tag # "split" /\ Filler(s).bytes = 0
      /\ Stop(s) \in Items /\ Stop(s).tag # "split" /\ Stop(s).bytes = 0
  BY WrittenItems
<1>4. <<>> \in Seq(Items) /\ Silent(<<>>)
  <2>1. Len(<<>>) = 0 /\ <<>> \in Seq(Items)
    BY EmptySeq
  <2>2. QED
    BY <2>1 DEF Silent
<1>5. 1 \in {1, 2} /\ 2 \in {1, 2}
  OBVIOUS
<1>6. CASE Whole(s, u)
  <2>1. <<Final(s)>> \in Seq(Items) /\ Silent(<<Final(s)>>)
    BY <1>3, OneEntry
  <2>2. u = Written(s, <<Final(s)>>, 1, s.carry) /\ (Odd(Slot(s)) \/ s.rem <= 1)
    BY <1>6 DEF Whole
  <2>3. /\ u \in LoopState /\ u.msg = s.msg /\ u.rem = s.rem /\ u.filled = FALSE
        /\ u.pos = End(s) /\ u.cnt = msgs[s.msg].len - End(s)
        /\ u.idx = Slot(s) + 1 /\ u.carry = s.carry /\ Silent(u.put)
    <3>1. Turn(s, u, <<Final(s)>>, 1, s.carry)
      BY <1>1, <1>4, <1>5, <2>1, <2>2, WriteTurn, Zenon
    <3>2. QED
      BY <3>1 DEF Turn
  <2>4. s.rem > 1 /\ u.idx < wr_sz => u.idx + 1 < wr_sz
    <3>1. s.rem > 1 => Slot(s) % 2 = 1
      BY <1>1, <2>2 DEF Odd
    <3>2. QED
      BY <1>2, <2>3, <3>1
  <2>5. QED
    BY <1>0, <1>1, <2>3, <2>4 DEF Left
<1>7. CASE Filled(s, u)
  <2>1. <<Final(s), Filler(s)>> \in Seq(Items) /\ Silent(<<Final(s), Filler(s)>>)
    <3>1. <<Final(s)>> \in Seq(Items) /\ Silent(<<Final(s)>>) /\ <<Filler(s)>> \in Seq(Items) /\ Silent(<<Filler(s)>>)
      BY <1>3, OneEntry
    <3>2. <<Final(s), Filler(s)>> = <<Final(s)>> \o <<Filler(s)>>
      OBVIOUS
    <3>3. QED
      BY <3>1, <3>2, SilentConcat
  <2>2. u = Written(s, <<Final(s), Filler(s)>>, 2, s.carry) /\ Slot(s) = wr_sz - 2
    BY <1>7 DEF Filled, ReadLeftOne
  <2>3. /\ u \in LoopState /\ u.msg = s.msg /\ u.rem = s.rem /\ u.filled = FALSE
        /\ u.pos = End(s) /\ u.cnt = msgs[s.msg].len - End(s)
        /\ u.idx = Slot(s) + 2 /\ u.carry = s.carry /\ Silent(u.put)
    <3>1. Turn(s, u, <<Final(s), Filler(s)>>, 2, s.carry)
      BY <1>1, <1>4, <1>5, <2>1, <2>2, WriteTurn, Zenon
    <3>2. QED
      BY <3>1 DEF Turn
  <2>4. ~(u.idx < wr_sz)
    BY <1>2, <2>2, <2>3
  <2>5. QED
    BY <1>0, <1>1, <2>3, <2>4 DEF Left
<1>8. CASE Stopped(s, u)
  <2>1. <<Stop(s)>> \in Seq(Items) /\ Silent(<<Stop(s)>>)
    BY <1>3, OneEntry
  <2>2. u = Written(s, <<Stop(s)>>, 2, s.carry) /\ msgs[s.msg + 1].addr # msgs[s.msg].addr
    BY <1>8 DEF Stopped, AddressEnds
  <2>3. /\ u \in LoopState /\ u.msg = s.msg /\ u.rem = s.rem /\ u.filled = FALSE
        /\ u.pos = End(s) /\ u.cnt = msgs[s.msg].len - End(s)
        /\ u.idx = Slot(s) + 2 /\ u.carry = s.carry /\ Silent(u.put)
    <3>1. Turn(s, u, <<Stop(s)>>, 2, s.carry)
      BY <1>1, <1>4, <1>5, <2>1, <2>2, WriteTurn, Zenon
    <3>2. QED
      BY <3>1 DEF Turn
  <2>4. QED
    BY <1>0, <1>1, <2>2, <2>3 DEF Left
<1>9. CASE Halved(s, u)
  <2>1. <<Final(s)>> \in Seq(Items) /\ Silent(<<Final(s)>>)
    BY <1>3, OneEntry
  <2>2. /\ u = Written(s, <<>>, 1, <<Final(s)>>) /\ ~Odd(Slot(s)) /\ ~ReadLeftOne(s, Slot(s))
        /\ s.rem > 1
    BY <1>9 DEF Halved
  <2>3. /\ u \in LoopState /\ u.msg = s.msg /\ u.rem = s.rem /\ u.filled = FALSE
        /\ u.pos = End(s) /\ u.cnt = msgs[s.msg].len - End(s)
        /\ u.idx = Slot(s) + 1 /\ u.carry = <<Final(s)>> /\ Silent(u.put)
    <3>1. Turn(s, u, <<>>, 1, <<Final(s)>>)
      BY <1>4, <1>5, <2>1, <2>2, WriteTurn, Zenon
    <3>2. QED
      BY <3>1 DEF Turn
  <2>4. msgs[s.msg + 1].addr = msgs[s.msg].addr /\ msgs[s.msg + 1].rd /\ u.idx < wr_sz
          => u.idx + 1 < wr_sz
    <3>1. msgs[s.msg + 1].addr = msgs[s.msg].addr /\ msgs[s.msg + 1].rd => Slot(s) # wr_sz - 2
      BY <2>2 DEF ReadLeftOne
    <3>2. Slot(s) % 2 = 0
      BY <1>2, <2>2 DEF Odd
    <3>3. QED
      BY <1>2, <2>3, <3>1, <3>2
  <2>5. QED
    BY <1>0, <1>1, <2>1, <2>3, <2>4 DEF Left
<1>10. QED
  BY <1>0, <1>1, <1>6, <1>7, <1>8, <1>9, WriteCases

(* One turn keeps the loop's invariant.  The next message is at hand only  *)
(* if it is joined to a write.                                             *)
LEMMA Turned ==
  ASSUME AtFill, NEW s, LoopOK(s), Pending(s)
  PROVE  /\ LoopOK(Issue(s))
         /\ Issue(s).filled \/ Issue(s).msg = s.msg + 1
<1>1. CASE msgs[s.msg].rd
  BY <1>1, ReadIssued
<1>2. CASE ~msgs[s.msg].rd
  <2>0. PICK u, v : u = IssueWrite(s) /\ v = Issue(s)
    OBVIOUS
  <2> DEFINE joins == ~(u.idx >= wr_sz) /\ s.rem > 1 /\ msgs[s.msg + 1].addr = msgs[s.msg].addr
             c == Chunk(s.msg + 1, 0)
  <2>1. /\ s \in LoopState /\ s.msg \in msg .. Len(msgs) /\ s.rem = Len(msgs) - s.msg + 1
        /\ Len(msgs) \in Nat /\ msg \in Nat /\ s.msg \in Nat /\ s.rem \in Nat
        /\ \A m \in msg .. s.msg - 1 : ~msgs[m].rd
    BY LenProperties DEF LoopOK, Along, LoopState, AtFill
  <2>2. /\ u \in LoopState /\ u.msg = s.msg /\ u.rem = s.rem /\ u.filled = FALSE
        /\ u.pos = End(s) /\ u.cnt = msgs[s.msg].len - End(s)
        /\ Silent(u.put) /\ Silent(u.carry) /\ u.idx \in Nat
        /\ joins /\ msgs[s.msg + 1].rd => u.idx + 1 < wr_sz
    <3>1. Left(s, u)
      BY <1>2, <2>0, WriteLeft
    <3>2. u \in LoopState /\ u.idx \in Nat
      BY <3>1 DEF Left, LoopState
    <3>3. wr_sz \in Nat
      BY DEF AtFill
    <3>4. joins /\ msgs[s.msg + 1].rd => u.idx + 1 < wr_sz
      BY <3>1, <3>2, <3>3 DEF Left
    <3>5. QED
      BY <3>1, <3>2, <3>4 DEF Left
  <2>3. v = IF joins THEN [u EXCEPT !.rem = u.rem - 1, !.msg = u.msg + 1, !.pos = 0, !.cnt = c]
            ELSE [u EXCEPT !.filled = TRUE]
    <3>1. c = Min({msgs[s.msg + 1].len, ReadLimit}) \/ ~joins
      <4>1. joins => s.msg + 1 \in msg .. Len(msgs)
        BY <2>1
      <4>2. joins => msgs[s.msg + 1].len - 0 = msgs[s.msg + 1].len
        BY <4>1, MessageType
      <4>3. QED
        BY <4>2 DEF Chunk
    <3>2. v = NextToFill(u)
      BY <1>2, <2>0 DEF Issue
    <3> HIDE DEF c
    <3>3. QED
      BY <1>2, <2>2, <3>1, <3>2 DEF NextToFill
  <2>4. End(s) \in Nat \ {0} /\ End(s) <= msgs[s.msg].len /\ msgs[s.msg].len \in Nat
    BY <2>1, BytesRange, MessageType
  <2>5. CASE joins
    <3>1. s.msg + 1 \in msg .. Len(msgs) /\ u.rem - 1 \in Nat /\ s.msg + 1 \in Nat
          /\ u.rem - 1 = Len(msgs) - (s.msg + 1) + 1
      <4>1. s.rem > 1 /\ u.rem = s.rem
        BY <2>2, <2>5
      <4>2. s.msg \in msg .. Len(msgs) /\ s.rem = Len(msgs) - s.msg + 1 /\ Len(msgs) \in Nat /\ msg \in Nat
        BY <2>1
      <4>3. QED
        BY <4>1, <4>2
    <3>2. c \in Nat \ {0} /\ c <= msgs[s.msg + 1].len
      <4>1. msgs[s.msg + 1].len \in Nat \ {0}
        BY <3>1, MessageType
      <4>2. c \in Nat \ {0} /\ 0 + c <= msgs[s.msg + 1].len
        BY <4>1, ChunkType
      <4>3. QED
        BY <4>2
    <3>3. ~(u.idx >= wr_sz) /\ (msgs[s.msg + 1].rd => u.idx + 1 < wr_sz)
      BY <2>2, <2>5
    <3> HIDE DEF c, joins
    <3>4. v = [u EXCEPT !.rem = u.rem - 1, !.msg = u.msg + 1, !.pos = 0, !.cnt = c]
      BY <2>3, <2>5
    <3>5. /\ v \in LoopState /\ v.msg = s.msg + 1 /\ v.rem = u.rem - 1 /\ v.pos = 0 /\ v.cnt = c
          /\ v.idx = u.idx /\ v.put = u.put /\ v.carry = u.carry /\ v.filled = FALSE
      BY <2>2, <3>1, <3>2, <3>4 DEF LoopState
    <3>6. Along(v)
      <4>1. \A m \in msg .. v.msg - 1 : m \in msg .. s.msg - 1 \/ m = s.msg
        BY <2>1, <3>5
      <4>2. \A m \in msg .. v.msg - 1 : ~msgs[m].rd
        BY <1>2, <2>1, <4>1
      <4>3. v.msg \in msg .. Len(msgs) /\ v.rem = Len(msgs) - v.msg + 1
        BY <3>1, <3>5
      <4>4. QED
        BY <3>5, <4>2, <4>3 DEF Along
    <3>7. Pending(v)
      <4>1. u.idx \in Nat /\ wr_sz \in Nat
        BY <2>2 DEF AtFill, LoopState
      <4>2. u.idx < wr_sz /\ (msgs[s.msg + 1].rd => u.idx + 1 < wr_sz)
        BY <3>3, <4>1
      <4>3. v.msg # msg
        BY <2>1, <3>5
      <4>4. v.cnt > 0 /\ v.pos + v.cnt <= msgs[v.msg].len /\ v.cnt = Chunk(v.msg, v.pos)
        BY <3>2, <3>5 DEF c
      <4>5. QED
        BY <2>2, <3>5, <4>2, <4>3, <4>4 DEF Pending
    <3>8. QED
      BY <2>0, <3>5, <3>6, <3>7 DEF LoopOK
  <2>6. CASE ~joins
    <3> HIDE DEF joins
    <3>1. v = [u EXCEPT !.filled = TRUE]
      BY <2>3, <2>6
    <3>2. /\ v \in LoopState /\ v.msg = s.msg /\ v.rem = s.rem /\ v.pos = End(s)
          /\ v.cnt = msgs[s.msg].len - End(s) /\ v.put = u.put /\ v.filled = TRUE
      BY <2>2, <3>1 DEF LoopState
    <3>3. Along(v)
      BY <2>1, <3>2 DEF Along
    <3>4. Ready(v)
      BY <1>2, <2>2, <2>4, <3>2 DEF Ready
    <3>5. QED
      BY <2>0, <3>2, <3>3, <3>4 DEF LoopOK
  <2>7. QED
    BY <2>5, <2>6
<1>3. msgs[s.msg].rd \in BOOLEAN
  BY MessageType DEF LoopOK, Along
<1>4. QED
  BY <1>1, <1>2, <1>3

-----------------------------------------------------------------------------
(* The turns of the loop one after the other.                              *)
Turns(f) ==
  f = [k \in 0 .. Len(msgs) |->
         IF k = 0 THEN Unpacked ELSE IF f[k - 1].filled THEN f[k - 1] ELSE Issue(f[k - 1])]

(* They are well defined: from the turns up to one, the turns up to the    *)
(* next.                                                                   *)
LEMMA TurnsExist == ASSUME Len(msgs) \in Nat PROVE \E f : Turns(f)
<1> DEFINE L == Len(msgs)
           After(s) == IF s.filled THEN s ELSE Issue(s)
           IsUpTo(f, n) == \A k \in 0 .. n : f[k] = IF k = 0 THEN Unpacked ELSE After(f[k - 1])
           Missing == {n \in 0 .. L : ~(\E f : IsUpTo(f, n))}
<1> HIDE DEF After
<1>1. Missing = {}
  <2>1. SUFFICES ASSUME Missing # {} PROVE FALSE
    OBVIOUS
  <2>2. PICK n \in Missing : \A m \in Missing : n <= m
    <3>1. Missing \in SUBSET Nat
      OBVIOUS
    <3> HIDE DEF Missing
    <3>2. QED
      BY <2>1, <3>1, LeastNumber
  <2>3. n \in 0 .. L /\ ~(\E f : IsUpTo(f, n))
    BY <2>2
  <2>4. n # 0
    <3>1. SUFFICES ASSUME n = 0 PROVE FALSE
      OBVIOUS
    <3> DEFINE f == [k \in 0 .. 0 |-> Unpacked]
    <3>2. IsUpTo(f, 0)
      OBVIOUS
    <3> HIDE DEF f, IsUpTo
    <3>3. QED
      BY <2>3, <3>1, <3>2
  <2>5. n - 1 \in 0 .. L /\ ~(n <= n - 1)
    BY <2>3, <2>4
  <2>6. PICK f : IsUpTo(f, n - 1)
    BY <2>2, <2>5
  <2> DEFINE g == [k \in 0 .. n |-> IF k < n THEN f[k] ELSE After(f[n - 1])]
  <2>7. ASSUME NEW k \in 0 .. n PROVE g[k] = IF k = 0 THEN Unpacked ELSE After(g[k - 1])
    <3>1. CASE k < n
      <4>1. k \in 0 .. n - 1 /\ (k # 0 => k - 1 \in 0 .. n /\ k - 1 < n)
        BY <2>5, <3>1
      <4>2. g[k] = f[k] /\ (k # 0 => g[k - 1] = f[k - 1])
        BY <3>1, <4>1
      <4> HIDE DEF g
      <4>3. QED
        BY <2>6, <4>1, <4>2
    <3>2. CASE ~(k < n)
      <4>1. k = n /\ k # 0 /\ n - 1 \in 0 .. n /\ n - 1 < n
        BY <2>4, <2>5, <3>2
      <4>2. g[k] = After(f[n - 1]) /\ g[n - 1] = f[n - 1]
        BY <4>1
      <4> HIDE DEF g
      <4>3. QED
        BY <4>1, <4>2
    <3>3. QED
      BY <3>1, <3>2
  <2> HIDE DEF g
  <2>8. QED
    BY <2>3, <2>7
<1>2. L \in 0 .. L
  OBVIOUS
<1>3. PICK f : IsUpTo(f, L)
  BY <1>1, <1>2
<1> DEFINE g == [k \in 0 .. L |-> f[k]]
<1>4. ASSUME NEW k \in 0 .. L PROVE g[k] = IF k = 0 THEN Unpacked ELSE After(g[k - 1])
  <2>1. k # 0 => k - 1 \in 0 .. L
    OBVIOUS
  <2>2. g[k] = f[k] /\ (k # 0 => g[k - 1] = f[k - 1])
    BY <2>1
  <2> HIDE DEF g
  <2>3. QED
    BY <1>3, <2>2
<1>5. g = [k \in 0 .. L |-> g[k]]
  OBVIOUS
<1> HIDE DEF g
<1>6. g = [k \in 0 .. L |-> IF k = 0 THEN Unpacked ELSE After(g[k - 1])]
  BY <1>4, <1>5
<1>7. Turns(g)
  BY <1>6 DEF Turns, After
<1>8. QED
  BY <1>7, Zenon

(* What holds of the loop's variables from turn to turn holds of Packed,   *)
(* and since a turn fills the block or goes on to the next message, the    *)
(* loop ends within as many turns as there are messages.                   *)
LEMMA TurnsKeep ==
  ASSUME Len(msgs) \in Nat, msg \in 1 .. Len(msgs),
         NEW S, Unpacked \in S, Unpacked.msg = msg,
         \A s \in S : s.filled \in BOOLEAN /\ s.msg \in msg .. Len(msgs),
         \A s \in S : ~s.filled => /\ Issue(s) \in S
                                   /\ Issue(s).filled \/ Issue(s).msg = s.msg + 1
  PROVE  Packed \in S /\ Packed.filled
<1> DEFINE L == Len(msgs)
           turn == CHOOSE f : Turns(f)
           Apart == {k \in 0 .. L : ~(turn[k] \in S /\ (turn[k].filled \/ turn[k].msg = msg + k))}
<1>1. Packed = turn[L]
  BY DEF Packed, Turns
<1>2. Turns(turn)
  BY TurnsExist, Zenon
<1> HIDE DEF turn
<1>3. \A k \in 0 .. L : turn[k] = IF k = 0 THEN Unpacked
                                  ELSE IF turn[k - 1].filled THEN turn[k - 1] ELSE Issue(turn[k - 1])
  <2> TAKE k \in 0 .. L
  <2>1. turn[k] = [i \in 0 .. L |->
                     IF i = 0 THEN Unpacked
                     ELSE IF turn[i - 1].filled THEN turn[i - 1] ELSE Issue(turn[i - 1])][k]
    BY <1>2, Zenon DEF Turns
  <2>2. QED
    BY <2>1
<1>4. Apart = {}
  <2>1. SUFFICES ASSUME Apart # {} PROVE FALSE
    OBVIOUS
  <2>2. PICK n \in Apart : \A m \in Apart : n <= m
    <3>1. Apart \in SUBSET Nat
      OBVIOUS
    <3> HIDE DEF Apart
    <3>2. QED
      BY <2>1, <3>1, LeastNumber
  <2>3. n \in 0 .. L /\ ~(turn[n] \in S /\ (turn[n].filled \/ turn[n].msg = msg + n))
    BY <2>2
  <2>4. n # 0
    <3>1. turn[0] = Unpacked
      BY <1>3
    <3>2. turn[0] \in S /\ turn[0].msg = msg + 0
      BY <3>1
    <3>3. QED
      BY <2>3, <3>2
  <2>5. n - 1 \in 0 .. L /\ ~(n <= n - 1)
    BY <2>3, <2>4
  <2>6. turn[n - 1] \in S /\ (turn[n - 1].filled \/ turn[n - 1].msg = msg + (n - 1))
    BY <2>2, <2>5
  <2>7. turn[n] = IF turn[n - 1].filled THEN turn[n - 1] ELSE Issue(turn[n - 1])
    BY <1>3, <2>3, <2>4
  <2>8. CASE turn[n - 1].filled
    BY <2>3, <2>6, <2>7, <2>8
  <2>9. CASE ~turn[n - 1].filled
    <3>1. turn[n] \in S /\ (turn[n].filled \/ turn[n].msg = turn[n - 1].msg + 1)
      BY <2>6, <2>7, <2>9
    <3>2. turn[n - 1].msg + 1 = msg + n
      <4>1. turn[n - 1].msg = msg + (n - 1)
        BY <2>6, <2>9
      <4>2. msg \in Int /\ n \in Int
        BY <2>3
      <4>3. (msg + (n - 1)) + 1 = msg + n
        BY <4>2
      <4>4. QED
        BY <4>1, <4>3
    <3>3. QED
      BY <2>3, <3>1, <3>2
  <2>10. QED
    BY <2>6, <2>8, <2>9
<1>5. L \in 0 .. L
  OBVIOUS
<1>6. turn[L] \in S /\ (turn[L].filled \/ turn[L].msg = msg + L)
  BY <1>4, <1>5
<1>7. turn[L].msg <= L
  BY <1>6
<1>8. QED
  BY <1>1, <1>6, <1>7

(* The block that Fill writes.                                             *)
LEMMA PackedReady ==
  ASSUME AtFill
  PROVE  Along(Packed) /\ Ready(Packed)
<1> DEFINE S == {s \in LoopState : LoopOK(s)}
<1>1. Len(msgs) \in Nat /\ msg \in 1 .. Len(msgs)
  BY LenProperties DEF AtFill
<1>2. Unpacked \in S /\ Unpacked.msg = msg
  BY FirstTurn DEF LoopOK, Along
<1>3. \A s \in S : s.filled \in BOOLEAN /\ s.msg \in msg .. Len(msgs)
  BY DEF LoopState, LoopOK, Along
<1>4. ASSUME NEW s \in S, ~s.filled
      PROVE  Issue(s) \in S /\ (Issue(s).filled \/ Issue(s).msg = s.msg + 1)
  <2>1. LoopOK(s) /\ Pending(s)
    BY <1>4 DEF LoopOK, Ready
  <2>2. QED
    BY <2>1, Turned DEF LoopOK, Along
<1> HIDE DEF S
<1>5. Packed \in S /\ Packed.filled
  BY <1>1, <1>2, <1>3, <1>4, TurnsKeep
<1>6. QED
  BY <1>5 DEF S, LoopOK, Pending

-----------------------------------------------------------------------------
(* Where the driver stands, step by step.                                  *)

LEMMA AtMessage ==
  ASSUME ArrayOK, Working, msg <= Len(msgs)
  PROVE  /\ Len(msgs) \in Nat /\ msg \in 1 .. Len(msgs)
         /\ msgs[msg] \in Message /\ msgs[msg].len \in Nat \ {0} /\ msgs[msg].rd \in BOOLEAN
         /\ pos \in Nat /\ cnt \in Nat /\ pos <= msgs[msg].len
<1>1. Len(msgs) \in Nat /\ msg \in 1 .. Len(msgs) + 1 /\ msgs \in Seq(Message)
  BY LenProperties DEF ArrayOK
<1>2. msg \in 1 .. Len(msgs)
  BY <1>1
<1>3. msgs[msg] \in Message
  BY <1>1, <1>2, ElementOfSeq
<1>4. QED
  BY <1>1, <1>2, <1>3 DEF ArrayOK, Message

(* Fill writes the block that is packed, unless the mode was block mode    *)
(* and the first interrupt is awaited: then it writes nothing.             *)
LEMMA FillStep ==
  ASSUME ArrayOK, out \in Seq(Items), Fill
  PROVE  \/ filled /\ UNCHANGED <<msg, rem, pos, cnt, devmsg, out>>
         \/ /\ AtFill /\ devmsg' = msg'
            /\ \E k \in Int : k <= Len(Packed.put) /\ out' = out \o SubSeq(Packed.put, 1, k)
<1> DEFINE room == out_fifo_sz - Len(out)
           k == Min({room, Len(Packed.put)})
<1>1. /\ out' = out \o SubSeq(Packed.put, 1, k)
      /\ msg' = Packed.msg /\ rem' = Packed.rem /\ pos' = Packed.pos /\ cnt' = Packed.cnt
      /\ devmsg' = IF Packed.msg = msg THEN devmsg ELSE Packed.msg
  BY DEF Fill
<1>2. /\ Looping /\ Working /\ msg <= Len(msgs) /\ devmsg = msg /\ cnt > 0
      /\ wr_sz \in Nat /\ wr_sz % 2 = 0 /\ wr_sz > 2 /\ filled \in BOOLEAN
      /\ rem = Len(msgs) - msg + 1
      /\ ~msgs[msg].rd => cnt = msgs[msg].len - pos
      /\ msgs[msg].rd => pos + cnt <= msgs[msg].len
      /\ Issued \/ ~msgs[msg].rd \/ cnt = Chunk(msg, pos)
  BY DEF ArrayOK, Fill, Looping, Working
<1>3. /\ Len(msgs) \in Nat /\ msg \in 1 .. Len(msgs)
      /\ msgs[msg].len \in Nat \ {0} /\ msgs[msg].rd \in BOOLEAN
      /\ pos \in Nat /\ cnt \in Nat /\ pos <= msgs[msg].len
  BY <1>2, AtMessage
<1>4. room \in Int
  BY LenProperties, QupAssumption
<1>5. CASE filled
  <2>1. Packed \in {Unpacked}
    <3>1. Unpacked.filled = filled /\ Unpacked.msg = msg
      BY DEF Unpacked
    <3>2. Unpacked.filled /\ Unpacked.filled \in BOOLEAN /\ Unpacked.msg = msg /\ msg \in msg .. Len(msgs)
      BY <1>2, <1>3, <1>5, <3>1
    <3>3. PICK S : S = {Unpacked}
      OBVIOUS
    <3>4. Unpacked \in S /\ \A s \in S : s.filled \in BOOLEAN /\ s.msg \in msg .. Len(msgs) /\ s.filled
      BY <3>2, <3>3, Zenon
    <3>5. Packed \in S
      BY <1>3, <3>2, <3>4, TurnsKeep
    <3>6. QED
      BY <3>3, <3>5
  <2>2. /\ Packed.put = <<>> /\ Packed.msg = msg /\ Packed.rem = rem /\ Packed.pos = pos
        /\ Packed.cnt = cnt
    BY <2>1 DEF Unpacked
  <2>3. SubSeq(<<>>, 1, k) = <<>>
    <3>1. Len(<<>>) = 0 /\ <<>> \in Seq(Items)
      BY EmptySeq
    <3>2. k \in Int /\ k < 1
      BY <1>4, <2>2, <3>1, MinOfTwo
    <3> HIDE DEF k
    <3>3. QED
      BY <3>2, SubSeqEmpty
  <2>4. out' = out
    <3>1. out' = out \o <<>>
      BY <1>1, <2>2, <2>3
    <3>2. QED
      BY <3>1, ConcatEmptySeq
  <2>5. QED
    BY <1>1, <1>5, <2>2, <2>4
<1>6. CASE ~filled
  <2>1. AtFill
    <3>1. msgs[msg].rd => cnt = Chunk(msg, pos)
      BY <1>2, <1>6 DEF Issued
    <3>2. msgs \in Seq(Message)
      BY DEF ArrayOK
    <3>3. QED
      BY <1>2, <1>3, <1>6, <3>1, <3>2 DEF AtFill
  <2>2. Packed.put \in Seq(Items)
    BY <2>1, PackedReady DEF Along, LoopState
  <2>3. k \in Int /\ k <= Len(Packed.put)
    BY <1>4, <2>2, LenProperties, MinOfTwo
  <2>4. devmsg' = msg'
    BY <1>1, <1>2
  <2> HIDE DEF k
  <2>5. QED
    BY <1>1, <2>1, <2>3, <2>4
<1>7. QED
  BY <1>2, <1>5, <1>6

LEMMA ArrayKept ==
  ASSUME ArrayOK, out \in Seq(Items), infifo \in Seq(Nat), [Next]_vars,
         Issued /\ pc = "check" => Len(infifo) <= cnt
  PROVE  ArrayOK'
<1> USE DEF Looping, Working, Issued
<1>1. CASE UNCHANGED vars
  BY <1>1 DEF ArrayOK, Chunk, vars, position, mode, irq
<1>2. CASE Xfer
  <2>1. msgs' \in Seq(Message) /\ msgs' # <<>>
    BY <1>2, QupAssumption DEF Xfer, Message
  <2>2. Len(msgs') \in Nat \ {0}
    BY <2>1, EmptySeq
  <2>3. msgs'[1] \in Message /\ 1 \in 1 .. Len(msgs')
    BY <2>1, <2>2, ElementOfSeq
  <2>4. msgs'[1].len \in Nat \ {0}
    BY <2>3 DEF Message
  <2>5. QED
    BY <1>2, <2>1, <2>2, <2>3, <2>4 DEF Xfer, Goto, ArrayOK, mode
<1>3. CASE StartMessage
  <2>1. /\ Len(msgs) \in Nat /\ msg \in 1 .. Len(msgs) /\ msgs \in Seq(Message)
        /\ msgs[msg].len \in Nat \ {0} /\ msgs[msg].rd \in BOOLEAN
        /\ pos \in Nat /\ pos < msgs[msg].len /\ rem = Len(msgs) - msg + 1 /\ ret = "none"
    BY <1>3, AtMessage DEF StartMessage, ArrayOK
  <2>2. Chunk(msg, pos) \in Nat \ {0} /\ pos + Chunk(msg, pos) <= msgs[msg].len
    BY <2>1, ChunkType
  <2>3. /\ wr_sz' \in Nat /\ wr_sz' % 2 = 0 /\ wr_sz' > 2
        /\ filled' \in BOOLEAN /\ (filled' => ~msgs[msg].rd)
        /\ cnt' = IF msgs[msg].rd THEN Chunk(msg, pos) ELSE msgs[msg].len - pos
    <3>1. /\ wr_sz' = IF BlockMode THEN out_blk_sz ELSE out_fifo_sz
          /\ filled' = BlockMode
          /\ cnt' = IF msgs[msg].rd THEN Min({msgs[msg].len - pos, ReadLimit}) ELSE msgs[msg].len - pos
      BY <1>3, Zenon DEF StartMessage
    <3>2. BlockMode \in BOOLEAN /\ (BlockMode => ~msgs[msg].rd)
      BY DEF BlockMode
    <3> HIDE DEF BlockMode
    <3>3. wr_sz' \in Nat /\ wr_sz' % 2 = 0 /\ wr_sz' > 2
      <4>1. out_fifo_sz > 2 /\ wr_sz' \in {out_blk_sz, out_fifo_sz}
        BY <3>1, QupAssumption
      <4>2. QED
        BY <4>1, QupAssumption
    <3>4. QED
      BY <3>1, <3>2, <3>3 DEF Chunk
  <2>4. cnt' \in Nat \ {0} /\ (msgs[msg].rd => pos + cnt' <= msgs[msg].len)
        /\ (~msgs[msg].rd => cnt' = msgs[msg].len - pos)
    BY <2>1, <2>2, <2>3
  <2>5. /\ msgs' = msgs /\ msg' = msg /\ rem' = rem /\ pos' = pos /\ devmsg' = msg
        /\ (pc' = "pause" /\ ret' = ret) \/ (pc' = "out" /\ ret' = "error")
    BY <1>3 DEF StartMessage, Goto, Fails
  <2>6. Chunk(msg, pos)' = Chunk(msg, pos)
    BY <2>5 DEF Chunk
  <2>7. CASE pc' = "out" /\ ret' = "error"
    BY <2>1, <2>3, <2>5, <2>7 DEF ArrayOK
  <2>8. CASE pc' = "pause" /\ ret' = ret
    <3>1. /\ Looping' /\ Working' /\ ~Issued'
          /\ msgs' = msgs /\ msg' = msg /\ ret' = "none"
      BY <2>1, <2>3, <2>5, <2>8
    <3>2. msgs'[msg'].rd => cnt' = Chunk(msg, pos)'
      BY <2>3, <2>5, <2>6
    <3> HIDE DEF Looping, Working, Issued
    <3>3. msg' \in 1 .. Len(msgs') + 1 /\ rem' = Len(msgs') - msg' + 1 /\ msg' <= Len(msgs')
      BY <2>1, <2>5
    <3>4. /\ pos' \in Nat /\ cnt' \in Nat \ {0} /\ cnt' > 0 /\ pos' <= msgs'[msg'].len /\ devmsg' = msg'
          /\ wr_sz' \in Nat /\ wr_sz' % 2 = 0 /\ wr_sz' > 2 /\ filled' \in BOOLEAN
          /\ ~msgs'[msg'].rd => cnt' = msgs'[msg'].len - pos'
          /\ msgs'[msg'].rd => pos' + cnt' <= msgs'[msg'].len
          /\ msgs' \in Seq(Message) /\ pc' = "pause"
      <4>1. pos <= msgs[msg].len
        BY <2>1
      <4>2. cnt' > 0
        BY <2>4
      <4>3. QED
        BY <2>1, <2>3, <2>4, <2>5, <2>8, <4>1, <4>2, Zenon
    <3>5. QED
      BY <3>1, <3>2, <3>3, <3>4 DEF ArrayOK
  <2>9. QED
    BY <2>5, <2>7, <2>8
<1>4. CASE Pause
  <2>1. Chunk(msg, pos)' = Chunk(msg, pos)
    BY <1>4 DEF Chunk, Pause, position
  <2>2. QED
    BY <1>4, <2>1 DEF Pause, Goto, Fails, ArrayOK, position, mode
<1>5. CASE Fill
  <2>1. /\ pc = "fill" /\ pc' = "run" /\ msgs' = msgs /\ ret' = ret /\ wr_sz' = wr_sz
        /\ filled' = TRUE /\ msg' = Packed.msg /\ rem' = Packed.rem /\ pos' = Packed.pos
        /\ cnt' = Packed.cnt
    BY <1>5 DEF Fill, Goto
  <2>2. CASE filled /\ UNCHANGED <<msg, rem, pos, cnt, devmsg, out>>
    <3>1. Chunk(msg, pos)' = Chunk(msg, pos)
      BY <2>1, <2>2 DEF Chunk
    <3>2. QED
      BY <2>1, <2>2, <3>1 DEF ArrayOK
  <2>3. CASE AtFill /\ devmsg' = msg'
    <3>1. Along(Packed) /\ Ready(Packed)
      BY <2>3, PackedReady
    <3>2. /\ msg' \in msg .. Len(msgs) /\ rem' = Len(msgs) - msg' + 1 /\ Len(msgs) \in Nat
          /\ msg' \in 1 .. Len(msgs) /\ pos' \in Nat /\ cnt' \in Nat
      <4>1. Packed \in LoopState /\ Packed.msg \in msg .. Len(msgs) /\ Packed.rem = Len(msgs) - Packed.msg + 1
        BY <3>1 DEF Along
      <4>2. Packed.pos \in Nat /\ Packed.cnt \in Nat
        BY <4>1 DEF LoopState
      <4>3. Len(msgs) \in Nat /\ msg \in 1 .. Len(msgs)
        BY <2>3, LenProperties DEF AtFill
      <4>4. QED
        BY <2>1, <4>1, <4>2, <4>3
    <3>3. msgs[msg'].len \in Nat \ {0} /\ msgs[msg'].rd \in BOOLEAN
      BY <2>3, <3>2, MessageType
    <3>4. IF msgs[msg'].rd THEN pos' + cnt' <= msgs[msg'].len ELSE pos' + cnt' = msgs[msg'].len
      BY <2>1, <3>1, <3>3 DEF Ready
    <3>5. pos' <= msgs[msg'].len /\ (~msgs[msg'].rd => cnt' = msgs[msg'].len - pos')
      <4>1. PICK l : l = msgs[msg'].len
        OBVIOUS
      <4>2. l \in Nat /\ pos' \in Nat /\ cnt' \in Nat
        BY <3>2, <3>3, <4>1
      <4>3. pos' + cnt' <= l
        BY <3>4, <4>1, <4>2
      <4>4. ~msgs[msg'].rd => pos' + cnt' = l
        BY <3>4, <4>1
      <4>5. pos' <= l
        BY <4>2, <4>3, SumWithin, Zenon
      <4>6. ~msgs[msg'].rd => cnt' = l - pos'
        BY <4>2, <4>4, SumWithin, Zenon
      <4>7. QED
        BY <4>1, <4>5, <4>6
    <3>6. ret = "none" /\ msgs \in Seq(Message) /\ wr_sz \in Nat /\ wr_sz % 2 = 0 /\ wr_sz > 2
      BY <2>1, <2>3 DEF ArrayOK, AtFill
    <3>7. QED
      BY <2>1, <2>3, <3>2, <3>3, <3>4, <3>5, <3>6 DEF ArrayOK
  <2>4. QED
    BY <1>5, <2>2, <2>3, FillStep
<1>6. CASE Run
  <2>1. Chunk(msg, pos)' = Chunk(msg, pos)
    BY <1>6 DEF Chunk, Run, position
  <2>2. QED
    BY <1>6, <2>1 DEF Run, Goto, Fails, ArrayOK, position, mode
<1>7. CASE CheckError
  BY <1>7 DEF CheckError, Goto, ArrayOK, position, mode
<1>8. CASE TakeInput
  <2>1. /\ pc = "check" /\ msgs[msg].rd /\ filled /\ devmsg = msg /\ msg <= Len(msgs)
        /\ pos + cnt <= msgs[msg].len
    BY <1>8 DEF TakeInput, ArrayOK
  <2>2. /\ msg \in 1 .. Len(msgs) /\ msgs[msg].len \in Nat /\ pos \in Nat /\ cnt \in Nat
    BY <2>1, AtMessage
  <2>3. Taken \in 0 .. cnt
    <3>1. Len(infifo) \in Nat /\ Len(infifo) <= cnt
      BY <2>1, LenProperties
    <3>2. Taken = Len(infifo)
      <4>1. Taken = Min({Len(infifo), msgs[msg].len - pos}) /\ msgs[msg].len - pos \in Int
        BY <2>1, <2>2 DEF Taken
      <4>2. Len(infifo) <= msgs[msg].len - pos
        BY <2>1, <2>2, <3>1
      <4>3. \A b \in Int : Len(infifo) <= b => Min({Len(infifo), b}) = Len(infifo)
        <5> TAKE b \in Int
        <5> HAVE Len(infifo) <= b
        <5>1. Len(infifo) \in Int
          BY <3>1
        <5>2. QED
          BY <5>1, MinOfTwo
      <4>4. QED
        BY <4>1, <4>2, <4>3
    <3>3. QED
      BY <2>2, <3>1, <3>2
  <2>4. /\ pos' = pos + Taken /\ cnt' = cnt - Taken /\ pc' = IF cnt' > 0 THEN "pause" ELSE "end"
        /\ UNCHANGED <<msgs, msg, rem, wr_sz, filled, devmsg, ret>>
    BY <1>8 DEF TakeInput, CountDown, Goto, mode
  <2>5. /\ pos' \in Nat /\ cnt' \in Nat /\ pos' + cnt' <= msgs[msg].len /\ pos' <= msgs[msg].len
        /\ ~(cnt' > 0) => cnt' = 0
    <3>1. PICK t, l : t = Taken /\ l = msgs[msg].len
      OBVIOUS
    <3>2. t \in 0 .. cnt /\ l \in Nat /\ pos \in Nat /\ cnt \in Nat /\ pos + cnt <= l
      BY <2>1, <2>2, <2>3, <3>1
    <3>3. pos' = pos + t /\ cnt' = cnt - t
      BY <2>4, <3>1
    <3>4. pos' \in Nat /\ cnt' \in Nat /\ pos' + cnt' <= l /\ pos' <= l /\ (~(cnt' > 0) => cnt' = 0)
      BY <3>2, <3>3
    <3>5. QED
      BY <3>1, <3>4
  <2>6. QED
    BY <2>1, <2>4, <2>5 DEF ArrayOK
<1>9. CASE Refill
  <2>1. Chunk(msg, pos)' = Chunk(msg, pos)
    BY <1>9 DEF Chunk, Refill, position
  <2>2. cnt \in Nat /\ ~(cnt > 0) => cnt = 0
    OBVIOUS
  <2>3. QED
    BY <1>9, <2>1, <2>2 DEF Refill, Goto, ArrayOK, position
<1>10. CASE EndMessage
  <2>1. /\ pc = "end" /\ cnt = 0 /\ msg <= Len(msgs) /\ rem = Len(msgs) - msg + 1 /\ ret = "none"
        /\ filled \in BOOLEAN /\ msgs \in Seq(Message)
    BY <1>10 DEF EndMessage, ArrayOK
  <2>2. /\ Len(msgs) \in Nat /\ msg \in 1 .. Len(msgs) /\ msgs[msg].len \in Nat \ {0}
        /\ pos \in Nat /\ pos <= msgs[msg].len
    BY <2>1, AtMessage
  <2>3. /\ IF msgs[msg].len = pos THEN rem' = rem - 1 /\ msg' = msg + 1 /\ pos' = 0
           ELSE rem' = rem /\ msg' = msg /\ pos' = pos
        /\ (pc' = "ready" /\ ret' = ret) \/ (pc' = "out" /\ ret' = "error")
        /\ UNCHANGED <<msgs, cnt, filled>>
    BY <1>10, <2>1 DEF EndMessage, Goto, Fails, mode
  <2>4. msg + 1 <= Len(msgs) => msgs[msg + 1].len \in Nat \ {0}
    <3>1. msg + 1 <= Len(msgs) => msg + 1 \in 1 .. Len(msgs)
      BY <2>2
    <3>2. msg + 1 <= Len(msgs) => msgs[msg + 1] \in Message
      BY <2>1, <3>1, ElementOfSeq
    <3>3. QED
      BY <3>2 DEF Message
  <2>5. /\ msg' \in 1 .. Len(msgs) + 1 /\ rem' = Len(msgs) - msg' + 1 /\ pos' \in Nat
        /\ IF msg' <= Len(msgs) THEN pos' < msgs[msg'].len ELSE pos' = 0
    <3>1. CASE msgs[msg].len = pos
      BY <2>1, <2>2, <2>3, <2>4, <3>1
    <3>2. CASE msgs[msg].len # pos
      BY <2>1, <2>2, <2>3, <3>2
    <3>3. QED
      BY <3>1, <3>2
  <2>6. msg' <= Len(msgs) => pos' <= msgs[msg'].len
    <3>1. msg' <= Len(msgs) => msgs[msg'].len \in Nat
      BY <2>2, <2>3, <2>4
    <3>2. QED
      BY <2>5, <3>1
  <2>7. QED
    BY <2>1, <2>3, <2>5, <2>6 DEF ArrayOK
<1>11. CASE PollWriteReady
  <2>1. /\ pc = "ready" /\ msg \in 1 .. Len(msgs) + 1 /\ rem = Len(msgs) - msg + 1 /\ ret = "none"
        /\ IF msg <= Len(msgs) THEN pos < msgs[msg].len ELSE pos = 0
    BY <1>11 DEF PollWriteReady, ArrayOK
  <2>2. /\ UNCHANGED <<msgs, msg, rem, pos, cnt, filled>>
        /\ \/ rem > 0 /\ pc' = "message" /\ ret' = ret
           \/ rem = 0 /\ pc' = "out" /\ ret' = "num"
           \/ pc' = "out" /\ ret' = "error"
    BY <1>11 DEF PollWriteReady, Goto, Fails, position, mode
  <2>3. Len(msgs) \in Nat
    BY LenProperties DEF ArrayOK
  <2>4. (rem > 0 => msg <= Len(msgs)) /\ (rem = 0 => msg = Len(msgs) + 1 /\ ~(msg <= Len(msgs)))
    BY <2>1, <2>3
  <2>5. CASE rem > 0 /\ pc' = "message" /\ ret' = ret
    BY <2>1, <2>2, <2>4, <2>5 DEF ArrayOK
  <2>6. CASE rem = 0 /\ pc' = "out" /\ ret' = "num"
    BY <2>1, <2>2, <2>4, <2>6 DEF ArrayOK
  <2>7. CASE pc' = "out" /\ ret' = "error"
    BY <2>2, <2>7 DEF ArrayOK
  <2>8. QED
    BY <2>2, <2>5, <2>6, <2>7
<1>12. CASE RecoverBusBusy
  BY <1>12 DEF RecoverBusBusy, Goto, ArrayOK, position, mode
<1>13. CASE OutErr
  BY <1>13 DEF OutErr, Goto, ArrayOK, mode
<1>14. CASE Interrupt \/ Controller
  <2>1. UNCHANGED <<pc, msgs, msg, rem, pos, cnt, wr_sz, filled, devmsg, ret>>
    BY <1>14 DEF Interrupt, Controller, ErrorInterrupt, ServiceInterrupt, TakeEntry, ReceiveByte,
                 BusError, position, mode
  <2>2. Chunk(msg, pos)' = Chunk(msg, pos)
    BY <2>1 DEF Chunk
  <2>3. QED
    BY <2>1, <2>2 DEF ArrayOK
<1>15. QED
  BY <1>1, <1>2, <1>3, <1>4, <1>5, <1>6, <1>7, <1>8, <1>9, <1>10, <1>11, <1>12, <1>13, <1>14
     DEF Next, Driver

-----------------------------------------------------------------------------
(* The bytes on their way.                                                 *)

LEMMA LastBytesType == ASSUME NEW q \in Seq(Items) PROVE LastBytes(q) \in Nat
<1>1. CASE q = <<>>
  BY <1>1 DEF LastBytes
<1>2. CASE q # <<>>
  <2>1. Len(q) \in 1 .. Len(q)
    BY <1>2, LenProperties, EmptySeq
  <2>2. q[Len(q)] \in Items
    BY <2>1, ElementOfSeq
  <2>3. QED
    BY <1>2, <2>2 DEF LastBytes, Items
<1>3. QED
  BY <1>1, <1>2

LEMMA ComingTypes ==
  ASSUME out \in Seq(Items), infifo \in Seq(Nat), due \in Nat
  PROVE  /\ Len(infifo) \in Nat /\ LastBytes(out) \in Nat /\ Coming \in Nat
         /\ Len(infifo) <= Coming
         /\ Coming = 0 => due = 0 /\ infifo = <<>> /\ Len(infifo) = 0 /\ LastBytes(out) = 0
<1>1. Len(infifo) \in Nat /\ (Len(infifo) = 0 => infifo = <<>>) /\ LastBytes(out) \in Nat
  BY LenProperties, EmptySeq, LastBytesType
<1>2. QED
  BY <1>1 DEF Coming

LEMMA AskingNone ==
  ASSUME out \in Seq(Items), Asking(out), LastBytes(out) = 0
  PROVE  Silent(out)
<1>1. ASSUME NEW i \in 1 .. Len(out) PROVE out[i].tag # "split" /\ out[i].bytes = 0
  <2>1. Len(out) \in Nat /\ out # <<>>
    BY LenProperties, EmptySeq
  <2>2. i < Len(out) \/ i = Len(out)
    BY <2>1
  <2>3. i = Len(out) => out[i].bytes = 0
    BY <2>1 DEF LastBytes
  <2>4. QED
    BY <2>2, <2>3 DEF Asking
<1>2. QED
  BY <1>1 DEF Silent

(* Nothing of it moves.                                                    *)
LEMMA ComingSame ==
  ASSUME ComingOK, UNCHANGED <<out, infifo, due, sent, got>>,
         (Working \/ ret = "num")' => Working \/ ret = "num",
         (Working \/ ret = "num")' => Issued' = Issued /\ (Issued => cnt' = cnt),
         Sound' => Sound
  PROVE  ComingOK'
<1>1. Coming' = Coming /\ Asking(out)' = Asking(out)
  BY DEF Coming
<1>2. QED
  BY <1>1 DEF ComingOK

(* The FIFOs are emptied.                                                  *)
LEMMA ComingFlushed ==
  ASSUME ComingOK, out' = <<>>, infifo' = <<>>, due' = 0, sent' \in Nat,
         (Working \/ ret = "num")' /\ Issued' => cnt' \in Nat,
         Sound' => sent' = Len(got')
  PROVE  ComingOK'
<1>1. /\ out' \in Seq(Items) /\ infifo' \in Seq(Nat) /\ Asking(out)' /\ Coming' = 0
      /\ Len(infifo)' = 0
  <2>1. Len(<<>>) = 0 /\ <<>> \in Seq(Items) /\ <<>> \in Seq(Nat)
    BY EmptySeq
  <2>2. QED
    BY <2>1 DEF Asking, Coming, LastBytes
<1>2. Issued' /\ (Working \/ ret = "num")' => Coming' = cnt' \/ (Coming' = 0 /\ cnt' > 0)
  BY <1>1
<1>3. ASSUME Sound' PROVE sent' = Len(got') + Len(infifo') /\ \A i \in 1 .. Len(infifo') : infifo'[i] = Len(got') + i
  <2>1. sent' = Len(got') /\ sent' \in Nat
    BY <1>3
  <2>2. QED
    BY <1>1, <2>1
<1>4. QED
  BY <1>1, <1>2, <1>3 DEF ComingOK

(* The controller takes an entry: what it asks for was to come.            *)
LEMMA ComingTaken ==
  ASSUME ArrayOK, ComingOK, TakeEntry
  PROVE  ComingOK'
<1>1. /\ out \in Seq(Items) /\ infifo \in Seq(Nat) /\ due = 0 /\ out # <<>>
      /\ out' = Tail(out) /\ UNCHANGED <<infifo, sent, got, pc, ret, filled, msgs, msg, cnt>>
      /\ due' = Head(out).bytes + (IF Head(out).tag = "split" THEN 1 ELSE 0)
  BY DEF TakeEntry, ComingOK, position, mode
<1>2. /\ out' \in Seq(Items) /\ Len(out) \in Nat \ {0} /\ Len(out') = Len(out) - 1
      /\ Head(out) = out[1] /\ \A i \in 1 .. Len(out') : out'[i] = out[i + 1]
  <2>1. Len(out) \in Nat \ {0} /\ out' \in Seq(Items) /\ Len(out') = Len(out) - 1 /\ Head(out) = out[1]
    BY <1>1, HeadTailProperties, LenProperties, EmptySeq
  <2>2. \A i \in 1 .. Len(out') : out'[i] = out[i + 1]
    BY <1>1, HeadTailProperties
  <2>3. QED
    BY <2>1, <2>2
<1>3. out[1] \in Items /\ out[1].bytes \in Nat /\ 1 \in 1 .. Len(out)
  <2>1. 1 \in 1 .. Len(out)
    BY <1>2
  <2>2. out[1] \in Items
    BY <1>1, <2>1, ElementOfSeq
  <2>3. QED
    BY <2>1, <2>2 DEF Items
<1>4. due' \in Nat
  BY <1>1, <1>2, <1>3
<1>5. ASSUME Asking(out) PROVE Asking(out)' /\ Coming' = Coming
  <2>1. due' = out[1].bytes
    BY <1>1, <1>2, <1>3, <1>5 DEF Asking
  <2>2. Asking(out')
    <3>1. \A i \in 1 .. Len(out') : i + 1 \in 1 .. Len(out) /\ (i < Len(out') => i + 1 < Len(out))
      BY <1>2
    <3>2. QED
      BY <1>2, <1>5, <3>1 DEF Asking
  <2>3. LastBytes(out) = out[Len(out)].bytes
    BY <1>1 DEF LastBytes
  <2>4. CASE Len(out) = 1
    <3>1. out' = <<>>
      BY <1>2, <2>4, EmptySeq
    <3>2. LastBytes(out') = 0
      BY <3>1 DEF LastBytes
    <3>3. QED
      BY <1>1, <1>3, <2>1, <2>2, <2>3, <2>4, <3>2 DEF Coming
  <2>5. CASE Len(out) # 1
    <3>1. out' # <<>> /\ Len(out') \in 1 .. Len(out') /\ Len(out') + 1 = Len(out) /\ 1 < Len(out)
      BY <1>2, <2>5, EmptySeq
    <3>2. LastBytes(out') = out'[Len(out')].bytes /\ out'[Len(out')] = out[Len(out)]
      BY <1>2, <3>1 DEF LastBytes
    <3>3. due' = 0
      BY <1>3, <1>5, <2>1, <3>1 DEF Asking
    <3>4. QED
      BY <1>1, <2>2, <2>3, <3>2, <3>3 DEF Coming
  <2>6. QED
    BY <2>4, <2>5
<1>6. Working' = Working /\ Looping' = Looping /\ Issued' = Issued
  BY <1>1 DEF Working, Looping, Issued
<1>7. ASSUME Working \/ ret = "num"
      PROVE  /\ Asking(out)'
             /\ IF Issued THEN Coming' = cnt \/ (Coming' = 0 /\ cnt > 0) ELSE Coming' = 0
             /\ Sound' = Sound
  BY <1>1, <1>5, <1>6, <1>7 DEF ComingOK, Sound, Lost
<1>8. Sound' => Working \/ ret = "num"
  BY <1>1, <1>6 DEF Sound
<1>9. QED
  BY <1>1, <1>2, <1>4, <1>6, <1>7, <1>8 DEF ComingOK

(* The slave sends a byte.                                                 *)
LEMMA ComingReceived ==
  ASSUME ComingOK, ReceiveByte, got \in Seq(Entry)
  PROVE  ComingOK'
<1>1. /\ due > 0 /\ due' = due - 1 /\ sent' = sent + 1 /\ infifo' = Append(infifo, sent + 1)
      /\ UNCHANGED <<out, got, pc, ret, filled, msgs, msg, cnt>>
  BY DEF ReceiveByte, position, mode
<1>2. out \in Seq(Items) /\ infifo \in Seq(Nat) /\ due \in Nat /\ sent \in Nat
  BY DEF ComingOK
<1>3. /\ infifo' \in Seq(Nat) /\ Len(infifo') = Len(infifo) + 1 /\ Len(infifo) \in Nat
      /\ \A i \in 1 .. Len(infifo) : infifo'[i] = infifo[i]
      /\ infifo'[Len(infifo) + 1] = sent + 1
  BY <1>1, <1>2, AppendProperties, LenProperties
<1>4. LastBytes(out) \in Nat /\ Len(got) \in Nat
  BY <1>2, ComingTypes, LenProperties
<1>5. Coming' = Coming /\ Asking(out)' = Asking(out)
  BY <1>1, <1>2, <1>3, <1>4 DEF Coming
<1>6. Working' = Working /\ Issued' = Issued /\ Sound' = Sound
  BY <1>1, <1>5 DEF Working, Looping, Issued, Sound, Lost
<1>7. ASSUME Sound
      PROVE  sent' = Len(got) + Len(infifo') /\ \A i \in 1 .. Len(infifo') : infifo'[i] = Len(got) + i
  <2>1. sent = Len(got) + Len(infifo) /\ \A i \in 1 .. Len(infifo) : infifo[i] = Len(got) + i
    BY <1>7 DEF ComingOK
  <2>2. sent' = Len(got) + Len(infifo')
    BY <1>1, <1>2, <1>3, <1>4, <2>1
  <2>3. ASSUME NEW i \in 1 .. Len(infifo') PROVE infifo'[i] = Len(got) + i
    <3>1. i \in 1 .. Len(infifo) \/ i = Len(infifo) + 1
      BY <1>3
    <3>2. i = Len(infifo) + 1 => infifo'[i] = Len(got) + i
      BY <1>1, <1>3, <1>4, <2>1
    <3>3. QED
      BY <1>3, <2>1, <3>1, <3>2
  <2>4. QED
    BY <2>2, <2>3
<1>8. due' \in Nat /\ sent' \in Nat
  BY <1>1, <1>2
<1>9. QED
  BY <1>1, <1>2, <1>3, <1>5, <1>6, <1>7, <1>8 DEF ComingOK

(* The block is written into the FIFO, or as much of it as there is room   *)
(* for.                                                                    *)
LEMMA ComingFilled ==
  ASSUME ArrayOK, ComingOK, Fill
  PROVE  ComingOK'
<1>1. /\ pc = "fill" /\ pc' = "run" /\ filled' = TRUE /\ ret' = ret
      /\ msg' = Packed.msg /\ cnt' = Packed.cnt
      /\ UNCHANGED <<msgs, infifo, due, sent, got>>
  BY DEF Fill, Goto, bus
<1>2. /\ Working /\ Working' /\ Looping /\ Looping' /\ (Issued <=> msgs[msg].rd /\ filled)
      /\ (Issued' <=> msgs[msg'].rd)
  BY <1>1 DEF Working, Looping, Issued
<1>3. /\ out \in Seq(Items) /\ infifo \in Seq(Nat) /\ due \in Nat
      /\ Asking(out) /\ IF Issued THEN Coming = cnt \/ (Coming = 0 /\ cnt > 0) ELSE Coming = 0
  BY <1>2 DEF ComingOK
<1>4. CASE filled /\ UNCHANGED <<msg, rem, pos, cnt, devmsg, out>>
  <2>1. Issued' <=> Issued
    BY <1>1, <1>2, <1>4
  <2>2. Coming' = Coming /\ Asking(out)' = Asking(out)
    BY <1>1, <1>4 DEF Coming
  <2>3. Sound' => Sound
    BY <1>2, <1>4, <2>1, <2>2 DEF Sound, Lost
  <2>4. QED
    BY <1>1, <1>2, <1>3, <1>4, <2>1, <2>2, <2>3 DEF ComingOK
<1>5. ASSUME AtFill, NEW k \in Int, k <= Len(Packed.put), out' = out \o SubSeq(Packed.put, 1, k)
      PROVE  ComingOK'
  <2>1. /\ Packed \in LoopState /\ Packed.put \in Seq(Items) /\ Packed.msg \in msg .. Len(msgs)
        /\ Ready(Packed)
    BY <1>5, PackedReady DEF Along, LoopState
  <2>2. ~Issued /\ Coming = 0 /\ Silent(out)
    <3>1. ~Issued
      BY <1>2, <1>5 DEF AtFill
    <3>2. Coming = 0 /\ LastBytes(out) = 0
      BY <1>3, <3>1, ComingTypes
    <3>3. QED
      BY <1>3, <3>1, <3>2, AskingNone
  <2>3. due = 0 /\ Len(infifo) = 0
    BY <1>3, <2>2, ComingTypes
  <2>4. msgs[msg'].rd \in BOOLEAN
    BY <1>1, <1>5, <2>1, MessageType
  <2>5. Asking(Packed.put) /\ IF msgs[msg'].rd THEN LastBytes(Packed.put) = cnt' /\ cnt' > 0
                              ELSE LastBytes(Packed.put) = 0
    <3>1. ASSUME Silent(Packed.put) PROVE Asking(Packed.put) /\ LastBytes(Packed.put) = 0
      <4>1. Asking(Packed.put)
        BY <3>1 DEF Asking, Silent
      <4>2. Packed.put # <<>> => Len(Packed.put) \in 1 .. Len(Packed.put)
        BY <2>1, LenProperties, EmptySeq
      <4>3. LastBytes(Packed.put) = 0
        BY <3>1, <4>2 DEF Silent, LastBytes
      <4>4. QED
        BY <4>1, <4>3
    <3>2. QED
      BY <1>1, <2>1, <2>4, <3>1 DEF Ready
  <2> DEFINE p == SubSeq(Packed.put, 1, k)
  <2>6. p \in Seq(Items) /\ Asking(p) /\ (LastBytes(p) = 0 \/ LastBytes(p) = LastBytes(Packed.put))
    BY <1>5, <2>1, <2>5, AskingPrefix
  <2> HIDE DEF p
  <2>7. out' \in Seq(Items) /\ Asking(out') /\ LastBytes(out') = LastBytes(p)
    <3>1. out' = out \o p
      BY <1>5 DEF p
    <3>2. QED
      BY <1>3, <2>2, <2>6, <3>1, AskingConcat
  <2>8. Coming' = LastBytes(p) /\ Asking(out)'
    <3>1. LastBytes(p) \in Nat
      BY <2>6, LastBytesType
    <3>2. QED
      BY <1>1, <2>3, <2>7, <3>1 DEF Coming
  <2>9. IF Issued' THEN Coming' = cnt' \/ (Coming' = 0 /\ cnt' > 0) ELSE Coming' = 0
    BY <1>2, <2>5, <2>6, <2>8
  <2>10. Sound
    BY <1>2, <2>2 DEF Sound, Lost
  <2>11. QED
    BY <1>1, <1>3, <2>7, <2>8, <2>9, <2>10 DEF ComingOK
<1>6. QED
  BY <1>3, <1>4, <1>5, FillStep

(* What TakeInput takes is all there is in the FIFO, and no more than is   *)
(* still to come.                                                          *)
LEMMA AllTaken ==
  ASSUME ArrayOK, ComingOK, TakeInput
  PROVE  /\ Taken = Len(infifo) /\ Len(infifo) \in Nat /\ infifo \in Seq(Nat)
         /\ infifo' = <<>> /\ Len(infifo') = 0
         /\ Working /\ Working' /\ Issued /\ Issued' /\ devmsg = msg
         /\ Lost => Len(infifo) = 0
         /\ cnt \in Nat /\ pos \in Nat /\ cnt' = cnt - Taken /\ pos' = pos + Taken
         /\ Coming' = Coming - Taken /\ Coming \in Nat
<1>1. /\ pc = "check" /\ msgs[msg].rd /\ filled /\ devmsg = msg /\ msg <= Len(msgs)
      /\ pos + cnt <= msgs[msg].len
  BY DEF TakeInput, ArrayOK, Looping, Issued
<1>2. Working /\ Looping /\ Issued
  BY <1>1 DEF Working, Looping, Issued
<1>3. msg \in 1 .. Len(msgs) /\ msgs[msg].len \in Nat /\ pos \in Nat /\ cnt \in Nat
  BY <1>1, <1>2, AtMessage
<1>4. out \in Seq(Items) /\ infifo \in Seq(Nat) /\ due \in Nat
      /\ (Coming = cnt \/ (Coming = 0 /\ cnt > 0))
  BY <1>2 DEF ComingOK
<1>5. /\ Len(infifo) \in Nat /\ Len(infifo) <= Coming /\ Coming \in Nat
      /\ (Coming = 0 => Len(infifo) = 0)
  BY <1>4, ComingTypes
<1>6. Taken = Len(infifo)
  <2>1. Taken = Min({Len(infifo), msgs[msg].len - pos}) /\ msgs[msg].len - pos \in Int
    BY <1>1, <1>3 DEF Taken
  <2>2. Len(infifo) <= msgs[msg].len - pos
    BY <1>1, <1>3, <1>4, <1>5
  <2>3. \A b \in Int : Len(infifo) <= b => Min({Len(infifo), b}) = Len(infifo)
    <3> TAKE b \in Int
    <3> HAVE Len(infifo) <= b
    <3>1. Len(infifo) \in Int
      BY <1>5
    <3>2. QED
      BY <3>1, MinOfTwo
  <2>4. QED
    BY <2>1, <2>2, <2>3
<1>7. infifo' = <<>>
  <2>1. infifo' = SubSeq(infifo, Len(infifo) + 1, Len(infifo))
    BY <1>6 DEF TakeInput
  <2>2. QED
    BY <1>5, <2>1, SubSeqEmpty
<1>8. Len(infifo') = 0
  BY <1>7, EmptySeq
<1>9. /\ pos' = pos + Taken /\ cnt' = cnt - Taken /\ pc' \in {"pause", "end"}
      /\ UNCHANGED <<msgs, msg, filled, out, due>>
  BY DEF TakeInput, CountDown, Goto, mode
<1>10. Working' /\ Issued'
  BY <1>1, <1>9 DEF Working, Looping, Issued
<1>11. Coming' = Coming - Taken
  <2>1. LastBytes(out) \in Nat
    BY <1>4, ComingTypes
  <2>2. QED
    BY <1>4, <1>5, <1>6, <1>8, <1>9, <2>1 DEF Coming
<1>12. Lost => Len(infifo) = 0
  BY <1>4, <1>5 DEF Lost
<1>13. QED
  BY <1>1, <1>2, <1>3, <1>4, <1>5, <1>6, <1>7, <1>8, <1>9, <1>10, <1>11, <1>12

LEMMA InputStored ==
  ASSUME ArrayOK, ComingOK, TakeInput, got \in Seq(Entry)
  PROVE  /\ got' \in Seq(Entry) /\ Len(got') = Len(got) + Len(infifo) /\ Len(got) \in Nat
         /\ \A i \in 1 .. Len(got) : got'[i] = got[i]
         /\ \A i \in 1 .. Len(infifo) :
              got'[Len(got) + i] = [msg |-> msg, pos |-> pos + i, byte |-> infifo[i]]
<1> DEFINE new == [i \in 1 .. Len(infifo) |-> [msg |-> msg, pos |-> pos + i, byte |-> infifo[i]]]
<1>1. /\ Taken = Len(infifo) /\ Len(infifo) \in Nat /\ infifo \in Seq(Nat) /\ devmsg = msg
      /\ pos \in Nat /\ Working /\ Issued
  BY AllTaken
<1>2. msg \in Nat
  <2>1. msg \in 1 .. Len(msgs) + 1 /\ Len(msgs) \in Nat
    BY <1>1, LenProperties DEF ArrayOK
  <2>2. QED
    BY <2>1
<1>3. got' = got \o new
  BY <1>1 DEF TakeInput
<1>4. new \in Seq(Entry) /\ Len(new) = Len(infifo)
  <2>1. \A i \in 1 .. Len(infifo) : infifo[i] \in Nat /\ pos + i \in Nat
    BY <1>1, ElementOfSeq
  <2>2. \A i \in 1 .. Len(infifo) : [msg |-> msg, pos |-> pos + i, byte |-> infifo[i]] \in Entry
    BY <1>2, <2>1 DEF Entry
  <2>3. QED
    BY <1>1, <2>2, IsASeq, LenProperties
<1>5. \A i \in 1 .. Len(infifo) : new[i] = [msg |-> msg, pos |-> pos + i, byte |-> infifo[i]]
  OBVIOUS
<1> HIDE DEF new
<1>6. /\ got' \in Seq(Entry) /\ Len(got') = Len(got) + Len(new) /\ Len(got) \in Nat
      /\ \A i \in 1 .. Len(got) + Len(new) : got'[i] = IF i <= Len(got) THEN got[i] ELSE new[i - Len(got)]
  <2>1. got \in Seq(Entry)
    OBVIOUS
  <2>2. \A t : t = got \o new =>
          /\ t \in Seq(Entry) /\ Len(t) = Len(got) + Len(new) /\ Len(got) \in Nat
          /\ \A i \in 1 .. Len(got) + Len(new) : t[i] = IF i <= Len(got) THEN got[i] ELSE new[i - Len(got)]
    BY <1>4, <2>1, Appended
  <2>3. QED
    BY <1>3, <2>2
<1>7. \A i \in 1 .. Len(got) : got'[i] = got[i]
  BY <1>4, <1>6
<1>8. ASSUME NEW i \in 1 .. Len(infifo)
      PROVE  got'[Len(got) + i] = [msg |-> msg, pos |-> pos + i, byte |-> infifo[i]]
  <2>1. /\ Len(got) + i \in 1 .. Len(got) + Len(new) /\ ~(Len(got) + i <= Len(got))
        /\ Len(got) + i - Len(got) = i
    BY <1>1, <1>4, <1>6
  <2>2. got'[Len(got) + i] = new[i]
    BY <1>6, <2>1
  <2>3. QED
    BY <1>5, <2>2
<1>9. QED
  BY <1>1, <1>4, <1>6, <1>7, <1>8

LEMMA ComingInput ==
  ASSUME ArrayOK, ComingOK, TakeInput, got \in Seq(Entry)
  PROVE  ComingOK'
<1>1. /\ Taken = Len(infifo) /\ Len(infifo) \in Nat
      /\ infifo' = <<>> /\ Len(infifo') = 0
      /\ Working /\ Working' /\ Issued /\ Issued'
      /\ Lost => Len(infifo) = 0
      /\ cnt \in Nat /\ cnt' = cnt - Taken
      /\ Coming' = Coming - Taken /\ Coming \in Nat
  BY AllTaken
<1>2. Len(got') = Len(got) + Len(infifo) /\ Len(got) \in Nat
  BY InputStored
<1>3. UNCHANGED <<out, due, sent>>
  BY DEF TakeInput, bus
<1>4. /\ out \in Seq(Items) /\ due \in Nat /\ sent \in Nat /\ Asking(out)
      /\ (Coming = cnt \/ (Coming = 0 /\ cnt > 0))
      /\ (Sound => sent = Len(got) + Len(infifo))
  BY <1>1 DEF ComingOK
<1>5. Coming' = cnt' \/ (Coming' = 0 /\ cnt' > 0)
  <2>1. CASE Coming = cnt
    BY <1>1, <2>1
  <2>2. CASE Coming # cnt
    <3>1. Lost /\ Len(infifo) = 0 /\ Coming = 0 /\ cnt > 0
      BY <1>1, <1>4, <2>2 DEF Lost
    <3>2. QED
      BY <1>1, <3>1
  <2>3. QED
    BY <2>1, <2>2
<1>6. ASSUME Sound' PROVE sent' = Len(got') + Len(infifo')
  <2>1. Coming' = cnt'
    BY <1>1, <1>6 DEF Sound, Lost
  <2>2. Coming = cnt
    BY <1>1, <2>1
  <2>3. Sound
    BY <1>1, <2>2 DEF Sound, Lost
  <2>4. QED
    BY <1>1, <1>2, <1>3, <1>4, <2>3
<1>7. infifo' \in Seq(Nat) /\ \A i \in 1 .. Len(infifo') : infifo'[i] = Len(got') + i
  BY <1>1, EmptySeq
<1>8. QED
  BY <1>1, <1>3, <1>4, <1>5, <1>6, <1>7 DEF ComingOK

(* A message that ends has nothing more to come.                           *)
LEMMA ComingEnded ==
  ASSUME ArrayOK, ComingOK, EndMessage, got \in Seq(Entry)
  PROVE  ComingOK'
<1>1. /\ pc = "end" /\ pc' \in {"ready", "out"} /\ (pc' = "out" => ret' = "error")
      /\ UNCHANGED <<sent, got, cnt>>
      /\ \/ UNCHANGED <<out, infifo, due>>
         \/ out' = <<>> /\ infifo' = <<>> /\ due' = 0
  BY DEF EndMessage, Goto, Fails, Flushed, fifos, bus
<1>2. Working /\ Looping /\ cnt = 0 /\ ~Issued'
  BY <1>1 DEF Working, Looping, ArrayOK, Issued
<1>3. /\ out \in Seq(Items) /\ infifo \in Seq(Nat) /\ due \in Nat /\ sent \in Nat
      /\ Asking(out) /\ Coming = 0 /\ (Sound => sent = Len(got) + Len(infifo))
  BY <1>2 DEF ComingOK
<1>4. Sound /\ Len(infifo) = 0 /\ infifo = <<>>
  BY <1>2, <1>3, ComingTypes DEF Sound, Lost
<1>5. sent = Len(got) /\ Len(got) \in Nat
  BY <1>3, <1>4, LenProperties
<1>6. CASE UNCHANGED <<out, infifo, due>>
  <2>1. Coming' = Coming /\ Asking(out)' = Asking(out)
    BY <1>6 DEF Coming
  <2>2. QED
    BY <1>1, <1>2, <1>3, <1>4, <1>5, <1>6, <2>1 DEF ComingOK
<1>7. CASE out' = <<>> /\ infifo' = <<>> /\ due' = 0
  BY <1>1, <1>2, <1>3, <1>5, <1>7, ComingFlushed
<1>8. QED
  BY <1>1, <1>6, <1>7

LEMMA ComingKept ==
  ASSUME ArrayOK, ComingOK, got \in Seq(Entry), [Next]_vars
  PROVE  ComingOK'
<1> USE DEF Looping, Working, Issued
<1>1. CASE UNCHANGED vars
  <2>1. UNCHANGED <<out, infifo, due, sent, got, pc, ret, msgs, msg, filled, cnt>>
    BY <1>1 DEF vars, position, mode, controller, fifos, bus
  <2>2. Sound' = Sound
    BY <2>1 DEF Sound, Lost, Coming
  <2>3. QED
    BY <2>1, <2>2, ComingSame
<1>2. CASE Xfer
  <2>1. /\ out' = <<>> /\ infifo' = <<>> /\ due' = 0 /\ sent' = 0 /\ got' = <<>> /\ pc' = "message"
    BY <1>2 DEF Xfer, Flushed, Goto
  <2>2. Len(<<>>) = 0 /\ ~Issued'
    BY <2>1, EmptySeq
  <2>3. QED
    BY <2>1, <2>2, ComingFlushed
<1>3. CASE StartMessage
  <2>1. /\ pc = "message" /\ (pc' = "pause" \/ (pc' = "out" /\ ret' = "error"))
        /\ filled' = BlockMode
        /\ UNCHANGED <<out, infifo, due, sent, got, msgs, msg>>
    BY <1>3 DEF StartMessage, Goto, Fails, fifos, bus
  <2>2. ~Issued /\ ~Issued'
    BY <2>1 DEF BlockMode
  <2>3. Sound
    BY <2>1 DEF Sound, Lost
  <2>4. QED
    BY <2>1, <2>2, <2>3, ComingSame
<1>4. CASE Pause
  <2>1. /\ pc = "pause" /\ (pc' = "fill" \/ (pc' = "out" /\ ret' = "error"))
        /\ UNCHANGED <<out, infifo, due, sent, got, msgs, msg, filled, cnt>>
    BY <1>4 DEF Pause, Goto, Fails, fifos, bus, mode, position
  <2>2. Sound' => Sound
    BY <2>1 DEF Sound, Lost, Coming
  <2>3. QED
    BY <2>1, <2>2, ComingSame
<1>5. CASE Fill
  BY <1>5, ComingFilled
<1>6. CASE Run
  <2>1. /\ pc = "run" /\ (pc' = "check" \/ (pc' = "out" /\ ret' = "error"))
        /\ UNCHANGED <<out, infifo, due, sent, got, msgs, msg, filled, cnt>>
    BY <1>6 DEF Run, Goto, Fails, fifos, bus, mode, position
  <2>2. Sound' => Sound
    BY <2>1 DEF Sound, Lost, Coming
  <2>3. QED
    BY <2>1, <2>2, ComingSame
<1>7. CASE CheckError
  <2>1. /\ pc' \in {"recover", "out"} /\ ret' = "error"
        /\ UNCHANGED <<out, infifo, due, sent, got>>
    BY <1>7 DEF CheckError, Goto, controller, fifos, bus
  <2>2. ~Sound'
    BY <2>1 DEF Sound
  <2>3. QED
    BY <2>1, <2>2, ComingSame
<1>8. CASE TakeInput
  BY <1>8, ComingInput
<1>9. CASE Refill
  <2>1. /\ pc = "check" /\ pc' \in {"pause", "end"} /\ devmsg = msg /\ ~msgs[msg].rd
        /\ UNCHANGED <<out, infifo, due, sent, got, msgs, msg>>
    BY <1>9 DEF Refill, Goto, ArrayOK, position, controller, fifos, bus
  <2>2. ~Issued /\ ~Issued'
    BY <2>1
  <2>3. Sound
    BY <2>1, <2>2 DEF Sound, Lost
  <2>4. QED
    BY <2>1, <2>2, <2>3, ComingSame
<1>10. CASE EndMessage
  BY <1>10, ComingEnded
<1>11. CASE PollWriteReady
  <2>1. /\ pc = "ready" /\ pc' \in {"message", "out"}
        /\ UNCHANGED <<out, infifo, due, sent, got>>
    BY <1>11 DEF PollWriteReady, Goto, Fails, controller, fifos, bus
  <2>2. Sound
    BY <2>1 DEF Sound, Lost
  <2>3. QED
    BY <2>1, <2>2, ComingSame
<1>12. CASE RecoverBusBusy
  <2>1. /\ pc = "recover" /\ pc' = "out" /\ out' = <<>> /\ infifo' = <<>> /\ due' = 0
        /\ UNCHANGED <<ret, sent, got>>
    BY <1>12 DEF RecoverBusBusy, Flushed, Goto, bus
  <2>2. ret = "num" => sent = Len(got)
    <3>1. SUFFICES ASSUME ret = "num" PROVE sent = Len(got)
      OBVIOUS
    <3>2. Coming = 0 /\ Sound
      BY <2>1, <3>1 DEF ComingOK, Sound
    <3>3. Len(infifo) = 0 /\ sent = Len(got) + Len(infifo) /\ Len(got) \in Nat
      BY <3>2, ComingTypes, LenProperties DEF ComingOK
    <3>4. QED
      BY <3>3
  <2>3. Sound' => sent' = Len(got')
    BY <2>1, <2>2 DEF Sound
  <2>4. sent' \in Nat
    BY <2>1 DEF ComingOK
  <2>5. QED
    BY <2>1, <2>3, <2>4, ComingFlushed
<1>13. CASE OutErr
  <2>1. /\ pc = "out" /\ pc' = "idle" /\ UNCHANGED <<out, infifo, due, sent, got, ret>>
    BY <1>13 DEF OutErr, Goto, controller, fifos, bus
  <2>2. Sound' => Sound
    BY <2>1 DEF Sound
  <2>3. QED
    BY <2>1, <2>2, ComingSame
<1>14. CASE ErrorInterrupt
  <2>1. /\ UNCHANGED <<sent, got, pc, ret, msgs, msg, filled, cnt>>
        /\ UNCHANGED <<out, infifo, due>> \/ (out' = <<>> /\ infifo' = <<>> /\ due' = 0)
    BY <1>14 DEF ErrorInterrupt, Flushed, fifos, bus, position, mode
  <2>2. CASE UNCHANGED <<out, infifo, due>>
    <3>1. Sound' => Sound
      BY <2>1, <2>2 DEF Sound, Lost, Coming
    <3>2. QED
      BY <2>1, <2>2, <3>1, ComingSame
  <2>3. CASE out' = <<>> /\ infifo' = <<>> /\ due' = 0
    <3>1. ASSUME Sound' PROVE sent' = Len(got')
      <4>1. Coming' = 0
        <5>1. Len(<<>>) = 0
          BY EmptySeq
        <5>2. QED
          BY <2>3, <5>1 DEF Coming, LastBytes
      <4>2. Working \/ ret = "num"
        BY <2>1, <3>1 DEF Sound
      <4>3. Issued => cnt = 0
        BY <2>1, <3>1, <4>1 DEF Sound, Lost
      <4>4. Coming = 0 /\ Sound
        BY <2>1, <3>1, <4>2, <4>3 DEF ComingOK, Sound, Lost
      <4>5. Len(infifo) = 0 /\ sent = Len(got) + Len(infifo) /\ Len(got) \in Nat
        BY <4>4, ComingTypes, LenProperties DEF ComingOK
      <4>6. QED
        BY <2>1, <4>5
    <3>2. sent' \in Nat
      BY <2>1 DEF ComingOK
    <3>3. (Working \/ ret = "num")' /\ Issued' => cnt' \in Nat
      BY <2>1 DEF ArrayOK
    <3>4. QED
      BY <2>3, <3>1, <3>2, <3>3, ComingFlushed
  <2>4. QED
    BY <2>1, <2>2, <2>3
<1>15. CASE ServiceInterrupt \/ BusError
  <2>1. UNCHANGED <<out, infifo, due, sent, got, pc, ret, msgs, msg, filled, cnt>>
    BY <1>15 DEF ServiceInterrupt, BusError, position, mode, controller, fifos, bus
  <2>2. Sound' = Sound
    BY <2>1 DEF Sound, Lost, Coming
  <2>3. QED
    BY <2>1, <2>2, ComingSame
<1>16. CASE TakeEntry
  BY <1>16, ComingTaken
<1>17. CASE ReceiveByte
  BY <1>17, ComingReceived
<1>18. QED
  BY <1>1, <1>2, <1>3, <1>4, <1>5, <1>6, <1>7, <1>8, <1>9, <1>10, <1>11, <1>12, <1>13, <1>14,
     <1>15, <1>16, <1>17 DEF Next, Driver, Interrupt, Controller

-----------------------------------------------------------------------------
(* The buffers.                                                            *)

(* Nothing is stored, and no byte of a message that reads is passed.       *)
LEMMA GotSame ==
  ASSUME GotOK, UNCHANGED <<got, msgs>>, msgs \in Seq(Message),
         (Working \/ ret = "num")' => Working \/ ret = "num",
         (Working \/ ret = "num")' =>
           \A m \in 1 .. Len(msgs) : msgs[m].rd =>
             /\ \A p \in Nat : Passed(m, p) => Passed(m, p)'
             /\ \A p \in 1 .. msgs[m].len : Passed(m, p)' => Passed(m, p)
  PROVE  GotOK'
<1>1. got \in Seq(Entry)
  BY DEF GotOK
<1>2. ASSUME (Working \/ ret = "num")', NEW i \in 1 .. Len(got)
      PROVE  /\ got[i].byte = i /\ got[i].msg \in 1 .. Len(msgs) /\ msgs[got[i].msg].rd
             /\ Passed(got[i].msg, got[i].pos)'
             /\ i > 1 => Precedes(got[i - 1], got[i])
  <2>1. /\ got[i].byte = i /\ got[i].msg \in 1 .. Len(msgs) /\ msgs[got[i].msg].rd
        /\ Passed(got[i].msg, got[i].pos)
        /\ i > 1 => Precedes(got[i - 1], got[i])
    BY <1>2 DEF GotOK
  <2>2. got[i] \in Entry
    BY <1>1, <1>2, ElementOfSeq
  <2>3. got[i].pos \in Nat
    BY <2>2 DEF Entry
  <2>4. Passed(got[i].msg, got[i].pos)'
    <3>1. PICK m, p : m = got[i].msg /\ p = got[i].pos
      OBVIOUS
    <3>2. Passed(m, p)'
      BY <1>2, <2>1, <2>3, <3>1
    <3>3. QED
      BY <3>1, <3>2 DEF Passed
  <2>5. QED
    BY <2>1, <2>4
<1>3. ASSUME (Working \/ ret = "num")', NEW m \in 1 .. Len(msgs), msgs[m].rd,
             NEW p \in 1 .. msgs[m].len, Passed(m, p)'
      PROVE  \E i \in 1 .. Len(got) : Stored(m, p, got[i])
  BY <1>3 DEF GotOK
<1>4. QED
  BY <1>1, <1>2, <1>3, Zenon DEF GotOK, Passed

(* Messages that are packed with the one at hand write.                    *)
LEMMA GotFilled ==
  ASSUME ArrayOK, out \in Seq(Items), GotOK, Fill
  PROVE  GotOK'
<1>1. /\ pc = "fill" /\ msg' = Packed.msg /\ pos' = Packed.pos /\ UNCHANGED <<msgs, got>>
  BY DEF Fill
<1>2. Working /\ msgs \in Seq(Message)
  BY <1>1 DEF Working, Looping, ArrayOK
<1>3. CASE UNCHANGED <<msg, pos>>
  <2>1. \A m, p : Passed(m, p)' = Passed(m, p)
    BY <1>3 DEF Passed
  <2>2. QED
    BY <1>1, <1>2, <2>1, GotSame
<1>4. CASE AtFill
  <2>1. Along(Packed) /\ Ready(Packed)
    BY <1>4, PackedReady
  <2>2. PICK n : n = Packed.msg
    OBVIOUS
  <2>3. /\ msg' = n /\ n \in Nat /\ n \in msg .. Len(msgs) /\ pos \in Nat /\ msg \in Nat
        /\ \A m \in msg .. n - 1 : ~msgs[m].rd
        /\ msgs[n].rd => pos' = IF n = msg THEN pos ELSE 0
    <3>1. pos \in Nat /\ msg \in 1 .. Len(msgs)
      BY <1>4, LenProperties DEF AtFill
    <3>2. n \in Nat /\ n \in msg .. Len(msgs) /\ \A m \in msg .. n - 1 : ~msgs[m].rd
      BY <2>1, <2>2, LenProperties DEF Along, LoopState
    <3>3. msgs[n].rd => pos' = IF n = msg THEN pos ELSE 0
      BY <1>1, <2>1, <2>2 DEF Ready
    <3>4. msg' = n /\ msg \in Nat
      BY <1>1, <2>2, <3>1
    <3>5. QED
      BY <3>1, <3>2, <3>3, <3>4
  <2>4. ASSUME NEW m \in 1 .. Len(msgs), msgs[m].rd PROVE m <= msg - 1 \/ m >= n
    <3>1. m \in msg .. n - 1 \/ m <= msg - 1 \/ m >= n
      BY <2>3
    <3>2. QED
      BY <2>3, <2>4, <3>1
  <2>5. ASSUME NEW m \in 1 .. Len(msgs), msgs[m].rd, NEW p \in Nat, Passed(m, p)
        PROVE  Passed(m, p)'
    <3>1. m < msg \/ (m = msg /\ p <= pos)
      BY <2>5 DEF Passed
    <3>2. m < n \/ (m = n /\ n = msg /\ p <= pos)
      BY <2>3, <2>4, <2>5, <3>1
    <3>3. QED
      BY <2>3, <2>5, <3>2 DEF Passed
  <2>6. ASSUME NEW m \in 1 .. Len(msgs), msgs[m].rd, NEW p \in 1 .. msgs[m].len, Passed(m, p)'
        PROVE  Passed(m, p)
    <3>1. m < n \/ (m = n /\ p <= pos')
      BY <2>3, <2>6 DEF Passed
    <3>2. m < n => m < msg
      BY <2>3, <2>4, <2>6
    <3>3. m = n /\ p <= pos' => m = msg /\ p <= pos
      <4>1. p >= 1
        OBVIOUS
      <4>2. QED
        BY <2>3, <2>6, <4>1
    <3>4. QED
      BY <3>1, <3>2, <3>3 DEF Passed
  <2>7. QED
    BY <1>1, <1>2, <2>5, <2>6, GotSame
<1>5. QED
  BY <1>3, <1>4, FillStep

LEMMA GotEnded ==
  ASSUME ArrayOK, GotOK, EndMessage
  PROVE  GotOK'
<1>1. /\ pc = "end" /\ UNCHANGED <<msgs, got, cnt>> /\ cnt = 0
      /\ IF msgs[msg].len = pos THEN msg' = msg + 1 /\ pos' = 0 ELSE msg' = msg /\ pos' = pos
  BY DEF EndMessage, ArrayOK, Looping
<1>2. Working /\ msgs \in Seq(Message) /\ msg <= Len(msgs)
  BY <1>1 DEF Working, Looping, ArrayOK
<1>3. msg \in 1 .. Len(msgs) /\ Len(msgs) \in Nat /\ pos \in Nat /\ pos <= msgs[msg].len
  BY <1>2, AtMessage
<1>4. ASSUME NEW m \in 1 .. Len(msgs), NEW p \in Nat, Passed(m, p)
      PROVE  Passed(m, p)'
  <2>1. m < msg \/ (m = msg /\ p <= pos)
    BY <1>4 DEF Passed
  <2>2. CASE msgs[msg].len = pos
    <3>1. m < msg'
      BY <1>1, <1>3, <2>1, <2>2
    <3>2. QED
      BY <3>1 DEF Passed
  <2>3. CASE msgs[msg].len # pos
    BY <1>1, <2>1, <2>3 DEF Passed
  <2>4. QED
    BY <2>2, <2>3
<1>5. ASSUME NEW m \in 1 .. Len(msgs), NEW p \in 1 .. msgs[m].len, Passed(m, p)'
      PROVE  Passed(m, p)
  <2>1. m < msg' \/ (m = msg' /\ p <= pos')
    BY <1>5 DEF Passed
  <2>2. CASE msgs[msg].len = pos
    <3>1. m < msg \/ m = msg
      BY <1>1, <1>3, <2>1, <2>2
    <3>2. m = msg => p <= pos
      BY <2>2
    <3>3. QED
      BY <3>1, <3>2 DEF Passed
  <2>3. CASE msgs[msg].len # pos
    BY <1>1, <2>1, <2>3 DEF Passed
  <2>4. QED
    BY <2>2, <2>3
<1>6. QED
  BY <1>1, <1>2, <1>4, <1>5, GotSame

(* The input goes on where the buffers end, and where the slave has got to.*)
LEMMA GotInput ==
  ASSUME ArrayOK, ComingOK, GotOK, TakeInput
  PROVE  GotOK'
<1> DEFINE n == Len(infifo)
           L == Len(got)
<1>1. /\ n \in Nat /\ L \in Nat /\ got' \in Seq(Entry) /\ Len(got') = L + n
      /\ \A i \in 1 .. L : got'[i] = got[i]
      /\ \A i \in 1 .. n : got'[L + i] = [msg |-> msg, pos |-> pos + i, byte |-> infifo[i]]
      /\ got \in Seq(Entry)
  BY AllTaken, InputStored DEF GotOK
<1>2. /\ Working /\ (Lost => n = 0) /\ pos \in Nat /\ pos' = pos + n /\ UNCHANGED <<msgs, msg>>
  BY AllTaken DEF TakeInput
<1>3. msg \in 1 .. Len(msgs) /\ msgs[msg].rd /\ Len(msgs) \in Nat
  <2>1. msg <= Len(msgs) /\ msgs[msg].rd
    BY AllTaken DEF ArrayOK, Issued
  <2>2. QED
    BY <1>2, <2>1, AtMessage
<1>4. n # 0 => \A i \in 1 .. n : infifo[i] = L + i
  BY <1>2 DEF ComingOK, Sound
<1>5. /\ \A i \in 1 .. L :
           /\ got[i].byte = i /\ got[i].msg \in 1 .. Len(msgs) /\ msgs[got[i].msg].rd
           /\ Passed(got[i].msg, got[i].pos)
           /\ i > 1 => Precedes(got[i - 1], got[i])
      /\ \A m \in 1 .. Len(msgs) : msgs[m].rd =>
           \A p \in 1 .. msgs[m].len : Passed(m, p) => \E i \in 1 .. L : Stored(m, p, got[i])
  BY <1>2 DEF GotOK
<1> HIDE DEF n, L
<1>6. ASSUME NEW i \in 1 .. L
      PROVE  /\ got'[i].byte = i /\ got'[i].msg \in 1 .. Len(msgs) /\ msgs[got'[i].msg].rd
             /\ got'[i].msg < msg \/ (got'[i].msg = msg /\ got'[i].pos <= pos + n)
             /\ i > 1 => Precedes(got'[i - 1], got'[i])
  <2>1. got'[i] = got[i] /\ got[i].pos \in Nat
    <3>1. got[i] \in Entry
      BY <1>1, ElementOfSeq DEF L
    <3>2. QED
      BY <1>1, <3>1 DEF Entry
  <2>2. got[i].msg < msg \/ (got[i].msg = msg /\ got[i].pos <= pos)
    BY <1>5 DEF Passed
  <2>3. got[i].msg < msg \/ (got[i].msg = msg /\ got[i].pos <= pos + n)
    BY <1>1, <1>2, <2>1, <2>2
  <2>4. i > 1 => got'[i - 1] = got[i - 1]
    BY <1>1
  <2>5. QED
    BY <1>5, <2>1, <2>3, <2>4
<1>7. ASSUME NEW j \in 1 .. n, NEW e, e = got'[L + j]
      PROVE  /\ e.byte = L + j /\ e.msg \in 1 .. Len(msgs) /\ msgs[e.msg].rd
             /\ e.msg = msg /\ e.pos <= pos + n
             /\ L + j > 1 => Precedes(got'[L + j - 1], e)
  <2>1. e = [msg |-> msg, pos |-> pos + j, byte |-> infifo[j]] /\ infifo[j] = L + j
    BY <1>1, <1>4, <1>7
  <2>2. e.msg = msg /\ e.pos = pos + j /\ e.byte = L + j /\ pos + j <= pos + n
    BY <1>1, <1>2, <2>1
  <2>3. L + j > 1 => Precedes(got'[L + j - 1], e)
    <3>1. CASE j = 1
      <4>1. L + j > 1 => L \in 1 .. L /\ L + j - 1 = L
        BY <1>1, <3>1
      <4>2. L + j > 1 => got'[L].msg < msg \/ (got'[L].msg = msg /\ got[L].pos <= pos /\ got'[L] = got[L])
        BY <1>1, <1>5, <4>1 DEF Passed
      <4>3. L + j > 1 => got[L].pos \in Nat
        <5>1. L + j > 1 => got[L] \in Entry
          BY <1>1, <4>1, ElementOfSeq DEF L
        <5>2. QED
          BY <5>1 DEF Entry
      <4>4. ASSUME L + j > 1 PROVE Precedes(got'[L], e)
        <5>1. CASE got'[L].msg < msg
          BY <2>2, <5>1 DEF Precedes
        <5>2. CASE got'[L].msg = msg /\ got[L].pos <= pos /\ got'[L] = got[L]
          <6>1. got'[L].pos < pos + j
            BY <1>2, <3>1, <4>3, <4>4, <5>2
          <6>2. QED
            BY <2>2, <5>2, <6>1 DEF Precedes
        <5>3. QED
          BY <4>2, <4>4, <5>1, <5>2
      <4>5. QED
        BY <4>1, <4>4
    <3>2. CASE j # 1
      <4>1. j - 1 \in 1 .. n /\ L + j - 1 = L + (j - 1)
        BY <1>1, <3>2
      <4>2. got'[L + j - 1] = [msg |-> msg, pos |-> pos + (j - 1), byte |-> infifo[j - 1]]
        BY <1>1, <4>1
      <4>3. got'[L + j - 1].msg = msg /\ got'[L + j - 1].pos = pos + (j - 1) /\ pos + (j - 1) < pos + j
        BY <1>1, <1>2, <4>2
      <4>4. QED
        BY <2>2, <4>3 DEF Precedes
    <3>3. QED
      BY <3>1, <3>2
  <2>4. QED
    BY <1>3, <2>2, <2>3
<1>8. ASSUME NEW i \in 1 .. Len(got')
      PROVE  /\ got'[i].byte = i /\ got'[i].msg \in 1 .. Len(msgs) /\ msgs[got'[i].msg].rd
             /\ got'[i].msg < msg \/ (got'[i].msg = msg /\ got'[i].pos <= pos + n)
             /\ i > 1 => Precedes(got'[i - 1], got'[i])
  <2>1. CASE i <= L
    <3>1. i \in 1 .. L
      BY <1>1, <2>1
    <3>2. QED
      BY <1>6, <3>1
  <2>2. CASE ~(i <= L)
    <3>1. i - L \in 1 .. n /\ L + (i - L) = i
      BY <1>1, <2>2
    <3>2. PICK j \in 1 .. n : j = i - L /\ L + j = i
      BY <3>1
    <3>3. PICK e : e = got'[L + j]
      OBVIOUS
    <3>4. /\ e.byte = L + j /\ e.msg \in 1 .. Len(msgs) /\ msgs[e.msg].rd
          /\ e.msg = msg /\ e.pos <= pos + n
          /\ L + j > 1 => Precedes(got'[L + j - 1], e)
      BY <1>7, <3>3
    <3>5. L + j - 1 = i - 1
      BY <1>1, <3>2
    <3>6. QED
      BY <3>2, <3>3, <3>4, <3>5, Zenon
  <2>3. QED
    BY <2>1, <2>2
<1>9. ASSUME NEW m \in 1 .. Len(msgs), msgs[m].rd, NEW p \in 1 .. msgs[m].len,
             m < msg \/ (m = msg /\ p <= pos + n)
      PROVE  \E i \in 1 .. Len(got') : Stored(m, p, got'[i])
  <2>1. CASE Passed(m, p)
    <3>1. PICK i \in 1 .. L : Stored(m, p, got[i])
      BY <1>5, <1>9, <2>1
    <3>2. i \in 1 .. Len(got') /\ got'[i] = got[i]
      BY <1>1
    <3>3. QED
      BY <3>1, <3>2
  <2>2. CASE ~Passed(m, p)
    <3>1. m = msg /\ p <= pos + n /\ ~(p <= pos) /\ p \in Int
      BY <1>9, <2>2 DEF Passed
    <3>2. p - pos \in 1 .. n /\ pos + (p - pos) = p /\ L + (p - pos) \in 1 .. Len(got')
      BY <1>1, <1>2, <3>1
    <3>3. got'[L + (p - pos)] = [msg |-> msg, pos |-> pos + (p - pos), byte |-> infifo[p - pos]]
      BY <1>1, <3>2
    <3>4. Stored(m, p, got'[L + (p - pos)])
      BY <3>1, <3>2, <3>3 DEF Stored
    <3>5. QED
      BY <3>2, <3>4
  <2>3. QED
    BY <2>1, <2>2
<1>10. \A m, p : Passed(m, p)' <=> m < msg \/ (m = msg /\ p <= pos + n)
  BY <1>2 DEF Passed
<1>11. QED
  <2>1. got' \in Seq(Entry) /\ msgs' = msgs
    BY <1>1, <1>2
  <2>2. \A i \in 1 .. Len(got') : got'[i].msg < msg \/ (got'[i].msg = msg /\ got'[i].pos <= pos + n) =>
          Passed(got[i].msg, got[i].pos)'
    BY <1>2 DEF Passed
  <2>3. QED
    BY <1>8, <1>9, <1>10, <2>1, <2>2 DEF GotOK

LEMMA GotKept ==
  ASSUME ArrayOK, ComingOK, GotOK, [Next]_vars
  PROVE  GotOK'
<1>1. CASE Xfer
  <2>1. /\ got' = <<>> /\ pc' = "message" /\ msg' = 1 /\ pos' = 0
    BY <1>1 DEF Xfer, Goto, ArrayOK
  <2>2. got' \in Seq(Entry) /\ Len(got') = 0
    BY <2>1, EmptySeq
  <2>3. \A m \in Nat : \A p \in Nat : m >= 1 /\ p >= 1 => ~Passed(m, p)'
    BY <2>1 DEF Passed
  <2>4. \A m \in 1 .. Len(msgs') : \A p \in 1 .. msgs'[m].len : ~Passed(m, p)'
    BY <2>3
  <2>5. QED
    BY <2>2, <2>4 DEF GotOK
<1>2. CASE Fill
  BY <1>2, GotFilled DEF ComingOK
<1>3. CASE TakeInput
  BY <1>3, GotInput
<1>4. CASE EndMessage
  BY <1>4, GotEnded
<1>5. CASE OutErr
  <2>1. /\ pc = "out" /\ pc' = "idle" /\ pos' = 0 /\ UNCHANGED <<msgs, got, ret, msg>>
    BY <1>5 DEF OutErr, Goto
  <2>2. ~Working /\ ~Working' /\ (ret = "num" => pos = 0)
    BY <2>1 DEF Working, Looping, ArrayOK
  <2>3. ret = "num" => \A m, p : Passed(m, p)' = Passed(m, p)
    BY <2>1, <2>2 DEF Passed
  <2>4. QED
    BY <2>1, <2>2, <2>3, GotSame DEF ArrayOK
<1>6. CASE \/ UNCHANGED vars \/ StartMessage \/ Pause \/ Run \/ CheckError \/ Refill
           \/ PollWriteReady \/ RecoverBusBusy \/ Interrupt \/ Controller
  <2>1. UNCHANGED <<got, msgs, msg, pos>>
    BY <1>6 DEF vars, StartMessage, Pause, Run, CheckError, Refill, PollWriteReady, RecoverBusBusy,
                Interrupt, Controller, ErrorInterrupt, ServiceInterrupt, TakeEntry, ReceiveByte,
                BusError, position
  <2>2. (Working \/ ret = "num")' => Working \/ ret = "num"
    BY <1>6 DEF vars, StartMessage, Pause, Run, CheckError, Refill, PollWriteReady, RecoverBusBusy,
                Interrupt, Controller, ErrorInterrupt, ServiceInterrupt, TakeEntry, ReceiveByte,
                BusError, Goto, Fails, Working, Looping
  <2>3. \A m, p : Passed(m, p)' = Passed(m, p)
    BY <2>1 DEF Passed
  <2>4. QED
    BY <2>1, <2>2, <2>3, GotSame DEF ArrayOK
<1>7. QED
  BY <1>1, <1>2, <1>3, <1>4, <1>5, <1>6 DEF Next, Driver

LEMMA ReadInvInit == Init => ReadInv
<1> SUFFICES ASSUME Init PROVE ReadInv
  OBVIOUS
<1>1. Len(<<>>) = 0 /\ <<>> \in Seq(Message) /\ <<>> \in Seq(Items) /\ <<>> \in Seq(Nat) /\ <<>> \in Seq(Entry)
  BY EmptySeq
<1>2. ~Working /\ ~Looping /\ pc = "idle" /\ ret = "none"
  BY DEF Init, Working, Looping
<1>3. ArrayOK
  BY <1>1, <1>2 DEF Init, ArrayOK
<1>4. ComingOK
  BY <1>1, <1>2 DEF Init, ComingOK, Sound
<1>5. GotOK
  BY <1>1, <1>2 DEF Init, GotOK
<1>6. QED
  BY <1>3, <1>4, <1>5 DEF ReadInv

LEMMA ReadInvNext == ReadInv /\ [Next]_vars => ReadInv'
<1> SUFFICES ASSUME ReadInv, [Next]_vars PROVE ReadInv'
  OBVIOUS
<1>1. /\ ArrayOK /\ ComingOK /\ GotOK
      /\ out \in Seq(Items) /\ infifo \in Seq(Nat) /\ due \in Nat /\ got \in Seq(Entry)
  BY DEF ReadInv, ComingOK, GotOK
<1>2. Issued /\ pc = "check" => Len(infifo) <= cnt
  <2>1. SUFFICES ASSUME Issued, pc = "check" PROVE Len(infifo) <= cnt
    OBVIOUS
  <2>2. (Coming = cnt \/ (Coming = 0 /\ cnt > 0)) /\ cnt \in Nat
    BY <1>1, <2>1 DEF ComingOK, ArrayOK, Issued, Working
  <2>3. QED
    BY <1>1, <2>2, ComingTypes
<1>3. ArrayOK'
  BY <1>1, <1>2, ArrayKept
<1>4. ComingOK'
  BY <1>1, ComingKept
<1>5. GotOK'
  BY <1>1, GotKept
<1>6. QED
  BY <1>3, <1>4, <1>5 DEF ReadInv

THEOREM ReadInvHolds == Spec => []ReadInv
BY ReadInvInit, ReadInvNext, PTL DEF Spec

(* A transfer that succeeds has read everything: whatever interrupts,      *)
(* errors and empty reads came in between, the bytes in the buffers are    *)
(* those the slave has sent, each stored once, in order and at its place.  *)
THEOREM ReadIntactHolds == Spec => []ReadIntact
<1>1. ReadInv => ReadIntact
  <2> SUFFICES ASSUME ReadInv, Succeeded PROVE ReadIntact
    BY DEF ReadIntact
  <2>1. ret = "num" /\ ~Working /\ ~Looping /\ msg = Len(msgs) + 1 /\ Len(msgs) \in Nat /\ got \in Seq(Entry)
    BY LenProperties DEF ReadInv, ArrayOK, GotOK, Succeeded, Working, Looping
  <2>2. sent = Len(got)
    <3>1. sent = Len(got) + Len(infifo) /\ Coming = 0
      BY <2>1 DEF ReadInv, ComingOK, Sound, Issued
    <3>2. Len(infifo) = 0 /\ Len(got) \in Nat
      BY <2>1, <3>1, ComingTypes, LenProperties DEF ReadInv, ComingOK
    <3>3. QED
      BY <3>1, <3>2
  <2>3. \A m \in 1 .. Len(msgs) : \A p : Passed(m, p)
    BY <2>1 DEF Passed
  <2>4. \A i \in 1 .. Len(got) :
          /\ got[i].byte = i /\ msgs[got[i].msg].rd
          /\ i > 1 => \/ got[i - 1].msg < got[i].msg
                      \/ got[i - 1].msg = got[i].msg /\ got[i - 1].pos < got[i].pos
    BY <2>1 DEF ReadInv, GotOK, Precedes
  <2>5. \A m \in 1 .. Len(msgs) : msgs[m].rd =>
          \A p \in 1 .. msgs[m].len : \E i \in 1 .. Len(got) : Stored(m, p, got[i])
    BY <2>1, <2>3 DEF ReadInv, GotOK
  <2>6. QED
    BY <2>2, <2>4, <2>5 DEF Stored, ReadIntact
<1>2. QED
  BY <1>1, ReadInvHolds, PTL

-----------------------------------------------------------------------------
(* Paths.                                                                  *)

Places == [msg : Nat, n : Nat, begun : BOOLEAN]
InArray(a) == a \in Places /\ a.msg \in 1 .. Len(msgs)

(* What is due at a place may follow an entry that leads there.            *)
LEMMA DueJoins ==
  ASSUME msgs \in Seq(Message), NEW a, InArray(a), NEW e \in Items, Placed(e), Reached(e, a),
         NEW x, Due(x, a)
  PROVE  Joins(e, x)
<1>1. /\ a.msg \in Nat /\ a.n \in Nat /\ a.begun \in BOOLEAN /\ a.msg \in 1 .. Len(msgs)
      /\ e.n \in Nat /\ e.msg \in Nat /\ Len(msgs) \in Nat
  BY LenProperties DEF InArray, Places, Items
<1>2. msgs[a.msg].len \in Nat /\ msgs[a.msg].rd \in BOOLEAN
  <2>1. msgs[a.msg] \in Message
    BY <1>1, ElementOfSeq
  <2>2. QED
    BY <2>1 DEF Message
<1>3. CASE x.tag = "nop" /\ ~a.begun /\ a.n > 0 /\ x.msg = a.msg /\ x.n = a.n
  BY <1>1, <1>3 DEF Joins, Reached
<1>4. CASE x.tag # "nop" /\ a.n < msgs[a.msg].len /\ Plain(x) = DueAt(a)
  <2>1. Following(e) = DueAt(a)
    <3>1. CASE a.begun
      <4>1. e.tag = "start" /\ e.msg = a.msg /\ e.n = a.n /\ e.n < msgs[e.msg].len /\ e.n # msgs[e.msg].len
        BY <1>1, <1>2, <1>4, <3>1 DEF Reached
      <4>2. CASE msgs[a.msg].rd
        BY <3>1, <4>1, <4>2 DEF Following, DueAt, Chunk
      <4>3. CASE ~msgs[a.msg].rd
        BY <3>1, <4>1, <4>3 DEF Following, DueAt
      <4>4. QED
        BY <4>2, <4>3
    <3>2. CASE ~a.begun /\ a.n > 0
      <4>1. e.tag # "start" /\ e.msg = a.msg /\ e.n = a.n /\ e.n < msgs[e.msg].len /\ e.n # msgs[e.msg].len
        BY <1>1, <1>2, <1>4, <3>2 DEF Reached
      <4>2. CASE msgs[a.msg].rd
        BY <3>2, <4>1, <4>2 DEF Following, DueAt
      <4>3. CASE ~msgs[a.msg].rd
        BY <3>2, <4>1, <4>3 DEF Following, DueAt
      <4>4. QED
        BY <4>2, <4>3
    <3>3. CASE ~a.begun /\ a.n = 0
      <4>1. e.tag # "start" /\ e.msg = a.msg - 1 /\ e.n = msgs[e.msg].len
        BY <1>1, <3>3 DEF Reached
      <4>2. e.msg + 1 = a.msg /\ ~(e.n < msgs[e.msg].len) /\ ~(a.n > 0)
        BY <1>1, <3>3, <4>1
      <4>3. DueAt(a) = Item("start", a.msg, 0)
        BY <3>3, <4>2 DEF DueAt
      <4>4. Following(e) = Item("start", e.msg + 1, 0)
        BY <4>1, <4>2 DEF Following
      <4>5. QED
        BY <4>2, <4>3, <4>4
    <3>4. QED
      BY <1>1, <3>1, <3>2, <3>3
  <2>2. QED
    BY <1>4, <2>1 DEF Joins
<1>5. QED
  BY <1>3, <1>4 DEF Due

LEMMA PathOne ==
  ASSUME NEW x \in Items, NEW a, NEW b, Due(x, a), Reached(x, b), Placed(x)
  PROVE  <<x>> \in Seq(Items) /\ Path(<<x>>, a, b)
<1>1. <<x>> \in Seq(Items) /\ Len(<<x>>) = 1 /\ <<x>>[1] = x /\ <<x>> # <<>>
  OBVIOUS
<1>2. Chained(<<x>>)
  BY <1>1 DEF Chained
<1>3. AllPlaced(<<x>>)
  BY <1>1 DEF AllPlaced
<1> DEFINE q == <<x>>
<1>4. q # <<>> /\ q[1] = x /\ q[Len(q)] = x /\ Chained(q) /\ AllPlaced(q)
  BY <1>1, <1>2, <1>3
<1> HIDE DEF q
<1>5. Path(q, a, b)
  BY <1>4 DEF Path
<1>6. QED
  BY <1>1, <1>5 DEF q

LEMMA PathConcat ==
  ASSUME msgs \in Seq(Message), NEW p \in Seq(Items), NEW q \in Seq(Items),
         NEW a, NEW b, NEW c, InArray(b), Path(p, a, b), Path(q, b, c)
  PROVE  p \o q \in Seq(Items) /\ Path(p \o q, a, c)
<1> DEFINE r == p \o q
<1>1. /\ r \in Seq(Items) /\ Len(r) = Len(p) + Len(q) /\ Len(p) \in Nat /\ Len(q) \in Nat
      /\ \A i \in 1 .. Len(p) + Len(q) : r[i] = IF i <= Len(p) THEN p[i] ELSE q[i - Len(p)]
  BY ConcatProperties, LenProperties
<1>2. CASE p = <<>>
  <2>1. r = q /\ a = b
    BY <1>2, ConcatEmptySeq DEF Path
  <2>2. QED
    BY <1>1, <2>1
<1>3. CASE q = <<>>
  <2>1. r = p /\ b = c
    BY <1>3, ConcatEmptySeq DEF Path
  <2>2. QED
    BY <1>1, <2>1
<1>4. CASE p # <<>> /\ q # <<>>
  <2> HIDE DEF r
  <2>1. Len(p) >= 1 /\ Len(q) >= 1 /\ r # <<>>
    BY <1>1, <1>4, EmptySeq
  <2>2. /\ r[1] = p[1] /\ r[Len(r)] = q[Len(q)]
        /\ \A i \in 1 .. Len(p) : r[i] = p[i]
        /\ \A i \in 1 .. Len(q) : r[Len(p) + i] = q[i]
    <3>1. \A i \in 1 .. Len(p) : r[i] = p[i]
      BY <1>1
    <3>2. ASSUME NEW i \in 1 .. Len(q) PROVE r[Len(p) + i] = q[i]
      <4>1. Len(p) + i \in 1 .. Len(p) + Len(q) /\ ~(Len(p) + i <= Len(p)) /\ Len(p) + i - Len(p) = i
        BY <1>1
      <4>2. QED
        BY <1>1, <4>1
    <3>3. 1 \in 1 .. Len(p) /\ Len(q) \in 1 .. Len(q)
      BY <1>1, <2>1
    <3>4. QED
      BY <1>1, <3>1, <3>2, <3>3
  <2>3. /\ Due(p[1], a) /\ Reached(p[Len(p)], b) /\ Chained(p) /\ AllPlaced(p)
        /\ Due(q[1], b) /\ Reached(q[Len(q)], c) /\ Chained(q) /\ AllPlaced(q)
    BY <1>4 DEF Path
  <2>4. Joins(p[Len(p)], q[1])
    <3>1. Len(p) \in 1 .. Len(p) /\ p[Len(p)] \in Items
      BY <1>1, <2>1, ElementOfSeq
    <3>2. Placed(p[Len(p)])
      BY <2>3, <3>1 DEF AllPlaced
    <3>3. QED
      BY <2>3, <3>1, <3>2, DueJoins
  <2>5. ASSUME NEW i \in 1 .. Len(r) - 1 PROVE Joins(r[i], r[i + 1])
    <3>1. CASE i < Len(p)
      <4>1. i \in 1 .. Len(p) - 1 /\ i \in 1 .. Len(p) /\ i + 1 \in 1 .. Len(p)
        BY <1>1, <3>1
      <4>2. QED
        BY <2>2, <2>3, <4>1 DEF Chained
    <3>2. CASE i = Len(p)
      <4>1. i \in 1 .. Len(p) /\ 1 \in 1 .. Len(q) /\ r[Len(p) + 1] = q[1]
        BY <1>1, <2>1, <2>2, <3>2
      <4>2. QED
        BY <2>2, <2>4, <3>2, <4>1
    <3>3. CASE i > Len(p)
      <4>1. PICK j : j = i - Len(p)
        OBVIOUS
      <4>2. /\ j \in 1 .. Len(q) - 1 /\ j \in 1 .. Len(q) /\ j + 1 \in 1 .. Len(q)
            /\ Len(p) + j = i /\ Len(p) + (j + 1) = i + 1
        BY <1>1, <3>3, <4>1
      <4>3. r[i] = q[j] /\ r[i + 1] = q[j + 1]
        <5>1. r[Len(p) + j] = q[j] /\ r[Len(p) + (j + 1)] = q[j + 1]
          BY <2>2, <4>2
        <5>2. QED
          BY <4>2, <5>1, Zenon
      <4>4. QED
        BY <2>3, <4>2, <4>3 DEF Chained
    <3>4. QED
      BY <1>1, <3>1, <3>2, <3>3
  <2>6. ASSUME NEW i \in 1 .. Len(r) PROVE Placed(r[i])
    <3>1. CASE i <= Len(p)
      <4>1. i \in 1 .. Len(p)
        BY <1>1, <3>1
      <4>2. QED
        BY <2>2, <2>3, <4>1 DEF AllPlaced
    <3>2. CASE ~(i <= Len(p))
      <4>1. i - Len(p) \in 1 .. Len(q) /\ r[i] = q[i - Len(p)]
        BY <1>1, <3>2
      <4>2. QED
        BY <2>3, <4>1 DEF AllPlaced
    <3>3. QED
      BY <3>1, <3>2
  <2>7. Chained(r) /\ AllPlaced(r)
    BY <2>5, <2>6 DEF Chained, AllPlaced
  <2>8. Path(r, a, c)
    BY <2>1, <2>2, <2>3, <2>7 DEF Path
  <2>9. QED
    BY <1>1, <2>8 DEF r
<1>5. QED
  BY <1>2, <1>3, <1>4

(* Where a message has ended the next one begins.                          *)
LEMMA ReachedEnd ==
  ASSUME NEW e, NEW m \in 1 .. Len(msgs), msgs[m].len \in Nat \ {0}, Reached(e, At(m, msgs[m].len))
  PROVE  Reached(e, At(m + 1, 0))
<1>1. m + 1 - 1 = m /\ msgs[m].len # 0
  OBVIOUS
<1>2. e.tag # "start" /\ e.msg = m /\ e.n = msgs[m].len
  BY <1>1 DEF Reached, At
<1>3. QED
  BY <1>1, <1>2 DEF Reached, At

LEMMA PlaceTypes ==
  ASSUME NEW m \in 1 .. Len(msgs), NEW n \in Nat
  PROVE  /\ InArray(At(m, n)) /\ At(m, n).msg = m /\ At(m, n).n = n /\ At(m, n).begun = FALSE
         /\ InArray(Begun(m, n)) /\ Begun(m, n).msg = m /\ Begun(m, n).n = n /\ Begun(m, n).begun = TRUE
<1>1. m \in Nat
  OBVIOUS
<1>2. QED
  BY <1>1 DEF At, Begun, InArray, Places

(* No third message follows two writes to one address: the second, which   *)
(* is packed behind the first, may end a block with half a word, and what  *)
(* is held then is lost.  Callers pass two messages at most.               *)
Paired(t) ==
  \A m \in 1 .. Len(t) - 2 : t[m].rd \/ t[m + 1].rd \/ t[m].addr # t[m + 1].addr

(* The loop's variables lead from the driver's place to the place of the   *)
(* message at hand.                                                        *)
Start == At(msg, pos)
Underway(s) ==
  /\ Path(s.put \o Held(s), Start, At(s.msg, s.pos))
  /\ s.msg # msg => msgs[s.msg - 1].addr = msgs[s.msg].addr
Complete(s) ==
  /\ s.put # <<>>
  /\ Path(s.put, Start, At(s.msg, IF msgs[s.msg].rd THEN s.pos + s.cnt ELSE s.pos))
LineOK(s) == IF s.filled THEN Complete(s) ELSE Underway(s)

(* A message that is written with the one before it is the last.           *)
LEMMA JoinedLast ==
  ASSUME AtFill, Paired(msgs), NEW s, LoopOK(s), Pending(s), Underway(s), ~msgs[s.msg].rd
  PROVE  s.msg = msg \/ s.rem = 1
<1>1. SUFFICES ASSUME s.msg # msg, s.rem # 1 PROVE FALSE
  OBVIOUS
<1>2. /\ s.msg \in msg .. Len(msgs) /\ s.rem = Len(msgs) - s.msg + 1 /\ Len(msgs) \in Nat
      /\ msg \in 1 .. Len(msgs) /\ \A m \in msg .. s.msg - 1 : ~msgs[m].rd
  BY LenProperties DEF LoopOK, Along, AtFill
<1>3. PICK m : m = s.msg - 1
  OBVIOUS
<1>4. m \in msg .. s.msg - 1 /\ m \in 1 .. Len(msgs) - 2 /\ m + 1 = s.msg
  <2>1. s.msg \in Nat /\ msg \in Nat /\ msg >= 1 /\ msg < s.msg /\ s.msg < Len(msgs)
    BY <1>1, <1>2
  <2>2. QED
    BY <1>2, <1>3, <2>1
<1>5. ~msgs[m].rd /\ ~msgs[m + 1].rd /\ msgs[m].addr = msgs[m + 1].addr
  BY <1>1, <1>2, <1>3, <1>4 DEF Underway
<1>6. QED
  BY <1>4, <1>5 DEF Paired

(* A turn begins where the last one ended.                                 *)
LEMMA LinePlaces ==
  ASSUME AtFill, NEW s, LoopOK(s), Pending(s)
  PROVE  /\ s \in LoopState /\ s.msg \in 1 .. Len(msgs) /\ s.msg \in Nat /\ s.pos \in Nat /\ s.cnt \in Nat
         /\ s.put \o Held(s) \in Seq(Items) /\ s.put \in Seq(Items) /\ Held(s) \in Seq(Items)
         /\ s.pos < msgs[s.msg].len /\ msgs[s.msg].len \in Nat
         /\ msgs \in Seq(Message) /\ Len(msgs) \in Nat
<1>1. /\ s \in LoopState /\ s.msg \in msg .. Len(msgs) /\ Len(msgs) \in Nat /\ msg \in 1 .. Len(msgs)
      /\ msgs \in Seq(Message)
  BY LenProperties DEF LoopOK, Along, AtFill
<1>2. s.msg \in 1 .. Len(msgs)
  BY <1>1
<1>3. s.put \in Seq(Items) /\ s.msg \in Nat /\ s.pos \in Nat /\ s.cnt \in Nat
  BY <1>1 DEF LoopState
<1>4. Held(s) \in Seq(Items) /\ Silent(Held(s)) /\ Silent(s.put)
  BY <1>1, HeldType DEF Pending
<1>5. s.put \o Held(s) \in Seq(Items)
  BY <1>3, <1>4, SilentConcat
<1>6. msgs[s.msg].len \in Nat
  BY <1>1, MessageType
<1>7. s.pos < msgs[s.msg].len
  BY <1>3, <1>6 DEF Pending
<1>8. QED
  BY <1>1, <1>2, <1>3, <1>4, <1>5, <1>6, <1>7

LEMMA TwoAsOne == ASSUME NEW S, NEW x \in S, NEW y \in S PROVE <<x>> \o <<y>> = <<x, y>>
<1> DEFINE a == <<x>>
           b == <<y>>
           c == <<x, y>>
<1>1. /\ a \in Seq(S) /\ Len(a) = 1 /\ a[1] = x
      /\ b \in Seq(S) /\ Len(b) = 1 /\ b[1] = y
      /\ c \in Seq(S) /\ Len(c) = 2 /\ c[1] = x /\ c[2] = y
  OBVIOUS
<1> HIDE DEF a, b, c
<1>2. a \o b \in Seq(S) /\ Len(a \o b) = 2 /\ (a \o b)[1] = x /\ (a \o b)[2] = y
  BY <1>1, ConcatProperties
<1>3. \A i \in 1 .. 2 : i = 1 \/ i = 2
  OBVIOUS
<1>4. a \o b = c
  BY <1>1, <1>2, <1>3, SeqEqual
<1>5. QED
  BY <1>4 DEF a, b, c

LEMMA ReadLine ==
  ASSUME AtFill, NEW s, LoopOK(s), Pending(s), Underway(s), msgs[s.msg].rd
  PROVE  Complete(Issue(s))
<1> DEFINE start == Item("start", s.msg, s.pos)
           rec == Command("rec", s.msg, s.pos, s.cnt)
           line == s.put \o Held(s)
           m == s.msg
           a == At(m, s.pos)
           b == Begun(m, s.pos)
           c == At(m, s.pos + s.cnt)
<1>1. /\ s \in LoopState /\ m \in 1 .. Len(msgs) /\ m \in Nat /\ s.pos \in Nat /\ s.cnt \in Nat
      /\ line \in Seq(Items) /\ s.pos < msgs[m].len /\ msgs[m].len \in Nat /\ msgs \in Seq(Message)
  BY LinePlaces
<1>2. s.cnt = Chunk(m, s.pos) /\ s.cnt > 0 /\ s.pos + s.cnt \in Nat /\ s.pos + s.cnt # 0
  BY <1>1 DEF Pending
<1>3. /\ start \in Items /\ rec \in Items /\ start.tag = "start" /\ rec.tag = "rec"
      /\ start.msg = m /\ rec.msg = m /\ start.n = s.pos /\ rec.n = s.pos + s.cnt
  <2> HIDE DEF start, rec, line, a, b, c, m
  <2>1. start = Item("start", m, s.pos) /\ rec = Command("rec", m, s.pos, s.cnt)
    BY DEF start, rec, m
  <2>2. m \in Nat /\ s.pos \in Nat /\ s.cnt \in Nat
    BY <1>1
  <2>3. /\ Item("start", m, s.pos) \in Items /\ Item("start", m, s.pos).tag = "start"
        /\ Item("start", m, s.pos).msg = m /\ Item("start", m, s.pos).n = s.pos
    BY <2>2, ItemTypes
  <2>4. s.pos + s.cnt \in Nat
    BY <2>2
  <2>5. /\ Command("rec", m, s.pos, s.cnt) \in Items /\ Command("rec", m, s.pos, s.cnt).tag = "rec"
        /\ Command("rec", m, s.pos, s.cnt).msg = m /\ Command("rec", m, s.pos, s.cnt).n = s.pos + s.cnt
    BY <2>2, <2>4 DEF Command, Items
  <2>6. QED
    BY <2>1, <2>3, <2>5
<1>4. Due(start, a) /\ Reached(start, b) /\ Placed(start)
  <2>1. DueAt(a) = start
    BY DEF DueAt, At
  <2>2. Plain(start) = start
    BY <1>3 DEF Plain
  <2> HIDE DEF start
  <2>3. QED
    BY <1>1, <1>3, <2>1, <2>2 DEF Due, Reached, Placed, At, Begun
<1>5. Due(rec, b) /\ Reached(rec, c) /\ Placed(rec)
  <2>1. DueAt(b) = rec
    BY <1>2 DEF DueAt, Begun
  <2>2. Plain(rec) = rec
    BY <1>3 DEF Plain
  <2> HIDE DEF rec
  <2>3. QED
    BY <1>1, <1>2, <1>3, <2>1, <2>2 DEF Due, Reached, Placed, At, Begun
<1>6. InArray(a) /\ InArray(b)
  BY <1>1, PlaceTypes
<1> HIDE DEF start, rec, a, b, c
<1>7. <<start>> \in Seq(Items) /\ Path(<<start>>, a, b) /\ <<rec>> \in Seq(Items) /\ Path(<<rec>>, b, c)
  BY <1>3, <1>4, <1>5, PathOne
<1>8. <<start>> \o <<rec>> \in Seq(Items) /\ Path(<<start>> \o <<rec>>, a, c)
  BY <1>1, <1>6, <1>7, PathConcat
<1>9. <<start, rec>> \in Seq(Items) /\ Path(<<start, rec>>, a, c) /\ Len(<<start, rec>>) = 2
  <2>1. <<start>> \o <<rec>> = <<start, rec>>
    BY <1>3, TwoAsOne
  <2>2. QED
    BY <1>8, <2>1
<1>10. Path(line, Start, a)
  BY DEF Underway, a
<1>11. Path(line \o <<start, rec>>, Start, c) /\ line \o <<start, rec>> # <<>>
  <2> HIDE DEF line
  <2>1. line \o <<start, rec>> \in Seq(Items) /\ Path(line \o <<start, rec>>, Start, c)
    BY <1>1, <1>6, <1>9, <1>10, PathConcat
  <2>2. Len(line \o <<start, rec>>) = Len(line) + 2 /\ Len(line) \in Nat
    BY <1>1, <1>9, ConcatProperties, LenProperties
  <2>3. Len(line \o <<start, rec>>) # 0
    BY <2>2
  <2>4. QED
    BY <2>1, <2>3, EmptySeq
<1>12. /\ Issue(s).put = line \o <<start, rec>> /\ Issue(s).msg = s.msg
       /\ Issue(s).pos = s.pos /\ Issue(s).cnt = s.cnt
  BY ReadIssued DEF start, rec
<1>13. QED
  BY <1>11, <1>12 DEF Complete, c

(* Bytes one after the other.                                              *)
LEMMA PlainData ==
  ASSUME NEW x \in Items, NEW m, NEW n, Plain(x) = Item("data", m, n)
  PROVE  x.tag \in {"data", "stop"} /\ x.msg = m /\ x.n = n
<1>1. CASE x.tag = "stop"
  <2>1. Plain(x).msg = x.msg /\ Plain(x).n = x.n
    BY <1>1 DEF Plain, Items
  <2>2. QED
    BY <1>1, <2>1 DEF Item
<1>2. CASE x.tag # "stop"
  BY <1>2 DEF Plain, Item
<1>3. QED
  BY <1>1, <1>2

LEMMA DataRun ==
  ASSUME msgs \in Seq(Message), NEW m \in 1 .. Len(msgs), ~msgs[m].rd, msgs[m].len \in Nat,
         NEW p \in Nat, NEW d \in Seq(Items), d # <<>>, p + Len(d) <= msgs[m].len,
         \A i \in 1 .. Len(d) : Plain(d[i]) = Item("data", m, p + i) /\ Placed(d[i]),
         NEW a, a.msg = m, a.n = p, a.begun \/ p > 0
  PROVE  Path(d, a, At(m, p + Len(d)))
<1>1. Len(d) \in Nat /\ Len(d) >= 1 /\ 1 \in 1 .. Len(d) /\ Len(d) \in 1 .. Len(d) /\ Len(d) # 0
  BY LenProperties, EmptySeq
<1>2. \A i \in 1 .. Len(d) : d[i].tag \in {"data", "stop"} /\ d[i].msg = m /\ d[i].n = p + i
  <2> TAKE i \in 1 .. Len(d)
  <2>1. d[i] \in Items /\ Plain(d[i]) = Item("data", m, p + i)
    BY ElementOfSeq
  <2>2. QED
    BY <2>1, PlainData
<1>3. Due(d[1], a)
  <2>1. DueAt(a) = Item("data", m, p + 1)
    BY DEF DueAt
  <2>2. p < msgs[m].len
    BY <1>1
  <2>3. QED
    BY <1>1, <1>2, <2>1, <2>2 DEF Due
<1>4. Reached(d[Len(d)], At(m, p + Len(d)))
  BY <1>1, <1>2 DEF Reached, At
<1>5. ASSUME NEW i \in 1 .. Len(d) - 1 PROVE Joins(d[i], d[i + 1])
  <2>1. i \in 1 .. Len(d) /\ i + 1 \in 1 .. Len(d) /\ p + i < msgs[m].len /\ p + i + 1 = p + (i + 1)
    <3>1. PICK l, k : l = Len(d) /\ k = msgs[m].len
      OBVIOUS
    <3>2. l \in Nat /\ k \in Nat /\ p \in Nat /\ i \in 1 .. l - 1 /\ p + l <= k
      BY <1>1, <3>1
    <3>3. i \in 1 .. l /\ i + 1 \in 1 .. l /\ p + i < k /\ p + i + 1 = p + (i + 1)
      BY <3>2
    <3>4. QED
      BY <3>1, <3>3
  <2>2. Following(d[i]) = Item("data", m, p + i + 1)
    <3>1. d[i].msg = m /\ d[i].n = p + i /\ d[i].n < msgs[m].len /\ d[i].n # msgs[m].len
      BY <1>2, <2>1
    <3>2. QED
      BY <3>1 DEF Following
  <2>3. Plain(d[i + 1]) = Item("data", m, p + (i + 1)) /\ d[i + 1].tag # "nop"
    BY <1>2, <2>1
  <2>4. QED
    BY <2>1, <2>2, <2>3 DEF Joins
<1>6. Chained(d) /\ AllPlaced(d)
  BY <1>5 DEF Chained, AllPlaced
<1>7. QED
  BY <1>3, <1>4, <1>6 DEF Path

(* What a turn of qup_issue_write puts, up to the last byte x of the turn. *)
LEMMA WriteLine ==
  ASSUME AtFill, NEW s, LoopOK(s), Pending(s), Underway(s), ~msgs[s.msg].rd,
         NEW x \in Items, Plain(x) = Item("data", s.msg, End(s)), Placed(x)
  PROVE  /\ s.put \o Body(s) \o <<x>> \in Seq(Items)
         /\ Path(s.put \o Body(s) \o <<x>>, Start, At(s.msg, End(s)))
<1> DEFINE m == s.msg
           p == s.pos
           data == [i \in 1 .. Bytes(s) - 1 |-> Item("data", m, p + i)]
           d == data \o <<x>>
           a == At(m, p)
           b == IF p = 0 THEN Begun(m, 0) ELSE At(m, p)
           c == At(m, End(s))
           start == Item("start", m, 0)
           nop == Item("nop", m, p)
<1>1. /\ s \in LoopState /\ m \in 1 .. Len(msgs) /\ m \in Nat /\ p \in Nat /\ s.cnt \in Nat
      /\ s.put \o Held(s) \in Seq(Items) /\ s.put \in Seq(Items) /\ Held(s) \in Seq(Items)
      /\ p < msgs[m].len /\ msgs[m].len \in Nat /\ msgs \in Seq(Message)
  BY LinePlaces
<1>2. Bytes(s) \in Nat \ {0} /\ End(s) = p + Bytes(s) /\ End(s) <= msgs[m].len
  BY <1>1, BytesRange DEF End
<1>3. data \in Seq(Items) /\ Len(data) = Bytes(s) - 1
      /\ \A i \in 1 .. Bytes(s) - 1 : data[i] = Item("data", m, p + i)
  <2>1. Bytes(s) - 1 \in Nat
    BY <1>2
  <2>2. \A i \in 1 .. Bytes(s) - 1 : p + i \in Nat
    BY <1>1, <2>1
  <2>3. \A i \in 1 .. Bytes(s) - 1 : Item("data", m, p + i) \in Items
    BY <1>1, <2>2, ItemTypes
  <2>4. QED
    BY <2>1, <2>3, IsASeq, LenProperties
<1>4. <<x>> \in Seq(Items) /\ Len(<<x>>) = 1 /\ <<x>>[1] = x
  OBVIOUS
<1>5. /\ d \in Seq(Items) /\ Len(d) = Bytes(s)
      /\ \A i \in 1 .. Bytes(s) : d[i] = IF i < Bytes(s) THEN Item("data", m, p + i) ELSE x
  <2> HIDE DEF data
  <2>1. PICK e : e = <<x>>
    OBVIOUS
  <2>2. /\ data \o e \in Seq(Items) /\ Len(data \o e) = Len(data) + Len(e)
        /\ \A i \in 1 .. Len(data) + Len(e) :
             (data \o e)[i] = IF i <= Len(data) THEN data[i] ELSE e[i - Len(data)]
    BY <1>3, <1>4, <2>1, ConcatProperties
  <2>3. Len(data) + Len(e) = Bytes(s) /\ Len(e) = 1 /\ e[1] = x
    BY <1>2, <1>3, <1>4, <2>1
  <2>4. ASSUME NEW i \in 1 .. Bytes(s)
        PROVE  (data \o e)[i] = IF i < Bytes(s) THEN Item("data", m, p + i) ELSE x
    <3>1. CASE i < Bytes(s)
      <4>1. i <= Len(data) /\ i \in 1 .. Bytes(s) - 1
        BY <1>2, <1>3, <3>1
      <4>2. QED
        BY <1>3, <2>2, <2>3, <3>1, <4>1
    <3>2. CASE ~(i < Bytes(s))
      <4>1. ~(i <= Len(data)) /\ i - Len(data) = 1
        BY <1>2, <1>3, <3>2
      <4>2. QED
        BY <2>2, <2>3, <3>2, <4>1
    <3>3. QED
      BY <3>1, <3>2
  <2>5. QED
    BY <2>1, <2>2, <2>3, <2>4
<1>6. \A i \in 1 .. Bytes(s) : Plain(d[i]) = Item("data", m, p + i) /\ Placed(d[i])
  <2> HIDE DEF d, data
  <2> TAKE i \in 1 .. Bytes(s)
  <2>1. CASE i < Bytes(s)
    <3>1. d[i] = Item("data", m, p + i)
      BY <1>5, <2>1
    <3>2. Plain(d[i]) = d[i] /\ Placed(d[i])
      BY <1>1, <3>1 DEF Plain, Placed, Item
    <3>3. QED
      BY <3>1, <3>2
  <2>2. CASE ~(i < Bytes(s))
    <3>1. i = Bytes(s) /\ p + i = End(s)
      BY <1>2, <2>2
    <3>2. QED
      BY <1>5, <2>2, <3>1
  <2>3. QED
    BY <2>1, <2>2
<1>7. d # <<>>
  <2> HIDE DEF d
  <2>1. Len(d) # 0
    BY <1>2, <1>5
  <2>2. QED
    BY <1>5, <2>1, EmptySeq
<1>8. /\ InArray(a) /\ InArray(b) /\ b.msg = m /\ b.n = p /\ (b.begun \/ p > 0)
      /\ a.msg = m /\ a.n = p /\ a.begun = FALSE
  <2>1. /\ InArray(At(m, p)) /\ InArray(Begun(m, p))
        /\ Begun(m, p).msg = m /\ Begun(m, p).n = p /\ Begun(m, p).begun = TRUE
        /\ At(m, p).msg = m /\ At(m, p).n = p /\ At(m, p).begun = FALSE
    <3> HIDE DEF m, p
    <3>1. m \in 1 .. Len(msgs) /\ p \in Nat /\ m \in Nat
      BY <1>1
    <3>2. QED
      BY <3>1 DEF At, Begun, InArray, Places
  <2>2. QED
    BY <1>1, <2>1
<1> HIDE DEF data
<1>9. Path(d, b, c)
  <2> HIDE DEF d, b
  <2>1. p + Len(d) <= msgs[m].len /\ At(m, p + Len(d)) = c
    BY <1>2, <1>5
  <2>2. Path(d, b, At(m, p + Len(d)))
    BY <1>1, <1>5, <1>6, <1>7, <1>8, <2>1, DataRun
  <2>3. QED
    BY <2>1, <2>2
<1>10. s.put \o Body(s) \o <<x>> = s.put \o (Lead(s) \o d) /\ Lead(s) \in Seq(Items)
  <2>1. start \in Items /\ nop \in Items
    BY <1>1, ItemTypes
  <2>2. Lead(s) \in Seq(Items)
    <3>1. <<start>> \in Seq(Items) /\ <<nop>> \in Seq(Items)
      BY <2>1
    <3> HIDE DEF start, nop
    <3>2. Held(s) \o <<start>> \in Seq(Items)
      BY <1>1, <3>1, ConcatProperties
    <3>3. QED
      BY <3>1, <3>2 DEF Lead, start, nop
  <2>3. Body(s) = Lead(s) \o data
    BY DEF Body, data
  <2>4. PICK e : e = <<x>>
    OBVIOUS
  <2>5. Lead(s) \o data \in Seq(Items) /\ e \in Seq(Items)
    BY <1>3, <1>4, <2>2, <2>4, ConcatProperties
  <2>6. (s.put \o (Lead(s) \o data)) \o e = s.put \o ((Lead(s) \o data) \o e)
    <3>1. PICK q, r : q = s.put /\ r = Lead(s) \o data
      OBVIOUS
    <3>2. q \in Seq(Items) /\ r \in Seq(Items) /\ e \in Seq(Items)
      BY <1>1, <2>5, <3>1
    <3>3. (q \o r) \o e = q \o (r \o e)
      BY <3>2, ItemsAssociative
    <3>4. QED
      BY <3>1, <3>3
  <2>7. (Lead(s) \o data) \o e = Lead(s) \o (data \o e)
    BY <1>3, <2>2, <2>5, ItemsAssociative
  <2>8. QED
    BY <2>2, <2>3, <2>4, <2>6, <2>7
<1>11. CASE p = 0
  <2>1. start \in Items /\ start.tag = "start" /\ start.msg = m /\ start.n = 0
    BY <1>1 DEF Item, Items
  <2>2. Due(start, a) /\ Reached(start, b) /\ Placed(start)
    <3>1. DueAt(a) = start
      BY <1>8, <1>11 DEF DueAt
    <3>2. Plain(start) = start
      BY <2>1 DEF Plain
    <3>3. b = Begun(m, 0)
      BY <1>11
    <3> HIDE DEF start, a, b
    <3>4. QED
      BY <1>1, <1>8, <1>11, <2>1, <3>1, <3>2, <3>3 DEF Due, Reached, Placed, Begun
  <2> HIDE DEF start, a, b, c, d
  <2>3. <<start>> \in Seq(Items) /\ Path(<<start>>, a, b)
    BY <2>1, <2>2, PathOne
  <2>4. PICK e : e = <<start>>
    OBVIOUS
  <2>5. e \o d \in Seq(Items) /\ Path(e \o d, a, c)
    BY <1>1, <1>5, <1>8, <1>9, <2>3, <2>4, PathConcat
  <2>6. Path(s.put \o Held(s), Start, a)
    BY DEF Underway, a
  <2>7. (s.put \o Held(s)) \o (e \o d) \in Seq(Items) /\ Path((s.put \o Held(s)) \o (e \o d), Start, c)
    BY <1>1, <1>8, <2>5, <2>6, PathConcat
  <2>8. Lead(s) = Held(s) \o e
    BY <1>11, <2>4 DEF Lead, start
  <2>9. /\ (Held(s) \o e) \o d = Held(s) \o (e \o d)
        /\ (s.put \o Held(s)) \o (e \o d) = s.put \o (Held(s) \o (e \o d))
    <3>1. PICK q, h, r : q = s.put /\ h = Held(s) /\ r = e \o d
      OBVIOUS
    <3>2. q \in Seq(Items) /\ h \in Seq(Items) /\ r \in Seq(Items)
      BY <1>1, <2>5, <3>1
    <3>3. h \in Seq(Items) /\ e \in Seq(Items) /\ d \in Seq(Items)
      BY <1>5, <2>3, <2>4, <3>2
    <3>4. (q \o h) \o r = q \o (h \o r)
      BY <3>2, ItemsAssociative, Zenon
    <3>5. (h \o e) \o d = h \o (e \o d)
      BY <3>3, ItemsAssociative, Zenon
    <3>6. QED
      BY <3>1, <3>4, <3>5
  <2>10. QED
    BY <1>10, <2>7, <2>8, <2>9 DEF c
<1>12. CASE p # 0
  <2>1. /\ nop \in Items /\ nop.tag = "nop" /\ nop.msg = m /\ nop.n = p
    BY <1>1 DEF Item, Items
  <2>2. Due(nop, a) /\ Reached(nop, b) /\ Placed(nop) /\ a = b
    <3>1. a = b
      BY <1>12
    <3>2. p > 0
      BY <1>1, <1>12
    <3> HIDE DEF nop, b
    <3>3. QED
      BY <1>1, <1>8, <1>12, <2>1, <3>1, <3>2 DEF Due, Reached, Placed
  <2>3. s.put = <<>> /\ m = msg /\ p = pos
    BY <1>12 DEF Pending
  <2>4. Path(s.put, Start, a)
    BY <2>3 DEF Path, Start
  <2> HIDE DEF nop, a, b, c, d
  <2>5. <<nop>> \in Seq(Items) /\ Path(<<nop>>, a, b)
    BY <2>1, <2>2, PathOne
  <2>6. PICK e : e = <<nop>>
    OBVIOUS
  <2>7. e \o d \in Seq(Items) /\ Path(e \o d, a, c)
    BY <1>1, <1>5, <1>8, <1>9, <2>5, <2>6, PathConcat
  <2>8. s.put \o (e \o d) \in Seq(Items) /\ Path(s.put \o (e \o d), Start, c)
    BY <1>1, <1>8, <2>4, <2>7, PathConcat
  <2>9. Lead(s) = e
    BY <1>12, <2>6 DEF Lead, nop
  <2>10. QED
    BY <1>10, <2>8, <2>9 DEF c
<1>13. QED
  BY <1>11, <1>12

(* A write that another message follows is the first one packed: it begins *)
(* the block, and unless it fills the block it is written to its end.      *)
LEMMA FirstWrites ==
  ASSUME AtFill, Paired(msgs), NEW s, LoopOK(s), Pending(s), Underway(s), ~msgs[s.msg].rd, s.rem > 1
  PROVE  /\ s.idx = 0 /\ Slot(s) \in Nat /\ Slot(s) <= wr_sz - 1
         /\ Slot(s) < wr_sz - 1 => End(s) = msgs[s.msg].len
<1>1. s.msg = msg
  <2>1. s.msg = msg \/ s.rem = 1
    BY JoinedLast
  <2>2. QED
    BY <2>1
<1>2. s.idx = 0 /\ s.cnt = msgs[s.msg].len - s.pos
  BY <1>1 DEF Pending
<1>3. s.pos \in Nat /\ msgs[s.msg].len \in Nat /\ wr_sz \in Nat /\ wr_sz > 2
  BY LinePlaces DEF AtFill
<1>4. /\ Slot(s) \in Nat /\ End(s) = s.pos + Bytes(s)
      /\ IF s.idx = wr_sz - 1 THEN Slot(s) = wr_sz ELSE Slot(s) <= wr_sz - 1
      /\ Slot(s) < wr_sz - 1 => Bytes(s) = s.cnt
  BY BytesRange DEF End
<1>5. QED
  BY <1>2, <1>3, <1>4

(* The two entries a turn may end with.                                    *)
LEMMA FinalPlaced ==
  ASSUME AtFill, NEW s, LoopOK(s), Pending(s), ~msgs[s.msg].rd
  PROVE  /\ Final(s) \in Items /\ Plain(Final(s)) = Item("data", s.msg, End(s)) /\ Placed(Final(s))
         /\ Stop(s) \in Items /\ Plain(Stop(s)) = Item("data", s.msg, End(s))
         /\ s.rem > 1 /\ AddressEnds(s) => Placed(Stop(s))
<1>1. /\ s.msg \in 1 .. Len(msgs) /\ s.msg \in Nat /\ Len(msgs) \in Nat /\ s.rem = Len(msgs) - s.msg + 1
      /\ msgs[s.msg].len \in Nat
  BY LinePlaces DEF LoopOK, Along
<1>2. End(s) \in Nat /\ End(s) <= msgs[s.msg].len
  BY BytesRange
<1>3. \A tag \in {"data", "stop"} :
        /\ Item(tag, s.msg, End(s)) \in Items /\ Item(tag, s.msg, End(s)).tag = tag
        /\ Item(tag, s.msg, End(s)).msg = s.msg /\ Item(tag, s.msg, End(s)).n = End(s)
        /\ Plain(Item(tag, s.msg, End(s))) = Item("data", s.msg, End(s))
  BY <1>1, <1>2 DEF Item, Items, Plain
<1>4. /\ Final(s) \in Items /\ Plain(Final(s)) = Item("data", s.msg, End(s)) /\ Final(s).msg = s.msg
      /\ Final(s).n = End(s) /\ (End(s) < msgs[s.msg].len \/ s.rem > 1 => Final(s).tag = "data")
  BY <1>3 DEF Final
<1>5. Placed(Final(s))
  <2>1. CASE End(s) < msgs[s.msg].len \/ s.rem > 1
    BY <1>1, <1>4, <2>1 DEF Placed
  <2>2. CASE ~(End(s) < msgs[s.msg].len \/ s.rem > 1)
    <3>1. End(s) = msgs[s.msg].len /\ ~(s.msg < Len(msgs))
      BY <1>1, <1>2, <2>2
    <3>2. QED
      BY <1>1, <1>4, <3>1 DEF Placed
  <2>3. QED
    BY <2>1, <2>2
<1>6. /\ Stop(s) \in Items /\ Plain(Stop(s)) = Item("data", s.msg, End(s))
      /\ Stop(s).msg = s.msg /\ Stop(s).n = End(s)
  BY <1>3 DEF Stop
<1>7. s.rem > 1 /\ AddressEnds(s) => Placed(Stop(s))
  BY <1>1, <1>6 DEF Placed, AddressEnds
<1>8. QED
  BY <1>4, <1>5, <1>6, <1>7

LEMMA NotEmpty == ASSUME NEW p \in Seq(Items), NEW x \in Items PROVE p \o <<x>> # <<>>
<1>1. <<x>> \in Seq(Items) /\ Len(<<x>>) = 1
  OBVIOUS
<1>2. Len(p \o <<x>>) = Len(p) + 1 /\ Len(p) \in Nat /\ p \o <<x>> \in Seq(Items)
  BY <1>1, ConcatProperties, LenProperties
<1>3. Len(p \o <<x>>) # 0
  BY <1>2
<1>4. QED
  BY <1>3, EmptySeq

(* What a turn of qup_issue_write leaves.  If the next message is joined   *)
(* to it the message is written to its end, the half word that is held     *)
(* included; if not, no half word is held.                                 *)
Joining(s, u) == ~(u.idx >= wr_sz) /\ s.rem > 1 /\ msgs[s.msg + 1].addr = msgs[s.msg].addr
LeadsTo(q, a) == q # <<>> /\ Path(q, Start, a)
WrittenTo(s, u) ==
  /\ ~Joining(s, u) => LeadsTo(u.put, At(s.msg, End(s)))
  /\ Joining(s, u) => LeadsTo(u.put \o Held(u), At(s.msg, End(s))) /\ End(s) = msgs[s.msg].len
LEMMA WriteEnds ==
  ASSUME AtFill, Paired(msgs), NEW s, LoopOK(s), Pending(s), Underway(s), ~msgs[s.msg].rd
  PROVE  WrittenTo(s, IssueWrite(s))
<1>0. PICK u : u = IssueWrite(s)
  OBVIOUS
<1> DEFINE q == s.put \o Body(s)
           c == At(s.msg, End(s))
<1>1. /\ s \in LoopState /\ s.rem \in Int /\ s.carry \in Seq(Items) /\ Silent(s.carry)
      /\ s.put \in Seq(Items) /\ wr_sz \in Nat /\ wr_sz % 2 = 0 /\ wr_sz > 2
      /\ s.msg \in 1 .. Len(msgs) /\ msgs \in Seq(Message)
  BY LinePlaces DEF LoopOK, Along, LoopState, Pending, AtFill
<1>2. /\ Final(s) \in Items /\ Final(s).tag # "split" /\ Final(s).bytes = 0
      /\ Filler(s) \in Items /\ Filler(s).tag # "split" /\ Filler(s).bytes = 0
      /\ Stop(s) \in Items /\ Stop(s).tag # "split" /\ Stop(s).bytes = 0
      /\ Body(s) \in Seq(Items)
  BY WrittenItems
<1>3. /\ <<Final(s)>> \in Seq(Items) /\ Silent(<<Final(s)>>) /\ <<Filler(s)>> \in Seq(Items) /\ Silent(<<Filler(s)>>)
      /\ <<Stop(s)>> \in Seq(Items) /\ Silent(<<Stop(s)>>)
  BY <1>2, OneEntry
<1>4. 1 \in {1, 2} /\ 2 \in {1, 2}
  OBVIOUS
<1>5. q \in Seq(Items)
  BY <1>1, <1>2, ConcatProperties
<1>6. q \o <<Final(s)>> \in Seq(Items) /\ LeadsTo(q \o <<Final(s)>>, c)
  <2>1. Plain(Final(s)) = Item("data", s.msg, End(s)) /\ Placed(Final(s))
    BY FinalPlaced
  <2>2. q \o <<Final(s)>> \in Seq(Items) /\ Path(q \o <<Final(s)>>, Start, c)
    BY <1>2, <2>1, WriteLine
  <2>3. q \o <<Final(s)>> # <<>>
    BY <1>2, <1>5, NotEmpty
  <2>4. QED
    BY <2>2, <2>3 DEF LeadsTo
<1> HIDE DEF q, c
<1>7. CASE Whole(s, u)
  <2>1. u = Written(s, <<Final(s)>>, 1, s.carry) /\ (Odd(Slot(s)) \/ s.rem <= 1)
    BY <1>7 DEF Whole
  <2>2. Turn(s, u, <<Final(s)>>, 1, s.carry)
    BY <1>1, <1>3, <1>4, <2>1, WriteTurn, Zenon
  <2>3. u.put = q \o <<Final(s)>> /\ u.idx = Slot(s) + 1
    BY <2>2 DEF Turn, q
  <2>4. Joining(s, u) => Held(u) = <<>> /\ End(s) = msgs[s.msg].len
    <3>1. SUFFICES ASSUME Joining(s, u) PROVE Held(u) = <<>> /\ End(s) = msgs[s.msg].len
      OBVIOUS
    <3>2. s.rem > 1 /\ ~(u.idx >= wr_sz)
      BY <3>1 DEF Joining
    <3>3. /\ Slot(s) \in Nat
          /\ Slot(s) < wr_sz - 1 => End(s) = msgs[s.msg].len
      BY <3>2, FirstWrites
    <3>4. Slot(s) % 2 = 1
      BY <1>1, <2>1, <3>2 DEF Odd
    <3>5. wr_sz \in Nat /\ wr_sz % 2 = 0
      BY <1>1
    <3>6. Slot(s) < wr_sz - 1
      BY <2>3, <3>2, <3>3, <3>5
    <3>7. u.idx % 2 = 0
      BY <2>3, <3>3, <3>4
    <3>8. ~Odd(u.idx)
      BY <3>7 DEF Odd
    <3>9. QED
      BY <3>3, <3>6, <3>8 DEF Held
  <2>5. u.put \in Seq(Items) /\ u.put \o <<>> = u.put
    BY <1>6, <2>3, ConcatEmptySeq
  <2>6. QED
    BY <1>0, <1>6, <2>3, <2>4, <2>5 DEF WrittenTo, c
<1>8. CASE Filled(s, u)
  <2>1. u = Written(s, <<Final(s), Filler(s)>>, 2, s.carry) /\ Slot(s) = wr_sz - 2
    BY <1>8 DEF Filled, ReadLeftOne
  <2>2. <<Final(s), Filler(s)>> = <<Final(s)>> \o <<Filler(s)>>
    BY <1>2, TwoAsOne
  <2>3. <<Final(s), Filler(s)>> \in Seq(Items) /\ Silent(<<Final(s), Filler(s)>>)
    BY <1>3, <2>2, SilentConcat
  <2>4. Turn(s, u, <<Final(s), Filler(s)>>, 2, s.carry)
    BY <1>1, <1>4, <2>1, <2>3, WriteTurn, Zenon
  <2>5. u.put = q \o <<Final(s), Filler(s)>> /\ u.idx = Slot(s) + 2
    BY <2>4 DEF Turn, q
  <2>6. u.put = (q \o <<Final(s)>>) \o <<Filler(s)>>
    <3>1. PICK f, g : f = <<Final(s)>> /\ g = <<Filler(s)>>
      OBVIOUS
    <3>2. f \in Seq(Items) /\ g \in Seq(Items)
      BY <1>3, <3>1
    <3>3. (q \o f) \o g = q \o (f \o g)
      BY <1>5, <3>2, ConcatAssociative
    <3>4. QED
      BY <2>2, <2>5, <3>1, <3>3
  <2>7. Due(Filler(s), c) /\ Reached(Filler(s), c) /\ Placed(Filler(s)) /\ InArray(c)
    <3>1. End(s) \in Nat \ {0} /\ End(s) > 0
      BY BytesRange
    <3>2. Filler(s).tag = "nop" /\ Filler(s).msg = s.msg /\ Filler(s).n = End(s)
      BY DEF Filler, Item
    <3>3. InArray(c) /\ c.msg = s.msg /\ c.n = End(s) /\ c.begun = FALSE
      <4>1. s.msg \in 1 .. Len(msgs) /\ s.msg \in Nat /\ End(s) \in Nat
        BY <1>1, <3>1
      <4>2. QED
        BY <4>1 DEF c, At, InArray, Places
    <3>4. QED
      BY <1>1, <3>1, <3>2, <3>3 DEF Due, Reached, Placed
  <2>8. Path(<<Filler(s)>>, c, c)
    BY <1>2, <2>7, PathOne
  <2>9. Path(u.put, Start, c)
    <3>1. PICK p, g : p = q \o <<Final(s)>> /\ g = <<Filler(s)>>
      OBVIOUS
    <3>2. p \in Seq(Items) /\ g \in Seq(Items) /\ Path(p, Start, c) /\ Path(g, c, c)
      BY <1>3, <1>6, <2>8, <3>1 DEF LeadsTo
    <3>3. Path(p \o g, Start, c)
      BY <1>1, <2>7, <3>2, PathConcat
    <3>4. QED
      BY <2>6, <3>1, <3>3
  <2>10. u.put # <<>>
    BY <1>2, <1>6, <2>6, NotEmpty
  <2>11. ~Joining(s, u)
    BY <1>1, <2>1, <2>5 DEF Joining
  <2>12. QED
    BY <1>0, <2>9, <2>10, <2>11 DEF WrittenTo, LeadsTo, c
<1>9. CASE Stopped(s, u)
  <2>1. /\ u = Written(s, <<Stop(s)>>, 2, s.carry) /\ msgs[s.msg + 1].addr # msgs[s.msg].addr
        /\ s.rem > 1 /\ AddressEnds(s)
    BY <1>9 DEF Stopped, AddressEnds
  <2>2. Turn(s, u, <<Stop(s)>>, 2, s.carry)
    BY <1>1, <1>3, <1>4, <2>1, WriteTurn, Zenon
  <2>3. u.put = q \o <<Stop(s)>>
    BY <2>2 DEF Turn, q
  <2>4. Plain(Stop(s)) = Item("data", s.msg, End(s)) /\ Placed(Stop(s))
    BY <2>1, FinalPlaced
  <2>5. Path(u.put, Start, c)
    BY <1>2, <2>3, <2>4, WriteLine DEF q, c
  <2>6. u.put # <<>>
    BY <1>2, <1>5, <2>3, NotEmpty
  <2>7. QED
    BY <1>0, <2>1, <2>5, <2>6 DEF WrittenTo, LeadsTo, Joining, c
<1>10. CASE Halved(s, u)
  <2>1. /\ u = Written(s, <<>>, 1, <<Final(s)>>) /\ ~Odd(Slot(s)) /\ s.rem > 1 /\ ~AddressEnds(s)
    BY <1>10 DEF Halved
  <2>2. <<>> \in Seq(Items) /\ Silent(<<>>)
    <3>1. Len(<<>>) = 0 /\ <<>> \in Seq(Items)
      BY EmptySeq
    <3>2. QED
      BY <3>1 DEF Silent
  <2>3. Turn(s, u, <<>>, 1, <<Final(s)>>)
    BY <1>3, <1>4, <2>1, <2>2, WriteTurn, Zenon
  <2>4. u.put = q \o <<>> /\ u.idx = Slot(s) + 1 /\ u.carry = <<Final(s)>>
    BY <2>3 DEF Turn, q
  <2>5. u.put = q
    BY <1>5, <2>4, ConcatEmptySeq
  <2>6. /\ Slot(s) \in Nat /\ Slot(s) <= wr_sz - 1
        /\ Slot(s) < wr_sz - 1 => End(s) = msgs[s.msg].len
    BY <2>1, FirstWrites
  <2>7. Slot(s) % 2 = 0
    BY <2>1, <2>6 DEF Odd
  <2>8. Slot(s) < wr_sz - 1 /\ u.idx % 2 = 1 /\ ~(u.idx >= wr_sz) /\ Slot(s) < wr_sz
    <3>1. wr_sz \in Nat /\ wr_sz % 2 = 0
      BY <1>1
    <3>2. Slot(s) # wr_sz - 1
      BY <2>6, <2>7, <3>1
    <3>3. u.idx % 2 = 1
      BY <2>4, <2>6, <2>7
    <3>4. Slot(s) < wr_sz - 1
      BY <2>6, <3>1, <3>2
    <3>5. QED
      BY <2>4, <2>6, <3>1, <3>3, <3>4
  <2>9. End(s) = msgs[s.msg].len /\ msgs[s.msg + 1].addr = msgs[s.msg].addr
    BY <2>1, <2>6, <2>8 DEF AddressEnds
  <2>10. Joining(s, u)
    BY <2>1, <2>8, <2>9 DEF Joining
  <2>11. Held(u) = <<Final(s)>>
    BY <2>4, <2>8 DEF Held, Odd
  <2>12. QED
    BY <1>0, <1>6, <2>5, <2>9, <2>10, <2>11 DEF WrittenTo, c
<1>11. QED
  BY <1>0, <1>1, <1>7, <1>8, <1>9, <1>10, WriteCases

(* One turn leads on along the array.                                      *)
LEMMA LineTurned ==
  ASSUME AtFill, Paired(msgs), NEW s, LoopOK(s), Pending(s), Underway(s)
  PROVE  LineOK(Issue(s))
<1>1. CASE msgs[s.msg].rd
  BY <1>1, ReadIssued, ReadLine DEF LineOK
<1>2. CASE ~msgs[s.msg].rd
  <2>0. PICK u, v : u = IssueWrite(s) /\ v = Issue(s)
    OBVIOUS
  <2> DEFINE c == Min({msgs[s.msg + 1].len, ReadLimit})
  <2>1. /\ u \in LoopState /\ u.msg = s.msg /\ u.rem = s.rem /\ u.filled = FALSE /\ u.pos = End(s)
    BY <1>2, <2>0, WriteLeft DEF Left
  <2>2. /\ ~Joining(s, u) => LeadsTo(u.put, At(s.msg, End(s)))
        /\ Joining(s, u) => LeadsTo(u.put \o Held(u), At(s.msg, End(s))) /\ End(s) = msgs[s.msg].len
    BY <1>2, <2>0, WriteEnds DEF WrittenTo
  <2>3. v = IF Joining(s, u) THEN [u EXCEPT !.rem = u.rem - 1, !.msg = u.msg + 1, !.pos = 0, !.cnt = c]
            ELSE [u EXCEPT !.filled = TRUE]
    <3>1. v = NextToFill(u)
      BY <1>2, <2>0 DEF Issue
    <3> HIDE DEF c
    <3>2. c = Min({msgs[s.msg + 1].len, ReadLimit})
      BY DEF c
    <3>3. QED
      BY <1>2, <2>1, <3>1, <3>2 DEF NextToFill, Joining
  <2> HIDE DEF c
  <2>4. s.msg \in 1 .. Len(msgs) /\ s.msg \in Nat /\ msgs[s.msg].len \in Nat \ {0}
    <3>1. s.msg \in 1 .. Len(msgs) /\ s.msg \in Nat /\ msgs[s.msg].len \in Nat /\ s.pos < msgs[s.msg].len /\ s.pos \in Nat
      BY LinePlaces
    <3>2. QED
      BY <3>1
  <2>5. CASE Joining(s, u)
    <3>1. v = [u EXCEPT !.rem = u.rem - 1, !.msg = u.msg + 1, !.pos = 0, !.cnt = c]
      BY <2>3, <2>5
    <3>2. /\ v.msg = s.msg + 1 /\ v.pos = 0 /\ v.idx = u.idx /\ v.put = u.put /\ v.carry = u.carry
          /\ v.filled = FALSE
      BY <2>1, <3>1 DEF LoopState
    <3>3. Held(v) = Held(u)
      BY <3>2 DEF Held
    <3>4. PICK q : q = u.put \o Held(u)
      OBVIOUS
    <3>5. q # <<>> /\ Path(q, Start, At(s.msg, msgs[s.msg].len))
      BY <2>2, <2>5, <3>4 DEF LeadsTo
    <3>6. Reached(q[Len(q)], At(s.msg + 1, 0))
      BY <2>4, <3>5, ReachedEnd DEF Path
    <3>7. Path(q, Start, At(s.msg + 1, 0))
      BY <3>5, <3>6 DEF Path
    <3>8. msgs[v.msg - 1].addr = msgs[v.msg].addr
      <4>1. v.msg - 1 = s.msg
        BY <2>4, <3>2
      <4>2. QED
        BY <2>5, <3>2, <4>1 DEF Joining
    <3>9. Underway(v)
      BY <3>2, <3>3, <3>4, <3>7, <3>8 DEF Underway
    <3>10. QED
      BY <2>0, <3>2, <3>9 DEF LineOK
  <2>6. CASE ~Joining(s, u)
    <3>1. v = [u EXCEPT !.filled = TRUE]
      BY <2>3, <2>6
    <3>2. v.msg = s.msg /\ v.pos = End(s) /\ v.put = u.put /\ v.filled = TRUE
      BY <2>1, <3>1 DEF LoopState
    <3>3. Complete(v)
      BY <1>2, <2>2, <2>6, <3>2 DEF Complete, LeadsTo
    <3>4. QED
      BY <2>0, <3>2, <3>3 DEF LineOK
  <2>7. QED
    BY <2>5, <2>6
<1>3. QED
  BY <1>1, <1>2

(* The block that Fill writes leads from the driver's place to its next.   *)
LEMMA PackedLine ==
  ASSUME AtFill, Paired(msgs)
  PROVE  /\ Packed.put \in Seq(Items) /\ Packed.put # <<>>
         /\ Path(Packed.put, Start,
                 At(Packed.msg, IF msgs[Packed.msg].rd THEN Packed.pos + Packed.cnt ELSE Packed.pos))
<1> DEFINE S == {s \in LoopState : LoopOK(s) /\ LineOK(s)}
<1>1. Len(msgs) \in Nat /\ msg \in 1 .. Len(msgs)
  BY LenProperties DEF AtFill
<1>2. Unpacked \in S /\ Unpacked.msg = msg
  <2>1. Unpacked \in LoopState /\ LoopOK(Unpacked) /\ Unpacked.msg = msg
    BY FirstTurn DEF LoopOK, Along
  <2>2. /\ Unpacked.pos = pos /\ Unpacked.idx = 0 /\ Unpacked.filled = FALSE /\ Unpacked.put = <<>>
    BY DEF Unpacked, AtFill
  <2>3. Held(Unpacked) = <<>>
    BY <2>2 DEF Held, Odd
  <2>4. Unpacked.put \o Held(Unpacked) = <<>>
    <3>1. <<>> \in Seq(Items)
      BY EmptySeq
    <3>2. QED
      BY <2>2, <2>3, <3>1, ConcatEmptySeq
  <2>5. Underway(Unpacked)
    BY <2>1, <2>2, <2>4 DEF Underway, Path, Start
  <2>6. QED
    BY <2>1, <2>2, <2>5 DEF LineOK
<1>3. \A s \in S : s.filled \in BOOLEAN /\ s.msg \in msg .. Len(msgs)
  BY DEF LoopState, LoopOK, Along
<1>4. ASSUME NEW s \in S, ~s.filled
      PROVE  Issue(s) \in S /\ (Issue(s).filled \/ Issue(s).msg = s.msg + 1)
  <2>1. LoopOK(s) /\ Pending(s) /\ Underway(s)
    BY <1>4 DEF LoopOK, Ready, LineOK
  <2>2. LoopOK(Issue(s)) /\ (Issue(s).filled \/ Issue(s).msg = s.msg + 1)
    BY <2>1, Turned
  <2>3. LineOK(Issue(s))
    BY <2>1, LineTurned
  <2>4. QED
    BY <2>2, <2>3 DEF LoopOK, Along
<1> HIDE DEF S
<1>5. Packed \in S /\ Packed.filled
  BY <1>1, <1>2, <1>3, <1>4, TurnsKeep
<1>6. QED
  BY <1>5 DEF S, LineOK, Complete, LoopState

-----------------------------------------------------------------------------
(* The bus, step by step.                                                  *)

LEMMA SameArray ==
  ASSUME msgs' = msgs
  PROVE  \A e, x : /\ Joins(e, x)' <=> Joins(e, x)
                   /\ Placed(e)' <=> Placed(e)
                   /\ Reached(e, x)' <=> Reached(e, x)
                   /\ Following(e)' = Following(e)
<1>1. \A e : Following(e)' = Following(e)
  BY DEF Following
<1>2. QED
  BY <1>1 DEF Joins, Placed, Reached

LEMMA UpToSame ==
  ASSUME msgs' = msgs, wire' = wire, out' = out, Place' = Place, UpTo(Place)
  PROVE  UpTo(Place)'
BY SameArray DEF UpTo

LEMMA BusStays ==
  ASSUME BusOK, msgs' = msgs, wire' = wire, out' = out, clean' => clean,
         Working' \/ ret' = "num" => Working \/ ret = "num",
         clean' /\ (Working' \/ ret' = "num") => UpTo(Place)',
         clean' /\ ~Working' /\ ret' = "num" => out = <<>> /\ due' = 0
  PROVE  BusOK'
<1> SUFFICES ASSUME clean' PROVE BusOK'
  BY DEF BusOK
<1>1. /\ wire \in Seq(Items) /\ AllPlaced(wire) /\ AllPlaced(out)
      /\ \A i \in 1 .. Len(wire) :
           wire[i].tag # "nop" /\ Plain(wire[i]) = IF i = 1 THEN Item("start", 1, 0) ELSE Following(wire[i - 1])
      /\ Chained(out)
      /\ out # <<>> => IF wire = <<>> THEN out[1] = Item("start", 1, 0)
                       ELSE Joins(wire[Len(wire)], out[1])
      /\ Working \/ ret = "num" => msgs # <<>>
  BY DEF BusOK
<1>2. AllPlaced(wire)' /\ AllPlaced(out)'
  BY <1>1, SameArray DEF AllPlaced
<1>3. Chained(out)'
  BY <1>1, SameArray DEF Chained
<1>4. \A i \in 1 .. Len(wire') :
           wire'[i].tag # "nop" /\ Plain(wire'[i]) = IF i = 1 THEN Item("start", 1, 0) ELSE Following(wire[i - 1])'
  BY <1>1, SameArray
<1>5. out' # <<>> => IF wire' = <<>> THEN out'[1] = Item("start", 1, 0)
                       ELSE Joins(wire[Len(wire)], out[1])'
  BY <1>1, SameArray
<1>6. QED
  BY <1>1, <1>2, <1>3, <1>4, <1>5 DEF BusOK

(* The controller takes an entry: a filler leaves no trace.                *)
LEMMA BusTaken ==
  ASSUME ReadInv, BusOK, TakeEntry
  PROVE  BusOK'
<1> SUFFICES ASSUME clean' PROVE BusOK'
  BY DEF BusOK
<1> DEFINE x == out[1]
           e == wire[Len(wire)]
<1>1. /\ wire \in Seq(Items) /\ AllPlaced(wire) /\ AllPlaced(out)
      /\ \A i \in 1 .. Len(wire) :
           wire[i].tag # "nop" /\ Plain(wire[i]) = IF i = 1 THEN Item("start", 1, 0) ELSE Following(wire[i - 1])
      /\ Chained(out)
      /\ IF wire = <<>> THEN x = Item("start", 1, 0) ELSE Joins(e, x)
      /\ Working \/ ret = "num" => UpTo(Place) /\ msgs # <<>>
      /\ ~Working /\ ret = "num" => out = <<>> /\ due = 0
  BY DEF BusOK, TakeEntry
<1>2. /\ out # <<>> /\ out' = Tail(out) /\ wire' = IF x.tag = "nop" THEN wire ELSE Append(wire, x)
      /\ msgs' = msgs /\ Working' = Working /\ ret' = ret /\ Place' = Place
  BY DEF TakeEntry, Working, Looping, Place, Issued, At, position, mode
<1>3. out \in Seq(Items)
  BY DEF ReadInv, ComingOK
<1>4. /\ Len(out) \in Nat \ {0} /\ out' \in Seq(Items) /\ Len(out') = Len(out) - 1
      /\ \A i \in 1 .. Len(out) - 1 : out'[i] = out[i + 1]
  BY <1>2, <1>3, HeadTailProperties, LenProperties, EmptySeq
<1>5. x \in Items /\ Placed(x) /\ Len(wire) \in Nat
  <2>1. 1 \in 1 .. Len(out)
    BY <1>4
  <2>2. QED
    BY <1>1, <1>3, <2>1, ElementOfSeq, LenProperties DEF AllPlaced
<1>6. AllPlaced(out)' /\ Chained(out)'
  <2>1. \A i \in 1 .. Len(out') : Placed(out'[i])
    <3> TAKE i \in 1 .. Len(out')
    <3>1. i \in 1 .. Len(out) - 1 /\ i + 1 \in 1 .. Len(out)
      BY <1>4
    <3>2. QED
      BY <1>1, <1>4, <3>1 DEF AllPlaced
  <2>2. \A i \in 1 .. Len(out') - 1 : Joins(out'[i], out'[i + 1])
    <3> TAKE i \in 1 .. Len(out') - 1
    <3>1. i \in 1 .. Len(out) - 1 /\ i + 1 \in 1 .. Len(out) - 1
      BY <1>4
    <3>2. Joins(out[i + 1], out[i + 1 + 1])
      BY <1>1, <3>1 DEF Chained
    <3>3. QED
      BY <1>4, <3>1, <3>2
  <2>3. QED
    BY <1>2, <2>1, <2>2, SameArray DEF AllPlaced, Chained
(* What may follow the entry that is taken.                                *)
<1>7. out' # <<>> => Joins(x, out'[1])
  <2>1. SUFFICES ASSUME out' # <<>> PROVE Joins(x, out'[1])
    OBVIOUS
  <2>2. Len(out') # 0
    BY <1>4, <2>1, EmptySeq
  <2>3. 1 \in 1 .. Len(out) - 1
    BY <1>4, <2>2
  <2>4. QED
    BY <1>1, <1>4, <2>3 DEF Chained
<1>8. out' = <<>> => \A a : (Working \/ ret = "num") /\ a = Place => Reached(x, a)
  <2>1. SUFFICES ASSUME out' = <<>>, Working \/ ret = "num" PROVE Reached(x, Place)
    OBVIOUS
  <2>2. Len(out') = 0
    BY <2>1
  <2>3. Len(out) = 1
    BY <1>4, <2>2
  <2>4. QED
    BY <1>1, <1>2, <2>1, <2>3 DEF UpTo
<1>9. CASE x.tag = "nop"
  <2>1. wire' = wire /\ wire # <<>>
    <3>1. wire = <<>> => x.tag = "start"
      BY <1>1 DEF Item
    <3>2. QED
      BY <1>2, <1>9, <3>1
  <2>2. x.msg = e.msg /\ x.n = e.n /\ e.tag # "start"
    BY <1>1, <1>9, <2>1 DEF Joins
  <2>3. Following(x) = Following(e)
    BY <1>9, <2>2 DEF Following
  <2> HIDE DEF x, e
  <2>4. \A y : Joins(x, y) => Joins(e, y)
    BY <1>9, <2>2, <2>3 DEF Joins
  <2>5. \A a : Reached(x, a) => Reached(e, a)
    BY <1>9, <2>2 DEF Reached
  <2>6. out' # <<>> => Joins(e, out'[1])
    BY <1>7, <2>4
  <2>7. Working \/ ret = "num" => UpTo(Place)'
    <3> SUFFICES ASSUME Working \/ ret = "num" PROVE UpTo(Place)'
      OBVIOUS
    <3>1. CASE out' = <<>>
      <4>1. Reached(e, Place)
        BY <1>8, <2>5, <3>1
      <4>2. QED
        BY <1>2, <2>1, <3>1, <4>1, SameArray DEF UpTo, e
    <3>2. CASE out' # <<>>
      <4>1. Reached(out[Len(out)], Place)
        BY <1>1, <1>2 DEF UpTo
      <4>2. out'[Len(out')] = out[Len(out)]
        <5>1. Len(out') # 0
          BY <1>4, <3>2, EmptySeq
        <5>2. Len(out') \in 1 .. Len(out) - 1 /\ Len(out') + 1 = Len(out)
          BY <1>4, <5>1
        <5>3. QED
          BY <1>4, <5>2
      <4>3. QED
        BY <1>2, <3>2, <4>1, <4>2, SameArray DEF UpTo
    <3>3. QED
      BY <3>1, <3>2
  <2>8. AllPlaced(wire)'
    BY <1>1, <1>2, <2>1, SameArray DEF AllPlaced
  <2>9. \A i \in 1 .. Len(wire') :
           wire'[i].tag # "nop" /\ Plain(wire'[i]) = IF i = 1 THEN Item("start", 1, 0) ELSE Following(wire[i - 1])'
    BY <1>1, <1>2, <2>1, SameArray
  <2>10. out' # <<>> => Joins(wire[Len(wire)], out[1])'
    BY <1>2, <2>1, <2>6, SameArray DEF e
  <2>11. QED
    BY <1>1, <1>2, <1>6, <2>1, <2>7, <2>8, <2>9, <2>10 DEF BusOK
<1>10. CASE x.tag # "nop"
  <2>1. wire' = Append(wire, x)
    BY <1>2, <1>10
  <2>2. Plain(x) = IF wire = <<>> THEN Item("start", 1, 0) ELSE Following(e)
    <3>1. Plain(Item("start", 1, 0)) = Item("start", 1, 0)
      BY DEF Plain, Item
    <3>2. QED
      BY <1>1, <1>10, <3>1 DEF Joins
  <2> HIDE DEF x
  <2>3. /\ wire' \in Seq(Items) /\ Len(wire') = Len(wire) + 1 /\ wire' # <<>>
        /\ \A i \in 1 .. Len(wire) : wire'[i] = wire[i]
        /\ wire'[Len(wire) + 1] = x
    BY <1>1, <1>5, <2>1, AppendProperties
  <2>4. ASSUME NEW i \in 1 .. Len(wire')
        PROVE  /\ wire'[i].tag # "nop" /\ Placed(wire'[i])
               /\ Plain(wire'[i]) = IF i = 1 THEN Item("start", 1, 0) ELSE Following(wire'[i - 1])
    <3>1. CASE i <= Len(wire)
      <4>1. i \in 1 .. Len(wire) /\ (i # 1 => i - 1 \in 1 .. Len(wire))
        BY <1>5, <2>3, <3>1
      <4>2. wire'[i] = wire[i] /\ (i # 1 => wire'[i - 1] = wire[i - 1])
        BY <2>3, <4>1
      <4>3. QED
        BY <1>1, <4>1, <4>2 DEF AllPlaced
    <3>2. CASE ~(i <= Len(wire))
      <4>1. i = Len(wire) + 1
        BY <1>5, <2>3, <3>2
      <4>2. Plain(x) = IF i = 1 THEN Item("start", 1, 0) ELSE Following(wire'[i - 1])
        <5>1. CASE wire = <<>>
          <6>1. i = 1
            BY <4>1, <5>1
          <6>2. QED
            BY <2>2, <5>1, <6>1
        <5>2. CASE wire # <<>>
          <6>1. Len(wire) # 0
            BY <1>1, <5>2, EmptySeq
          <6>2. i - 1 = Len(wire) /\ i # 1 /\ i - 1 \in 1 .. Len(wire)
            BY <1>5, <4>1, <6>1
          <6>3. wire'[i - 1] = e
            BY <2>3, <6>2
          <6>4. QED
            BY <2>2, <5>2, <6>2, <6>3
        <5>3. QED
          BY <5>1, <5>2
      <4>3. wire'[i] = x
        BY <2>3, <4>1
      <4>4. QED
        BY <1>5, <1>10, <4>2, <4>3
    <3>3. QED
      BY <3>1, <3>2
  <2>5. AllPlaced(wire)'
    BY <1>2, <2>4, SameArray DEF AllPlaced
  <2>6. \A i \in 1 .. Len(wire') :
           wire'[i].tag # "nop" /\ Plain(wire'[i]) = IF i = 1 THEN Item("start", 1, 0) ELSE Following(wire[i - 1])'
    BY <1>2, <2>4, SameArray
  <2>7. wire'[Len(wire')] = x
    BY <2>3
  <2>8. out' # <<>> => Joins(wire[Len(wire)], out[1])'
    BY <1>2, <1>7, <2>7, SameArray
  <2>9. Working \/ ret = "num" => UpTo(Place)'
    <3> SUFFICES ASSUME Working \/ ret = "num" PROVE UpTo(Place)'
      OBVIOUS
    <3>1. CASE out' = <<>>
      <4>1. Reached(x, Place)
        BY <1>8, <3>1
      <4>2. QED
        BY <1>2, <2>3, <2>7, <3>1, <4>1, SameArray DEF UpTo
    <3>2. CASE out' # <<>>
      <4>1. Reached(out[Len(out)], Place)
        BY <1>1, <1>2 DEF UpTo
      <4>2. out'[Len(out')] = out[Len(out)]
        <5>1. Len(out') # 0
          BY <1>4, <3>2, EmptySeq
        <5>2. Len(out') \in 1 .. Len(out) - 1 /\ Len(out') + 1 = Len(out)
          BY <1>4, <5>1
        <5>3. QED
          BY <1>4, <5>2
      <4>3. QED
        BY <1>2, <3>2, <4>1, <4>2, SameArray DEF UpTo
    <3>3. QED
      BY <3>1, <3>2
  <2>10. QED
    BY <1>1, <1>2, <1>6, <2>3, <2>5, <2>6, <2>8, <2>9 DEF BusOK
<1>11. QED
  BY <1>9, <1>10

(* While no error shows, the whole block finds room.                       *)
LEMMA FillWhole ==
  ASSUME ArrayOK, out \in Seq(Items), Fill, ~filled, clean'
  PROVE  /\ AtFill /\ out' = out \o Packed.put
         /\ msg' = Packed.msg /\ pos' = Packed.pos /\ cnt' = Packed.cnt /\ filled' = TRUE
         /\ pc' = "run" /\ ret = "none" /\ clean
<1> DEFINE room == out_fifo_sz - Len(out)
           put == Packed.put
<1>1. AtFill
  BY FillStep
<1>2. put \in Seq(Items)
  BY <1>1, PackedReady DEF Along, LoopState
<1>3. /\ out' = out \o SubSeq(put, 1, Min({room, Len(put)}))
      /\ msg' = Packed.msg /\ pos' = Packed.pos /\ cnt' = Packed.cnt /\ filled' = TRUE
      /\ pc' = "run" /\ clean /\ ~(Len(put) > room)
  BY DEF Fill, Goto
<1> HIDE DEF put
<1>4. room \in Int /\ Len(put) \in Int /\ Len(put) <= room
  <2>1. Len(out) \in Nat /\ Len(put) \in Nat /\ out_fifo_sz \in Nat
    BY <1>2, LenProperties, QupAssumption
  <2>2. room \in Int
    BY <2>1
  <2> HIDE DEF room
  <2>3. QED
    BY <1>3, <2>1, <2>2
<1> HIDE DEF room
<1>5. Min({room, Len(put)}) = Len(put)
  BY <1>4, MinOfTwo
<1>6. SubSeq(put, 1, Len(put)) = put
  BY <1>2, SubSeqFull
<1>7. ret = "none"
  BY DEF ArrayOK, Fill, Working, Looping
<1>8. QED
  BY <1>1, <1>3, <1>5, <1>6, <1>7 DEF put

LEMMA BusFilled ==
  ASSUME ReadInv, BusOK, Paired(msgs), Fill
  PROVE  BusOK'
<1> SUFFICES ASSUME clean' PROVE BusOK'
  BY DEF BusOK
<1>1. /\ msgs' = msgs /\ wire' = wire /\ clean /\ ret' = ret /\ Working /\ Working' /\ due' = due
      /\ filled' = TRUE /\ Looping /\ Looping'
  BY DEF Fill, Working, Looping, Goto, bus
<1>2. ArrayOK /\ out \in Seq(Items)
  BY DEF ReadInv, ComingOK
<1>3. CASE filled
  <2>1. UNCHANGED <<msg, rem, pos, cnt, devmsg, out>>
    BY <1>2, <1>3, FillStep DEF AtFill
  <2>2. Place' = Place
    BY <1>1, <1>3, <2>1 DEF Place, Issued, At
  <2>3. UpTo(Place)'
    BY <1>1, <2>1, <2>2, UpToSame DEF BusOK
  <2>4. QED
    BY <1>1, <2>1, <2>3, BusStays
<1>4. CASE ~filled
  <2> DEFINE p == Packed.put
             b == At(Packed.msg, IF msgs[Packed.msg].rd THEN Packed.pos + Packed.cnt ELSE Packed.pos)
  <2>1. /\ AtFill /\ out' = out \o p
        /\ msg' = Packed.msg /\ pos' = Packed.pos /\ cnt' = Packed.cnt
    BY <1>2, <1>4, FillWhole
  <2>2. p \in Seq(Items) /\ p # <<>> /\ Path(p, Start, b)
    BY <2>1, PackedLine
  <2>3. Place = Start /\ Place' = b
    <3>1. Issued' <=> msgs[Packed.msg].rd
      BY <1>1, <2>1 DEF Issued
    <3>2. Place' = At(msg', IF Issued' THEN pos' + cnt' ELSE pos')
      BY DEF Place, At
    <3>3. ~Issued
      BY <1>4 DEF Issued
    <3>4. QED
      BY <2>1, <3>1, <3>2, <3>3 DEF Place, Start
  <2>4. InArray(Start) /\ msgs \in Seq(Message)
    <3>1. msg \in 1 .. Len(msgs) /\ pos \in Nat
      BY <2>1 DEF AtFill
    <3>2. QED
      BY <2>1, <3>1, PlaceTypes DEF Start, AtFill
  <2> HIDE DEF p, b
  <2>5. /\ Due(p[1], Start) /\ Reached(p[Len(p)], b) /\ Chained(p) /\ AllPlaced(p)
    BY <2>2 DEF Path
  <2>6. /\ wire \in Seq(Items) /\ AllPlaced(wire) /\ AllPlaced(out)
        /\ \A i \in 1 .. Len(wire) :
             wire[i].tag # "nop" /\ Plain(wire[i]) = IF i = 1 THEN Item("start", 1, 0) ELSE Following(wire[i - 1])
        /\ Chained(out)
        /\ out # <<>> => IF wire = <<>> THEN out[1] = Item("start", 1, 0)
                         ELSE Joins(wire[Len(wire)], out[1])
        /\ UpTo(Start) /\ msgs # <<>>
    BY <1>1, <2>3 DEF BusOK
  <2>7. /\ Len(p) \in Nat \ {0} /\ Len(out) \in Nat /\ Len(out') = Len(out) + Len(p)
        /\ out' \in Seq(Items) /\ out' # <<>>
        /\ \A i \in 1 .. Len(out) : out'[i] = out[i]
        /\ \A i \in 1 .. Len(p) : out'[Len(out) + i] = p[i]
    <3>0. PICK o : o = out'
      OBVIOUS
    <3>1. /\ o \in Seq(Items) /\ Len(o) = Len(out) + Len(p)
          /\ \A i \in 1 .. Len(out) + Len(p) : o[i] = IF i <= Len(out) THEN out[i] ELSE p[i - Len(out)]
      BY <1>2, <2>1, <2>2, <3>0, ConcatProperties
    <3>2. Len(p) \in Nat /\ Len(out) \in Nat /\ Len(p) # 0
      BY <1>2, <2>2, LenProperties, EmptySeq
    <3>3. \A i \in 1 .. Len(out) : o[i] = out[i]
      BY <3>1, <3>2
    <3>4. ASSUME NEW i \in 1 .. Len(p) PROVE o[Len(out) + i] = p[i]
      <4>1. Len(out) + i \in 1 .. Len(out) + Len(p) /\ ~(Len(out) + i <= Len(out)) /\ Len(out) + i - Len(out) = i
        BY <3>2
      <4>2. QED
        BY <3>1, <4>1
    <3>5. Len(o) # 0
      BY <3>1, <3>2
    <3>6. o # <<>>
      BY <3>1, <3>5, EmptySeq
    <3>7. QED
      BY <3>0, <3>1, <3>2, <3>3, <3>4, <3>6
  <2>8. out'[Len(out')] = p[Len(p)]
    <3>1. Len(p) \in 1 .. Len(p)
      BY <2>7
    <3>2. QED
      BY <2>7, <3>1
  <2>9. /\ out # <<>> => Joins(out[Len(out)], p[1])
        /\ out = <<>> => IF wire = <<>> THEN p[1] = Item("start", 1, 0) ELSE Joins(wire[Len(wire)], p[1])
    <3>1. ASSUME NEW e \in Items, Placed(e), Reached(e, Start) PROVE Joins(e, p[1])
      BY <2>4, <2>5, <3>1, DueJoins
    <3>2. CASE out # <<>>
      <4>1. Len(out) # 0
        BY <1>2, <3>2, EmptySeq
      <4>2. Len(out) \in 1 .. Len(out)
        BY <2>7, <4>1
      <4>3. out[Len(out)] \in Items /\ Placed(out[Len(out)]) /\ Reached(out[Len(out)], Start)
        BY <1>2, <2>6, <3>2, <4>2, ElementOfSeq DEF AllPlaced, UpTo
      <4>4. QED
        BY <3>1, <3>2, <4>3
    <3>3. CASE out = <<>> /\ wire # <<>>
      <4>1. Len(wire) # 0 /\ Len(wire) \in Nat
        BY <2>6, <3>3, EmptySeq, LenProperties
      <4>2. Len(wire) \in 1 .. Len(wire)
        BY <4>1
      <4>3. wire[Len(wire)] \in Items /\ Placed(wire[Len(wire)]) /\ Reached(wire[Len(wire)], Start)
        BY <2>6, <3>3, <4>2, ElementOfSeq DEF AllPlaced, UpTo
      <4>4. QED
        BY <3>1, <3>3, <4>3
    <3>4. CASE out = <<>> /\ wire = <<>>
      <4>1. Start = At(1, 0)
        BY <2>6, <3>4 DEF UpTo
      <4>2. Start.msg = 1 /\ Start.n = 0 /\ Start.begun = FALSE
        BY <4>1 DEF At
      <4>3. p[1].tag # "nop" /\ Plain(p[1]) = DueAt(Start)
        BY <2>5, <4>2 DEF Due
      <4>4. DueAt(Start) = Item("start", 1, 0)
        BY <4>2 DEF DueAt
      <4>5. p[1] \in Items
        <5>1. 1 \in 1 .. Len(p)
          BY <2>7
        <5>2. QED
          BY <2>2, <5>1, ElementOfSeq
      <4>6. p[1].tag # "stop"
        <5>1. SUFFICES ASSUME p[1].tag = "stop" PROVE FALSE
          OBVIOUS
        <5>2. Plain(p[1]).tag = "data"
          BY <4>5, <5>1 DEF Plain, Items
        <5>3. QED
          BY <4>3, <4>4, <5>2 DEF Item
      <4>7. p[1] = Item("start", 1, 0)
        BY <4>3, <4>4, <4>6 DEF Plain
      <4>8. QED
        BY <3>4, <4>7
    <3>5. QED
      BY <3>2, <3>3, <3>4
  <2>10. ASSUME NEW i \in 1 .. Len(out') PROVE Placed(out'[i])
    <3>1. CASE i <= Len(out)
      <4>1. i \in 1 .. Len(out)
        BY <2>7, <3>1
      <4>2. QED
        BY <2>6, <2>7, <4>1 DEF AllPlaced
    <3>2. CASE ~(i <= Len(out))
      <4>1. PICK j : j = i - Len(out)
        OBVIOUS
      <4>2. j \in 1 .. Len(p) /\ Len(out) + j = i
        BY <2>7, <3>2, <4>1
      <4>3. out'[i] = p[j]
        BY <2>7, <4>2
      <4>4. QED
        BY <2>5, <4>2, <4>3 DEF AllPlaced
    <3>3. QED
      BY <3>1, <3>2
  <2>11. ASSUME NEW i \in 1 .. Len(out') - 1 PROVE Joins(out'[i], out'[i + 1])
    <3>1. CASE i < Len(out)
      <4>1. i \in 1 .. Len(out) - 1 /\ i \in 1 .. Len(out) /\ i + 1 \in 1 .. Len(out)
        BY <2>7, <3>1
      <4>2. QED
        BY <2>6, <2>7, <4>1 DEF Chained
    <3>2. CASE i = Len(out)
      <4>1. i \in 1 .. Len(out) /\ Len(out) # 0 /\ 1 \in 1 .. Len(p)
        BY <2>7, <3>2
      <4>2. out'[i] = out[Len(out)] /\ out'[i + 1] = p[1] /\ out # <<>>
        <5>1. out # <<>>
          BY <1>2, <4>1, EmptySeq
        <5>2. QED
          BY <2>7, <3>2, <4>1, <5>1
      <4>3. QED
        BY <2>9, <4>2
    <3>3. CASE i > Len(out)
      <4>1. PICK j : j = i - Len(out)
        OBVIOUS
      <4>2. /\ j \in 1 .. Len(p) - 1 /\ j \in 1 .. Len(p) /\ j + 1 \in 1 .. Len(p)
            /\ Len(out) + j = i /\ Len(out) + (j + 1) = i + 1
        BY <2>7, <3>3, <4>1
      <4>3. out'[i] = p[j] /\ out'[i + 1] = p[j + 1]
        <5>1. out'[Len(out) + j] = p[j] /\ out'[Len(out) + (j + 1)] = p[j + 1]
          BY <2>7, <4>2
        <5>2. QED
          BY <4>2, <5>1, Zenon
      <4>4. QED
        BY <2>5, <4>2, <4>3 DEF Chained
    <3>4. QED
      BY <2>7, <3>1, <3>2, <3>3
  <2>12. IF wire = <<>> THEN out'[1] = Item("start", 1, 0) ELSE Joins(wire[Len(wire)], out'[1])
    <3>1. CASE out = <<>>
      <4>1. Len(out) = 0 /\ 1 \in 1 .. Len(p)
        BY <2>7, <3>1
      <4>2. out'[1] = p[1]
        <5>1. out'[0 + 1] = p[1]
          BY <2>7, <4>1
        <5>2. QED
          BY <5>1
      <4>3. QED
        BY <2>9, <3>1, <4>2
    <3>2. CASE out # <<>>
      <4>1. Len(out) # 0
        BY <1>2, <3>2, EmptySeq
      <4>2. 1 \in 1 .. Len(out)
        BY <2>7, <4>1
      <4>3. QED
        BY <2>6, <2>7, <3>2, <4>2
    <3>3. QED
      BY <3>1, <3>2
  <2>13. AllPlaced(wire)' /\ AllPlaced(out)' /\ Chained(out)'
    BY <1>1, <2>6, <2>10, <2>11, SameArray DEF AllPlaced, Chained
  <2>14. \A i \in 1 .. Len(wire') :
           wire'[i].tag # "nop" /\ Plain(wire'[i]) = IF i = 1 THEN Item("start", 1, 0) ELSE Following(wire[i - 1])'
    BY <1>1, <2>6, SameArray
  <2>15. IF wire' = <<>> THEN out'[1] = Item("start", 1, 0) ELSE Joins(wire[Len(wire)], out[1])'
    BY <1>1, <2>12, SameArray
  <2>16. UpTo(Place)'
    BY <1>1, <2>3, <2>5, <2>7, <2>8, SameArray DEF UpTo
  <2>17. QED
    BY <1>1, <2>6, <2>7, <2>13, <2>14, <2>15, <2>16 DEF BusOK
<1>5. QED
  BY <1>3, <1>4

(* A message has ended, or is at hand with the rest of it to come.         *)
LEMMA BusEnded ==
  ASSUME ReadInv, BusOK, EndMessage
  PROVE  BusOK'
<1> SUFFICES ASSUME clean' PROVE BusOK'
  BY DEF BusOK
<1>1. /\ msgs' = msgs /\ wire' = wire /\ clean' = clean /\ clean /\ Working
      /\ ~Issued'
  <2>1. msgs' = msgs /\ wire' = wire /\ clean' = clean /\ pc = "end" /\ pc' \in {"ready", "out"}
    BY DEF EndMessage, Goto, Fails, bus
  <2>2. QED
    BY <2>1 DEF Working, Looping, Issued
<1>2. ArrayOK /\ ret = "none" /\ cnt = 0 /\ msg <= Len(msgs)
  BY DEF ReadInv, ArrayOK, EndMessage, Working, Looping
<1>3. /\ msg \in 1 .. Len(msgs) /\ msgs[msg].len \in Nat \ {0} /\ pos \in Nat
  BY <1>1, <1>2, AtMessage
<1>4. out' = out
  BY DEF EndMessage, ClockReady, Flushed, fifos
<1>5. /\ pos + cnt = pos
      /\ Place = At(msg, pos) /\ UpTo(Place)
  <2>1. pos + cnt = pos
    BY <1>2, <1>3
  <2>2. QED
    BY <1>1, <2>1 DEF BusOK, Place
<1>6. ret' # "num"
  BY <1>2 DEF EndMessage, Fails
<1>7. UpTo(Place)'
  <2>1. CASE msgs[msg].len = pos
    <3>1. msg' = msg + 1 /\ pos' = 0
      BY <1>2, <2>1 DEF EndMessage
    <3>2. Place' = At(msg + 1, 0)
      BY <1>1, <3>1 DEF Place, At
    <3>3. \A e : Reached(e, At(msg, pos)) => Reached(e, At(msg + 1, 0))
      BY <1>3, <2>1, ReachedEnd
    <3>4. At(msg, pos) # At(1, 0)
      BY <1>3, <2>1 DEF At
    <3>5. IF out # <<>> THEN Reached(out[Len(out)], At(msg + 1, 0))
          ELSE wire # <<>> /\ Reached(wire[Len(wire)], At(msg + 1, 0))
      BY <1>5, <3>3, <3>4 DEF UpTo
    <3>6. QED
      BY <1>1, <1>4, <3>2, <3>5, SameArray DEF UpTo
  <2>2. CASE msgs[msg].len # pos
    <3>1. msg' = msg /\ pos' = pos
      BY <1>2, <2>2 DEF EndMessage
    <3>2. Place' = Place
      BY <1>1, <1>5, <3>1 DEF Place, At
    <3>3. QED
      BY <1>1, <1>4, <1>5, <3>2, UpToSame
  <2>3. QED
    BY <2>1, <2>2
<1>8. QED
  BY <1>1, <1>4, <1>6, <1>7, BusStays

(* What is taken out of the input FIFO moves within what was asked for.    *)
LEMMA BusInput ==
  ASSUME ReadInv, BusOK, TakeInput
  PROVE  BusOK'
<1>1. /\ UNCHANGED <<msgs, wire, out, clean, msg, due, ret, filled>> /\ Looping /\ Looping'
      /\ pc = "check" /\ msgs[devmsg].rd /\ pos' = pos + Taken /\ cnt' = cnt - Taken
  BY DEF TakeInput, CountDown, Looping, Goto, bus, mode
<1>2. devmsg = msg /\ msg <= Len(msgs) /\ filled /\ ret = "none" /\ ArrayOK
  BY <1>1 DEF ReadInv, ArrayOK, Working, Looping
<1>3. Issued /\ Issued'
  BY <1>1, <1>2 DEF Issued
<1>4. pos \in Nat /\ cnt \in Nat /\ msgs[msg].len \in Nat
  BY <1>1, <1>2, AtMessage DEF Working
<1>5. Taken \in Int
  <2>1. Len(infifo) \in Int
    BY LenProperties DEF ReadInv, ComingOK
  <2>2. msgs[devmsg].len - pos \in Int
    BY <1>2, <1>4
  <2>3. QED
    BY <2>1, <2>2, MinOfTwo DEF Taken
<1>6. Place' = Place
  <2>1. PICK k : k = Taken
    OBVIOUS
  <2>2. pos + k + (cnt - k) = pos + cnt
    BY <1>4, <1>5, <2>1
  <2>3. pos' + cnt' = pos + cnt
    BY <1>1, <2>1, <2>2
  <2>4. QED
    BY <1>1, <1>3, <2>3 DEF Place, At
<1>7. clean' => UpTo(Place)'
  BY <1>1, <1>6, UpToSame DEF BusOK, Working
<1>8. QED
  BY <1>1, <1>2, <1>7, BusStays DEF Working

(* A transfer begins on an idle bus.                                       *)
LEMMA BusBegun ==
  ASSUME ReadInv, (\A t \in Transfers : Paired(t)), Xfer
  PROVE  BusOK' /\ Paired(msgs)'
<1>1. /\ msgs' \in Transfers /\ wire' = <<>> /\ out' = <<>> /\ due' = 0 /\ msg' = 1 /\ pos' = pos
      /\ pc' = "message" /\ ret' = "none"
  BY DEF Xfer, Flushed, Goto
<1>2. pos = 0
  BY DEF ReadInv, ArrayOK, Xfer
<1>3. msgs' # <<>>
  BY <1>1, QupAssumption
<1>4. Place' = At(1, 0)
  BY <1>1, <1>2 DEF Place, Issued, Looping, At
<1>5. UpTo(Place)'
  BY <1>1, <1>4 DEF UpTo
<1>6. <<>> \in Seq(Items) /\ Len(<<>>) = 0
  BY EmptySeq
<1>7. AllPlaced(wire)' /\ AllPlaced(out)' /\ Chained(out)'
  BY <1>1, <1>6 DEF AllPlaced, Chained
<1>8. BusOK'
  BY <1>1, <1>3, <1>5, <1>6, <1>7 DEF BusOK, Working
<1>9. QED
  BY <1>1, <1>8 DEF Paired

LEMMA BusSame ==
  ASSUME BusOK, UNCHANGED <<msgs, wire, out, clean>>,
         clean /\ (Working' \/ ret' = "num") => (Working \/ ret = "num") /\ Place' = Place,
         clean /\ ~Working' /\ ret' = "num" => out = <<>> /\ due' = 0
  PROVE  BusOK'
<1> SUFFICES ASSUME clean PROVE BusOK'
  BY DEF BusOK
<1>1. Working' \/ ret' = "num" => UpTo(Place)'
  BY UpToSame DEF BusOK
<1>2. QED
  BY <1>1, BusStays

(* Steps of the driver that issue nothing.                                 *)
LEMMA BusDriven ==
  ASSUME ReadInv, QuietOK, BusOK,
         StartMessage \/ Pause \/ Run \/ CheckError \/ Refill \/ PollWriteReady \/ OutErr
  PROVE  BusOK'
<1>1. ArrayOK
  BY DEF ReadInv
<1>2. CASE StartMessage
  <2>1. /\ UNCHANGED <<msgs, wire, out, clean, msg, pos, due>> /\ Working /\ ~Issued
        /\ \/ Working' /\ ~(msgs[msg].rd /\ filled')
           \/ ~Working' /\ ret' # "num"
    BY <1>2 DEF StartMessage, BlockMode, Goto, Fails, Working, Looping, Issued, fifos, bus
  <2>2. Working' => Place' = Place
    BY <2>1 DEF Place, Issued, At
  <2>3. Working' \/ ret' # "num"
    BY <2>1
  <2>4. QED
    BY <2>1, <2>2, <2>3, BusSame
<1>3. CASE Pause \/ Run
  <2>1. /\ UNCHANGED <<msgs, wire, out, clean, msg, pos, cnt, filled, due>> /\ Working /\ Looping
        /\ \/ Working' /\ Looping'
           \/ ~Working' /\ ret' # "num"
    BY <1>3 DEF Pause, Run, Goto, Fails, Working, Looping, fifos, bus, position, mode
  <2>2. Working' => Place' = Place
    BY <2>1 DEF Place, Issued, At
  <2>3. Working' \/ ret' # "num"
    BY <2>1
  <2>4. QED
    BY <2>1, <2>2, <2>3, BusSame
<1>4. CASE CheckError
  <2>1. UNCHANGED <<msgs, wire, out, clean>> /\ ~Working' /\ ret' = "error"
    BY <1>4 DEF CheckError, Goto, Working, Looping, controller, fifos, bus
  <2>2. QED
    BY <2>1, BusSame
<1>5. CASE Refill
  <2>1. /\ UNCHANGED <<msgs, wire, out, clean, msg, pos, cnt, due>> /\ Working /\ Working'
        /\ pc = "check" /\ ~msgs[devmsg].rd
    BY <1>5 DEF Refill, Goto, Working, Looping, controller, fifos, bus, position
  <2>2. devmsg = msg
    BY <1>1, <2>1 DEF ArrayOK, Working, Looping
  <2>3. Place' = Place
    BY <2>1, <2>2 DEF Place, Issued, At
  <2>4. QED
    BY <2>1, <2>3, BusSame
<1>6. CASE PollWriteReady
  <2>1. /\ UNCHANGED <<msgs, wire, out, clean, msg, pos, cnt, due>> /\ Working /\ ~Looping /\ ~Looping'
        /\ Working' \/ ret' # "num" \/ (WriteReady /\ rem = 0)
    BY <1>6 DEF PollWriteReady, Goto, Fails, Working, Looping, controller, fifos, bus, position
  <2>2. Place' = Place
    BY <2>1 DEF Place, Issued, At
  <2>3. clean /\ WriteReady /\ rem = 0 => out = <<>> /\ due = 0
    BY <1>6 DEF PollWriteReady, QuietOK, WriteReady, BusActive, ClockReady
  <2>4. QED
    BY <2>1, <2>2, <2>3, BusSame
<1>7. CASE OutErr
  <2>1. /\ UNCHANGED <<msgs, wire, out, clean, msg, due, ret>> /\ ~Working /\ ~Working' /\ ~Looping /\ ~Looping'
        /\ pos' = 0 /\ pc # "message"
    BY <1>7 DEF OutErr, Goto, Working, Looping, controller, fifos, bus
  <2>2. ret = "num" => Place' = Place
    BY <1>1, <2>1 DEF ArrayOK, Place, Issued, At
  <2>3. clean /\ ret = "num" => out = <<>> /\ due = 0
    BY <2>1 DEF BusOK
  <2>4. QED
    BY <2>1, <2>2, <2>3, BusSame
<1>8. QED
  BY <1>2, <1>3, <1>4, <1>5, <1>6, <1>7

LEMMA BusKept ==
  ASSUME ReadInv, QuietOK, BusOK, Paired(msgs), \A t \in Transfers : Paired(t), [Next]_vars
  PROVE  BusOK' /\ Paired(msgs)'
<1>1. CASE Xfer
  BY <1>1, BusBegun
<1>2. CASE Driver
  <2>1. Paired(msgs)'
    <3>1. msgs' = msgs
      BY <1>2 DEF Driver, StartMessage, Pause, Fill, Run, CheckError, TakeInput, Refill, EndMessage,
                  PollWriteReady, RecoverBusBusy, OutErr
    <3>2. QED
      BY <3>1 DEF Paired
  <2>2. CASE RecoverBusBusy
    <3>1. ~clean'
      BY <2>2 DEF RecoverBusBusy, QuietOK
    <3>2. QED
      BY <2>1, <3>1 DEF BusOK
  <2>3. QED
    BY <1>2, <2>1, <2>2, BusDriven, BusFilled, BusInput, BusEnded DEF Driver
<1>3. CASE ServiceInterrupt \/ UNCHANGED vars
  <2>1. UNCHANGED <<msgs, wire, out, clean, pc, msg, pos, cnt, filled, due, ret>>
    BY <1>3 DEF ServiceInterrupt, vars, controller, fifos, bus, position, mode
  <2>2. Place' = Place /\ Working' = Working
    BY <2>1 DEF Place, Issued, Looping, Working, At
  <2>3. clean /\ ~Working /\ ret = "num" => out = <<>> /\ due = 0
    BY DEF BusOK
  <2>4. BusOK'
    BY <2>1, <2>2, <2>3, BusSame
  <2>5. QED
    BY <2>1, <2>4 DEF Paired
<1>4. CASE ReceiveByte
  <2>1. UNCHANGED <<msgs, wire, out, clean, pc, msg, pos, cnt, filled, ret>> /\ due > 0
    BY <1>4 DEF ReceiveByte, position, mode
  <2>2. Place' = Place /\ Working' = Working
    BY <2>1 DEF Place, Issued, Looping, Working, At
  <2>3. ~(clean /\ ~Working /\ ret = "num")
    <3>1. due # 0
      BY <2>1
    <3>2. QED
      BY <3>1 DEF BusOK
  <2>4. BusOK'
    BY <2>1, <2>2, <2>3, BusSame
  <2>5. QED
    BY <2>1, <2>4 DEF Paired
<1>5. CASE TakeEntry
  <2>1. msgs' = msgs
    BY <1>5 DEF TakeEntry
  <2>2. QED
    BY <1>5, <2>1, BusTaken DEF Paired
<1>6. CASE ErrorInterrupt \/ BusError
  <2>1. ~clean' /\ msgs' = msgs
    BY <1>6 DEF ErrorInterrupt, BusError, QuietOK
  <2>2. QED
    BY <2>1 DEF BusOK, Paired
<1>7. QED
  BY <1>1, <1>2, <1>3, <1>4, <1>5, <1>6 DEF Next, Interrupt, Controller

(* As long as no error was flagged none is noted, and the controller runs  *)
(* when the driver waits for it.                                           *)
LEMMA QuietKept ==
  ASSUME ReadInv, QuietOK, [Next]_vars
  PROVE  QuietOK'
<1> USE DEF Goto, Fails
<1>1. CASE Xfer
  BY <1>1 DEF Xfer, QuietOK
<1>2. CASE StartMessage \/ Pause \/ Fill \/ Run
  <2>1. CASE StartMessage
    BY <2>1 DEF StartMessage, QuietOK, irq
  <2>2. CASE Pause
    BY <2>2 DEF Pause, QuietOK, irq
  <2>3. CASE Fill
    <3>1. pc' = "run" /\ err' = err /\ (clean' => clean /\ flagged' = flagged)
      BY <2>3 DEF Fill
    <3>2. QED
      BY <3>1 DEF QuietOK
  <2>4. CASE Run
    BY <2>4 DEF Run, QuietOK, irq
  <2>5. QED
    BY <1>2, <2>1, <2>2, <2>3, <2>4
<1>3. CASE CheckError
  BY <1>3 DEF CheckError, QuietOK, controller
<1>4. CASE TakeInput \/ Refill
  BY <1>4 DEF TakeInput, Refill, QuietOK, controller
<1>5. CASE EndMessage
  <2>1. pc = "end" /\ cnt = 0 /\ clean' = clean /\ err' = err
    BY <1>5 DEF EndMessage, ReadInv, ArrayOK, Looping
  <2>2. flagged' \in {flagged, "none"} /\ pc' \in {"ready", "out"}
    BY <1>5 DEF EndMessage
  <2>3. rem' \in Int
    <3>1. rem \in Int
      <4>1. Len(msgs) \in Nat /\ msg \in 1 .. Len(msgs) + 1 /\ rem = Len(msgs) - msg + 1
        BY <2>1, LenProperties DEF ReadInv, ArrayOK, Working, Looping
      <4>2. QED
        BY <4>1
    <3>2. rem' = rem \/ rem' = rem - 1
      BY <1>5 DEF EndMessage
    <3>3. QED
      BY <3>1, <3>2
  <2>4. pc' = "ready" /\ rem' = 0 => qstate' = qstate
    <3>1. ~(rem' > 0 /\ rem' = 0)
      BY <2>3
    <3>2. QED
      BY <1>5, <2>1, <3>1 DEF EndMessage
  <2>5. QED
    BY <2>1, <2>2, <2>4 DEF QuietOK
<1>6. CASE PollWriteReady
  BY <1>6 DEF PollWriteReady, QuietOK, controller
<1>7. CASE RecoverBusBusy
  BY <1>7 DEF RecoverBusBusy, QuietOK
<1>8. CASE OutErr
  BY <1>8 DEF OutErr, QuietOK, controller
<1>9. CASE ErrorInterrupt
  BY <1>9 DEF ErrorInterrupt, Handles, QuietOK, irq
<1>10. CASE ServiceInterrupt
  BY <1>10 DEF ServiceInterrupt, Handles, QuietOK, irq, controller, position
<1>11. CASE TakeEntry \/ ReceiveByte \/ BusError
  BY <1>11 DEF TakeEntry, ReceiveByte, BusError, QuietOK, irq, position
<1>12. CASE UNCHANGED vars
  BY <1>12 DEF vars, QuietOK, irq, controller, position
<1>13. QED
  BY <1>1, <1>2, <1>3, <1>4, <1>5, <1>6, <1>7, <1>8, <1>9, <1>10, <1>11, <1>12
     DEF Next, Driver, Interrupt, Controller

(* What follows from it for the bus.                                       *)
LEMMA WireAsMessages == ASSUME ReadInv, BusOK PROVE WireFollowsMessages
<1> SUFFICES ASSUME clean PROVE WireFollowsMessages
  BY DEF WireFollowsMessages
<1>1. /\ wire \in Seq(Items) /\ AllPlaced(wire)
      /\ \A i \in 1 .. Len(wire) : Plain(wire[i]) = IF i = 1 THEN Item("start", 1, 0) ELSE Following(wire[i - 1])
      /\ Working \/ ret = "num" => UpTo(Place) /\ msgs # <<>>
      /\ ~Working /\ ret = "num" => out = <<>>
  BY DEF BusOK
<1>2. \A i \in 1 .. Len(wire) : Placed(wire[i])
  BY <1>1 DEF AllPlaced
<1>3. \A i \in 1 .. Len(wire) : wire[i].msg <= Len(msgs)
  <2>1. Len(msgs) \in Nat
    BY LenProperties DEF ReadInv, ArrayOK
  <2>2. QED
    BY <1>2, <2>1 DEF Placed
<1>4. Succeeded => /\ wire # <<>> /\ Last(wire).tag # "start"
                   /\ Last(wire).msg = Len(msgs) /\ Last(wire).n = msgs[Len(msgs)].len
  <2> SUFFICES ASSUME Succeeded
               PROVE  /\ wire # <<>> /\ Last(wire).tag # "start"
                      /\ Last(wire).msg = Len(msgs) /\ Last(wire).n = msgs[Len(msgs)].len
    OBVIOUS
  <2>1. ret = "num" /\ ~Working /\ ~Looping /\ pc # "message"
    BY DEF Succeeded, Working, Looping
  <2>2. msg = Len(msgs) + 1 /\ pos = 0 /\ Len(msgs) \in Nat /\ Len(msgs) # 0
    BY <1>1, <2>1, LenProperties, EmptySeq DEF ReadInv, ArrayOK
  <2>3. Place = At(Len(msgs) + 1, 0) /\ At(Len(msgs) + 1, 0) # At(1, 0)
    BY <2>1, <2>2 DEF Place, Issued, At
  <2>4. wire # <<>> /\ Reached(wire[Len(wire)], At(Len(msgs) + 1, 0))
    BY <1>1, <2>1, <2>3 DEF UpTo
  <2>5. Len(msgs) + 1 - 1 = Len(msgs)
    BY <2>2
  <2>6. QED
    BY <2>4, <2>5 DEF Reached, At, Last
<1>5. \A i \in 1 .. Len(wire) : wire[i].tag = "stop" =>
         LET m == wire[i].msg
         IN  wire[i].n = msgs[m].len /\ (m < Len(msgs) => msgs[m + 1].addr # msgs[m].addr)
  BY <1>2 DEF Placed
<1>6. QED
  BY <1>1, <1>3, <1>4, <1>5 DEF WireFollowsMessages

(* While no error shows, the bus carries the messages, byte by byte, and a *)
(* transfer that succeeds has carried them all.                            *)
THEOREM WireFollowsHolds ==
  ASSUME \A t \in Transfers : Paired(t)
  PROVE  Spec => []WireFollowsMessages
<1> DEFINE WireInv == ReadInv /\ QuietOK /\ BusOK /\ Paired(msgs)
<1>1. Init => WireInv
  <2> SUFFICES ASSUME Init PROVE WireInv
    OBVIOUS
  <2>1. ReadInv
    BY ReadInvInit
  <2>2. <<>> \in Seq(Items) /\ Len(<<>>) = 0
    BY EmptySeq
  <2>3. AllPlaced(wire) /\ AllPlaced(out) /\ Chained(out) /\ Paired(msgs)
    BY <2>2 DEF Init, AllPlaced, Chained, Paired
  <2>4. QuietOK
    BY DEF Init, QuietOK
  <2>5. BusOK
    BY <2>2, <2>3 DEF Init, BusOK, Working, Looping
  <2>6. QED
    BY <2>1, <2>3, <2>4, <2>5
<1>2. WireInv /\ [Next]_vars => WireInv'
  BY ReadInvNext, QuietKept, BusKept
<1>3. WireInv => WireFollowsMessages
  BY WireAsMessages
<1>4. QED
  BY <1>1, <1>2, <1>3, PTL DEF Spec

=============================================================================

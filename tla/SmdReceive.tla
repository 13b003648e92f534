----------------------------- MODULE SmdReceive -----------------------------
(***************************************************************************)
(* The receive FIFO of the shared-memory channel and smd_read, which polls *)
(* its indices (Driver/SmdRpmDxe/smd.c).  The RPM, external, puts one      *)
(* packet - a header, then the payload - after each request and publishes  *)
(* it in pieces by moving write_index; smd_read waits for the header,      *)
(* copies it, waits for pkt_size more, copies that, and moves read_index.  *)
(* Indices count 32-bit words where the code counts bytes in steps of 4.   *)
(***************************************************************************)
EXTENDS Integers, Sequences

CONSTANTS
  FifoWords,    \* fifo_size
  HdrWords,     \* sizeof(smd_pkt_hdr)
  MaxLen,       \* the longest payload ("does not exceed 20 bytes")
  Modulus,      \* 2^32: the indices are subtracted as uint32_t
  MaxPackets,   \* bound: packets sent in one behaviour
  Streaming     \* the RPM publishes each stretch that is contiguous in the
                \* FIFO, instead of the header and the payload

ASSUME FifoAssumption ==
  /\ HdrWords \in Nat \ {0} /\ MaxLen \in Nat \ {0}
  /\ FifoWords \in Nat /\ HdrWords + MaxLen < FifoWords
  /\ Modulus \in Nat /\ 2 * FifoWords < Modulus
  /\ MaxPackets \in Nat
  /\ Streaming \in BOOLEAN

VARIABLES
  fifo,        \* recv_buf
  write_index, \* ch1.write_index
  read_index,  \* ch1.read_index
  left,        \* words of the RPM's current packet it has not published
  packet,      \* payload of that packet
  sent,        \* packets the RPM has begun
  pc,          \* where smd_read stands; "request" between two calls
  asked,       \* the smd_write before the call took the request
  smd_hdr,     \* the header copied out
  response,    \* the payload of the last call that returned
  received     \* calls of smd_read that returned

rpm  == <<left, packet, sent>>
apps == <<pc, asked, smd_hdr, response, received>>
vars == <<fifo, write_index, read_index, rpm, apps>>

Slots == 0 .. FifoWords - 1

(* A word knows the packet and the offset it was written for; the first of *)
(* a header holds pkt_size.                                                *)
Zero == [pkt |-> 0, off |-> 0, pkt_size |-> 0]

Header(n, len) ==
  [i \in 1 .. HdrWords |-> [pkt |-> n, off |-> i, pkt_size |-> IF i = 1 THEN len ELSE 0]]
Payload(n, len) ==
  [i \in 1 .. len |-> [pkt |-> n, off |-> HdrWords + i, pkt_size |-> 0]]

(* Faulty: an index may come to rest on the end of the FIFO.               *)
Advance(index, n) == IF index + n >= FifoWords THEN index + n - FifoWords ELSE index + n

(* Place of slot s counted from index, around the end of the FIFO.         *)
Offset(index, s) == IF s >= index THEN s - index ELSE s - index + FifoWords

(* What memcpy_to_fifo leaves in the FIFO, the wrap included.              *)
CopyTo(buf, index, words) ==
  [s \in Slots |-> IF Offset(index, s) < Len(words) THEN words[Offset(index, s) + 1] ELSE buf[s]]

(* What memcpy_from_fifo copies out.                                       *)
CopyFrom(buf, index, n) == [i \in 1 .. n |-> buf[Advance(index, i - 1)]]

(* Faulty: signed, so that a wrapped write_index looks like an empty FIFO. *)
AvailableSigned(w, r) == w - r

(* write_index - read_index, unsigned.                                     *)
Available(w, r) == IF w >= r THEN w - r ELSE w - r + Modulus

Init ==
  /\ fifo = [s \in Slots |-> Zero]
  /\ \E i \in Slots : write_index = i /\ read_index = i
  /\ left = <<>> /\ packet = <<>> /\ sent = 0
  /\ pc = "request" /\ asked = FALSE /\ smd_hdr = <<>> /\ response = <<>> /\ received = 0

-----------------------------------------------------------------------------
(* rpm_smd_send_data calls smd_read for the answer, also when smd_write    *)
(* has refused the request.                                                *)
Call ==
  /\ pc = "request"
  /\ sent < MaxPackets
  /\ pc' = "header"
  /\ asked' \in BOOLEAN
  /\ UNCHANGED <<fifo, write_index, read_index, rpm, smd_hdr, response, received>>

(* Faulty: the header, or the payload, is copied without waiting for it.   *)
ReadHeaderEager ==
  /\ pc = "header"
  /\ smd_hdr' = CopyFrom(fifo, read_index, HdrWords)
  /\ read_index' = Advance(read_index, HdrWords)
  /\ pc' = "payload"
  /\ UNCHANGED <<fifo, write_index, rpm, asked, response, received>>

(* The first loop of smd_read falls through and the header is copied.      *)
ReadHeader ==
  /\ pc = "header"
  /\ Available(write_index, read_index) >= HdrWords
  /\ smd_hdr' = CopyFrom(fifo, read_index, HdrWords)
  /\ read_index' = Advance(read_index, HdrWords)
  /\ pc' = "payload"
  /\ UNCHANGED <<fifo, write_index, rpm, asked, response, received>>

ReadPayloadEager ==
  /\ pc = "payload"
  /\ response' = CopyFrom(fifo, read_index, smd_hdr[1].pkt_size)
  /\ read_index' = Advance(read_index, smd_hdr[1].pkt_size)
  /\ received' = received + 1
  /\ pc' = "request"
  /\ UNCHANGED <<fifo, write_index, rpm, asked, smd_hdr>>

(* The second loop falls through and pkt_size is copied.                   *)
ReadPayload ==
  /\ pc = "payload"
  /\ Available(write_index, read_index) >= smd_hdr[1].pkt_size
  /\ response' = CopyFrom(fifo, read_index, smd_hdr[1].pkt_size)
  /\ read_index' = Advance(read_index, smd_hdr[1].pkt_size)
  /\ received' = received + 1
  /\ pc' = "request"
  /\ UNCHANGED <<fifo, write_index, rpm, asked, smd_hdr>>

(* The RPM (external) turns to the request it has not answered ...         *)
RpmAnswer ==
  /\ pc # "request" /\ asked /\ sent = received
  /\ sent' = sent + 1
  /\ \E len \in 1 .. MaxLen :
       /\ packet' = Payload(sent + 1, len)
       /\ left' = Header(sent + 1, len) \o Payload(sent + 1, len)
  /\ UNCHANGED <<fifo, write_index, read_index, apps>>

(* ... and publishes its packet piece by piece.                            *)
Piece ==
  IF Streaming
    THEN IF Len(left) < FifoWords - write_index THEN Len(left) ELSE FifoWords - write_index
    ELSE IF Len(left) > Len(packet) THEN HdrWords ELSE Len(left)

RpmPublish ==
  /\ left # <<>>
  /\ fifo' = CopyTo(fifo, write_index, SubSeq(left, 1, Piece))
  /\ write_index' = Advance(write_index, Piece)
  /\ left' = SubSeq(left, Piece + 1, Len(left))
  /\ UNCHANGED <<read_index, packet, sent, apps>>

Next == Call \/ ReadHeader \/ ReadPayload \/ RpmAnswer \/ RpmPublish

(* smd_read polls and the RPM answers; neither gives up.                   *)
Spec == Init /\ [][Next]_vars
FairSpec == Spec /\ WF_vars(ReadHeader) /\ WF_vars(ReadPayload) /\ WF_vars(RpmAnswer) /\ WF_vars(RpmPublish)

-----------------------------------------------------------------------------
(* The header copied out is that of the packet on its way, so pkt_size is  *)
(* its length.                                                             *)
HeaderIntact == pc = "payload" => sent = received + 1 /\ smd_hdr = Header(sent, Len(packet))

(* Every call for the answer to a request that was taken returns, wherever *)
(* header and payload wrap.  After a refused one smd_read spins for ever   *)
(* (RefusalReachesAssert of SmdChannel).                                   *)
CallReturns == (pc = "header" /\ asked) ~> (pc = "request")

Pipe == INSTANCE PacketPipe WITH
  Packets <- {Payload(n, len) : n \in 1 .. MaxPackets, len \in 1 .. MaxLen},
  pipe    <- IF sent > received THEN <<packet>> ELSE <<>>,
  taken   <- response

(* The FIFO and smd_read implement the pipe of whole packets.              *)
ImplementsPipe == Pipe!Spec
=============================================================================

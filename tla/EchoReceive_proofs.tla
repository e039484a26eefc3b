------------------------- MODULE EchoReceive_proofs -------------------------
(***************************************************************************)
(* Theorems about EchoReceive, for every block length, header length, set  *)
(* of announced lengths (any integers) and number of packets.              *)
(*                                                                         *)
(* The argument: the counters of the state machine (offset, nob_left, the  *)
(* blocks collected so far) always say how many bytes of the current       *)
(* packet have been received (FrameSync); so the memory of its blocks      *)
(* holds that packet's bytes at known places (HeapHolds), the header read  *)
(* is its header, and the bytes assembled are its bytes.                   *)
(***************************************************************************)
EXTENDS EchoReceive, TLAPS

\* The packet being received.
Cur == Len(delivered) + 1

\* The number of its first byte, sent or not.
NextFirst == IF Cur <= Len(sent) THEN sent[Cur].first ELSE written + 1

\* The peer's packets lie end to end on the stream.
SentInv ==
    /\ \A k \in 1 .. Len(sent) :
         /\ sent[k].first >= 1 /\ sent[k].first <= written
         /\ sent[k].first + Extent(sent[k].len) =
               IF k + 1 <= Len(sent) THEN sent[k + 1].first ELSE written + 1
    /\ \A j, k \in 1 .. Len(sent) : j < k => sent[j].first < sent[k].first
    /\ sent = <<>> => written = 0
    /\ sent # <<>> => sent[1].first = 1

\* The blocks are distinct, and hold the bytes the counters say they hold.
HeapHolds ==
    /\ block \in Blocks
    /\ \A i \in 1 .. Len(packet.blocks) : packet.blocks[i] # block
    /\ \A i, j \in 1 .. Len(packet.blocks) :
         packet.blocks[i] = packet.blocks[j] => i = j
    /\ Len(packet.blocks) = 1 => packet.length = BlockLen - packet.head
    /\ Len(packet.blocks) > 1 => packet.tail = BlockLen
    /\ \A o \in Cells :
         prev_packet_offset <= o /\ o < offset =>
            mem[block][o] = rcvd + 1 + o - offset
    /\ \A j \in 1 .. Len(packet.blocks) : \A o \in Cells :
         (j = 1 => packet.head <= o) =>
            mem[packet.blocks[j]][o] =
               (NextFirst - packet.head) + ((j - 1) * BlockLen + o)

\* The part of TypeOK and FrameSync that Advance establishes.
ConnTypes ==
    /\ mem \in [Blocks -> [Cells -> Nat]]
    /\ refcount \in [Blocks -> Nat]
    /\ block \in Blocks
    /\ offset \in Cells /\ prev_packet_offset \in Cells
    /\ packet \in [blocks : Seq(Blocks), head : Cells, length : Nat, tail : Nat]

PieceSync ==
    /\ prev_packet_offset <= offset
    /\ packet.blocks = <<>> =>
         rcvd + 1 = NextFirst + (offset - prev_packet_offset)
    /\ packet.blocks # <<>> =>
         /\ prev_packet_offset = 0
         /\ rcvd + 1 = (NextFirst - packet.head)
                       + (Len(packet.blocks) * BlockLen + offset)

\* What is left of a packet's body: something, nothing or less, as its length
\* is greater than its header's, equal to it or smaller.
LeftOver ==
    /\ nob_wanted > HeaderLen => 1 <= nob_left
    /\ nob_wanted = HeaderLen => nob_left = 0
    /\ nob_wanted < HeaderLen => nob_left < 0

\* The counters agree with the position in the stream.
FrameSync ==
    /\ Len(delivered) <= Len(sent)
    /\ rcvd <= written
    /\ PieceSync
    /\ rx_state = "NEW" =>
         /\ packet.blocks = <<>>
         /\ 1 <= nob_left /\ rx_size = nob_left
         /\ offset - prev_packet_offset = HeaderLen - nob_left
         /\ prev_packet_offset + HeaderLen <= BlockLen
    /\ rx_state = "READ_HEADER" =>
         /\ Cur <= Len(sent)
         /\ nob_wanted = sent[Cur].len
         /\ LeftOver
         /\ rcvd + 1 + nob_left = NextFirst + nob_wanted
         /\ rx_size = RxSize("READ_HEADER", nob_left, offset)

Open == FrameSync /\ HeapHolds

\* recv() writes past a block for one reason only.
OnlyMalformed == overrun => Malformed /\ nob_wanted < HeaderLen

IInv ==
    /\ TypeOK
    /\ SentInv
    /\ RefcountExact
    /\ OnlyMalformed
    /\ ~closed => Open
-----------------------------------------------------------------------------
(* Arithmetic of blocks *)

\* The length of a sequence, whatever it is a sequence of.
LEMMA LenNat == ASSUME NEW S, NEW s \in Seq(S) PROVE Len(s) \in Nat
  OBVIOUS

\* Its elements.
LEMMA SeqElement ==
    ASSUME NEW S, NEW s \in Seq(S), NEW k \in 1 .. Len(s) PROVE s[k] \in S
  OBVIOUS

\* One more element.
LEMMA Appended ==
    ASSUME NEW S, NEW s \in Seq(S), NEW x \in S
    PROVE  /\ Append(s, x) \in Seq(S) /\ Len(Append(s, x)) = Len(s) + 1
           /\ Append(s, x) # <<>> /\ Append(s, x)[Len(s) + 1] = x
           /\ \A k \in 1 .. Len(s) : Append(s, x)[k] = s[k]
  OBVIOUS

\* Where byte x of the blocks laid end to end is found.
LEMMA DivMod ==
    ASSUME NEW L \in Nat, 0 < L, NEW x \in Nat
    PROVE  /\ x \div L \in Nat /\ x % L \in 0 .. L - 1
           /\ x = (x \div L) * L + (x % L)
  OBVIOUS

\* A cell of the blocks laid end to end lies in one of the first k of them.
LEMMA DivBound ==
    ASSUME NEW L \in Nat, 0 < L, NEW q \in Nat, NEW r \in 0 .. L - 1,
           NEW k \in Nat, q * L + r < k * L
    PROVE  q < k
  <1>1. SUFFICES ASSUME q >= k PROVE FALSE
    OBVIOUS
  <1>2. PICK d \in Nat : q = k + d
    BY <1>1, q - k \in Nat, q = k + (q - k)
  <1>3. q * L = k * L + d * L /\ d * L \in Nat /\ k * L \in Nat
    BY <1>2
  <1>. QED BY <1>3

\* The blocks of p hold the bytes G, G + 1, ..., counted from the start of the
\* first block, as far as N bytes from p.head.
BlocksHold(m, p, G, N) ==
    \A j \in 1 .. Len(p.blocks) : \A o \in Cells :
       /\ j = 1 => p.head <= o
       /\ (j - 1) * BlockLen + o < p.head + N
       => m[p.blocks[j]][o] = G + ((j - 1) * BlockLen + o)

\* If every block of a packet holds the bytes that follow one another, numbered
\* G, G + 1, ... from the start of the first block, so does the packet assembled.
LEMMA AssembledBytes ==
    ASSUME FramingAssumption,
           NEW m, NEW p, NEW G \in Int, NEW N \in Nat,
           p.blocks \in Seq(Blocks), p.blocks # <<>>,
           p.head \in Cells, N = PacketLen(p),
           p.head + N <= Len(p.blocks) * BlockLen,
           BlocksHold(m, p, G, N)
    PROVE  Assembled(m, p) = [i \in 1 .. N |-> G + (p.head + i - 1)]
  <1>1. SUFFICES ASSUME NEW i \in 1 .. N
                 PROVE  m[p.blocks[(p.head + i - 1) \div BlockLen + 1]]
                         [(p.head + i - 1) % BlockLen] = G + (p.head + i - 1)
    BY DEF Assembled
  <1> DEFINE x == p.head + i - 1
             q == x \div BlockLen
             r == x % BlockLen
  <1>2. x \in Nat /\ BlockLen \in Nat /\ 0 < BlockLen /\ p.head \in Nat
    BY DEF FramingAssumption, Cells
  <1>3. q \in Nat /\ r \in 0 .. BlockLen - 1 /\ x = q * BlockLen + r
    BY <1>2, DivMod
  <1>4. x < p.head + N /\ x < Len(p.blocks) * BlockLen
    <2>1. Len(p.blocks) \in Nat /\ Len(p.blocks) * BlockLen \in Nat
      BY <1>2
    <2>. QED BY <2>1, <1>2
  <1> HIDE DEF q, r
  <1>5. q < Len(p.blocks)
    <2>1. Len(p.blocks) \in Nat
      OBVIOUS
    <2>2. q * BlockLen + r < Len(p.blocks) * BlockLen
      BY <1>3, <1>4
    <2>. QED BY <1>2, <1>3, <2>1, <2>2, DivBound
  <1>6. q + 1 \in 1 .. Len(p.blocks) /\ r \in Cells /\ (q + 1) - 1 = q
    BY <1>3, <1>5 DEF Cells
  <1>7. q + 1 = 1 => p.head <= r
    <2>1. SUFFICES ASSUME q = 0 PROVE p.head <= r
      BY <1>3
    <2>2. x = r
      BY <1>2, <1>3, <2>1
    <2>. QED BY <1>2, <2>2
  <1>8. m[p.blocks[q + 1]][r] = G + (q * BlockLen + r)
    <2>1. ((q + 1) - 1) * BlockLen + r < p.head + N
      BY <1>3, <1>4, <1>6
    <2>. QED BY <1>6, <1>7, <2>1 DEF BlocksHold
  <1>. QED BY <1>3, <1>8 DEF q, r
-----------------------------------------------------------------------------
(* Receiving into the block *)

\* What the next recv() asks for, by what is left.
LEMMA RxSizeInt ==
    ASSUME NEW left \in Int, NEW off \in Cells
    PROVE  LET size == RxSize("READ_HEADER", left, off)
           IN  /\ size \in Int /\ size <= left
               /\ 1 <= left => 1 <= size /\ off + size <= BlockLen
               /\ left <= 0 => size = left
  <1>1. BlockLen \in Nat
    BY FramingAssumption DEF FramingAssumption
  <1>2. off \in 0 .. BlockLen - 1
    BY DEF Cells
  <1>. QED BY <1>1, <1>2 DEF RxSize

\* The next recv() has room, in an allocated block (RecvWindow), in every
\* state of the invariant.
LEMMA Window ==
    ASSUME IInv PROVE RecvWindow
  <1>1. SUFFICES ASSUME ~closed
                 PROVE  /\ block \in Blocks /\ refcount[block] > 0
                        /\ rx_state = "NEW" => prev_packet_offset + HeaderLen <= BlockLen
                        /\ IF Malformed
                           THEN IF nob_wanted = HeaderLen THEN rx_size = 0 ELSE rx_size < 0
                           ELSE 1 <= rx_size /\ offset + rx_size <= BlockLen
    BY DEF RecvWindow, IInv, OnlyMalformed
  <1>2. block \in Blocks /\ refcount[block] > 0
    BY <1>1 DEF IInv, Open, HeapHolds, RefcountExact, Holds, TypeOK
  <1>3. BlockLen \in Nat /\ HeaderLen \in Nat /\ offset \in 0 .. BlockLen - 1
        /\ prev_packet_offset \in 0 .. BlockLen - 1 /\ nob_left \in Int
        /\ nob_wanted \in Int /\ offset \in Cells
    BY FramingAssumption DEF FramingAssumption, IInv, TypeOK, Cells
  <1>4. FrameSync /\ rx_state \in {"NEW", "READ_HEADER"}
    BY <1>1 DEF IInv, Open, TypeOK
  <1>5. CASE rx_state = "NEW"
    BY <1>2, <1>3, <1>4, <1>5 DEF FrameSync, Malformed
  <1>6. CASE rx_state = "READ_HEADER"
    <2>1. LeftOver /\ rx_size = RxSize("READ_HEADER", nob_left, offset)
      BY <1>4, <1>6 DEF FrameSync
    <2>2. /\ 1 <= nob_left => 1 <= rx_size /\ offset + rx_size <= BlockLen
          /\ nob_left <= 0 => rx_size = nob_left
      BY <1>3, <2>1, RxSizeInt
    <2>. QED BY ONLY <1>2, <1>3, <1>6, <2>1, <2>2 DEF LeftOver, Malformed
  <1>. QED BY <1>4, <1>5, <1>6

\* recv() writes its bytes where they belong, and no other block.
LEMMA FilledCells ==
    ASSUME IInv, ~closed, NEW n \in Nat, offset + n <= BlockLen
    PROVE  /\ Filled(n) \in [Blocks -> [Cells -> Nat]]
           /\ \A b \in Blocks : b # block => Filled(n)[b] = mem[b]
           /\ \A o \in Cells :
                prev_packet_offset <= o /\ o < offset + n =>
                   Filled(n)[block][o] = rcvd + 1 + o - offset
  <1> USE FramingAssumption DEF FramingAssumption
  <1>1. /\ mem \in [Blocks -> [Cells -> Nat]] /\ block \in Blocks
        /\ rcvd \in Nat /\ offset \in Cells /\ prev_packet_offset \in Cells
    BY DEF IInv, TypeOK, Open, HeapHolds
  <1>2. \A o \in Cells : o \in Int
    BY DEF Cells
  <1>3. \A o \in Cells : offset <= o => rcvd + 1 + (o - offset) \in Nat
    BY <1>1, <1>2
  <1>4. /\ Filled(n) \in [Blocks -> [Cells -> Nat]]
        /\ \A b \in Blocks : b # block => Filled(n)[b] = mem[b]
    BY <1>1, <1>3 DEF Filled
  <1>5. ASSUME NEW o \in Cells, prev_packet_offset <= o, o < offset + n
        PROVE  Filled(n)[block][o] = rcvd + 1 + o - offset
    <2>1. CASE offset <= o
      BY <1>1, <1>2, <1>5, <2>1 DEF Filled
    <2>2. CASE o < offset
      <3>1. mem[block][o] = rcvd + 1 + o - offset
        BY <1>5, <2>2 DEF IInv, Open, HeapHolds
      <3>. QED BY <1>1, <1>2, <2>2, <3>1 DEF Filled
    <2>. QED BY <1>1, <1>2, <2>1, <2>2
  <1>. QED BY <1>4, <1>5

\* The types of the variables, field by field.
LEMMA Basics ==
    ASSUME IInv
    PROVE  /\ BlockLen \in Nat /\ HeaderLen \in Nat
           /\ 0 < HeaderLen /\ HeaderLen <= BlockLen /\ 0 < BlockLen
           /\ Len(sent) \in Nat
           /\ \A k \in 1 .. Len(sent) :
                /\ sent[k].first \in Nat /\ sent[k].len \in Int
                /\ sent[k].len \in Sizes
           /\ written \in Nat /\ rcvd \in Nat
           /\ Len(delivered) \in Nat /\ NextFirst \in Nat
           /\ offset \in 0 .. BlockLen - 1 /\ prev_packet_offset \in 0 .. BlockLen - 1
           /\ packet.blocks \in Seq(Blocks) /\ Len(packet.blocks) \in Nat
           /\ \A j \in 1 .. Len(packet.blocks) : packet.blocks[j] \in Blocks
           /\ packet.head \in 0 .. BlockLen - 1
           /\ packet.head \in Nat /\ offset \in Nat /\ prev_packet_offset \in Nat
           /\ packet.length \in Nat /\ packet.tail \in Nat
           /\ packet = [blocks |-> packet.blocks, head |-> packet.head,
                        length |-> packet.length, tail |-> packet.tail]
           /\ nob_wanted \in Int /\ nob_left \in Int /\ rx_size \in Int
           /\ rx_state \in {"NEW", "READ_HEADER"}
           /\ refcount \in [Blocks -> Nat] /\ mem \in [Blocks -> [Cells -> Nat]]
  <1>1. /\ BlockLen \in Nat /\ HeaderLen \in Nat
        /\ 0 < HeaderLen /\ HeaderLen <= BlockLen /\ 0 < BlockLen
    BY FramingAssumption DEF FramingAssumption
  <1>2. TypeOK
    BY DEF IInv
  <1>3. /\ written \in Nat /\ rcvd \in Nat
        /\ offset \in 0 .. BlockLen - 1 /\ prev_packet_offset \in 0 .. BlockLen - 1
        /\ nob_wanted \in Int /\ nob_left \in Int /\ rx_size \in Int
        /\ rx_state \in {"NEW", "READ_HEADER"}
        /\ refcount \in [Blocks -> Nat] /\ mem \in [Blocks -> [Cells -> Nat]]
    BY <1>2 DEF TypeOK, Cells
  <1>4. sent \in Seq([first : Nat, len : Sizes])
    BY <1>2 DEF TypeOK
  <1>5. Len(sent) \in Nat
    BY <1>4
  <1>6. ASSUME NEW k \in 1 .. Len(sent)
        PROVE  /\ sent[k].first \in Nat /\ sent[k].len \in Int
               /\ sent[k].len \in Sizes
    <2>1. sent[k] \in [first : Nat, len : Sizes]
      BY <1>4, SeqElement
    <2>2. sent[k].first \in Nat /\ sent[k].len \in Sizes
      BY <2>1
    <2>. QED BY <2>2, FramingAssumption DEF FramingAssumption
  <1>7. delivered \in Seq(Seq(Nat))
    BY <1>2 DEF TypeOK
  <1>8. Len(delivered) \in Nat
    BY <1>7, LenNat
  <1>9. NextFirst \in Nat
    <2>1. Len(delivered) + 1 <= Len(sent) => Len(delivered) + 1 \in 1 .. Len(sent)
      BY <1>5, <1>8
    <2>. QED BY <2>1, <1>3, <1>6 DEF NextFirst, Cur
  <1>10. packet \in [blocks : Seq(Blocks), head : Cells, length : Nat, tail : Nat]
    BY <1>2 DEF TypeOK
  <1>11. /\ packet.blocks \in Seq(Blocks) /\ packet.head \in Cells
         /\ packet.length \in Nat /\ packet.tail \in Nat
         /\ packet = [blocks |-> packet.blocks, head |-> packet.head,
                      length |-> packet.length, tail |-> packet.tail]
    BY <1>10
  <1>12. /\ Len(packet.blocks) \in Nat
         /\ \A j \in 1 .. Len(packet.blocks) : packet.blocks[j] \in Blocks
    BY <1>11
  <1>13. packet.head \in 0 .. BlockLen - 1
    BY <1>11 DEF Cells
  <1>14. packet.head \in Nat /\ offset \in Nat /\ prev_packet_offset \in Nat
    BY ONLY <1>3, <1>13
  <1>. QED BY <1>1, <1>3, <1>5, <1>6, <1>8, <1>9, <1>11, <1>12, <1>13, <1>14

\* What a recv() into the open connection may do.
LEMMA Received ==
    ASSUME IInv, NEW n \in 1 .. written - rcvd, Receive(n)
    PROVE  /\ ~closed /\ closed' = closed /\ ~overrun /\ overrun' = overrun
           /\ n \in Nat /\ 1 <= n /\ (rx_size < 0 \/ n <= rx_size)
           /\ block \in Blocks /\ refcount[block] > 0
           /\ offset + n \in Nat /\ offset + n <= BlockLen
           /\ rcvd' = rcvd + n /\ rcvd' <= written
           /\ sent' = sent /\ written' = written
           /\ FrameSync /\ HeapHolds
           /\ RefcountExact
  <1>1. /\ ~closed /\ closed' = closed /\ ~overrun /\ overrun' = overrun
        /\ rcvd' = rcvd + n /\ (rx_size < 0 \/ n <= rx_size)
        /\ offset + n <= BlockLen
        /\ sent' = sent /\ written' = written /\ n <= written - rcvd
    BY DEF Receive, Returns, Running, peer
  <1>2. FrameSync /\ HeapHolds /\ RefcountExact
    BY <1>1 DEF IInv, Open
  <1>3. /\ rcvd \in Nat /\ written \in Nat /\ offset \in 0 .. BlockLen - 1
        /\ BlockLen \in Nat
    BY Basics
  <1>4. n \in Nat /\ 1 <= n
    BY ONLY <1>3, n \in 1 .. written - rcvd
  <1>5. block \in Blocks /\ refcount[block] > 0
    BY <1>1, Window DEF RecvWindow
  <1>. QED BY <1>1, <1>2, <1>3, <1>4, <1>5

\* A step that keeps the block preserves the memory part of the invariant.
LEMMA AdvanceKeep ==
    ASSUME IInv, NEW n \in 1 .. written - rcvd, Receive(n), offset + n # BlockLen,
           KeepBlock(offset + n, Filled(n), refcount),
           UNCHANGED <<prev_packet_offset, packet, delivered>>
    PROVE  /\ ConnTypes' /\ RefcountExact' /\ PieceSync' /\ HeapHolds'
           /\ NextFirst' = NextFirst
  <1>1. /\ rcvd' = rcvd + n /\ sent' = sent /\ written' = written
        /\ offset' = offset + n /\ mem' = Filled(n) /\ refcount' = refcount
        /\ block' = block /\ prev_packet_offset' = prev_packet_offset
        /\ packet' = packet /\ delivered' = delivered
    BY DEF Receive, KeepBlock, peer
  <1>2. /\ ~closed /\ n \in Nat /\ 1 <= n /\ block \in Blocks
        /\ offset + n <= BlockLen /\ FrameSync /\ HeapHolds
    BY Received
  <1>3. /\ BlockLen \in Nat /\ rcvd \in Nat /\ NextFirst \in Nat
        /\ offset \in 0 .. BlockLen - 1 /\ prev_packet_offset \in 0 .. BlockLen - 1
        /\ Len(packet.blocks) \in Nat /\ packet.head \in 0 .. BlockLen - 1
        /\ \A j \in 1 .. Len(packet.blocks) : packet.blocks[j] \in Blocks
    BY Basics
  <1>4. NextFirst' = NextFirst
    BY <1>1 DEF NextFirst, Cur
  <1>5. ConnTypes'
    <2>1. offset' \in Cells
      BY <1>1, <1>2, <1>3 DEF Cells
    <2>2. mem' \in [Blocks -> [Cells -> Nat]]
      BY <1>1, <1>2, FilledCells
    <2>3. /\ prev_packet_offset \in Cells /\ refcount \in [Blocks -> Nat]
          /\ packet \in [blocks : Seq(Blocks), head : Cells, length : Nat, tail : Nat]
      BY DEF IInv, TypeOK
    <2>. QED BY ONLY <1>1, <1>2, <2>1, <2>2, <2>3 DEF ConnTypes, Cells
  <1>6. RefcountExact'
    BY <1>1 DEF IInv, RefcountExact, Holds
  <1>7. PieceSync'
    <2> DEFINE q == Len(packet.blocks) * BlockLen
               h == packet.head
    <2>1. /\ prev_packet_offset <= offset
          /\ packet.blocks = <<>> =>
               rcvd + 1 = NextFirst + (offset - prev_packet_offset)
          /\ packet.blocks # <<>> =>
               prev_packet_offset = 0 /\ rcvd + 1 = (NextFirst - h) + (q + offset)
      BY <1>2 DEF FrameSync, PieceSync
    <2>2. /\ q \in Int /\ h \in Int /\ n \in Int /\ rcvd \in Int
          /\ NextFirst \in Int /\ offset \in Int /\ prev_packet_offset \in Int
      BY <1>2, <1>3, Basics
    <2> HIDE DEF q, h
    <2>3. /\ prev_packet_offset <= offset + n
          /\ packet.blocks = <<>> =>
               rcvd + n + 1 = NextFirst + ((offset + n) - prev_packet_offset)
          /\ packet.blocks # <<>> =>
               /\ prev_packet_offset = 0
               /\ rcvd + n + 1 = (NextFirst - h) + (q + (offset + n))
      BY ONLY <1>2, <2>1, <2>2
    <2>. QED BY ONLY <1>1, <1>4, <2>3 DEF PieceSync, q, h
  <1>8. HeapHolds'
    <2>2. \A o \in Cells : prev_packet_offset <= o /\ o < offset' =>
             mem'[block][o] = rcvd' + 1 + o - offset'
      <3>1. SUFFICES ASSUME NEW o \in Cells, prev_packet_offset <= o, o < offset + n
                     PROVE  Filled(n)[block][o] = rcvd' + 1 + o - offset'
        BY <1>1
      <3>2. Filled(n)[block][o] = rcvd + 1 + o - offset
        BY <1>2, <3>1, FilledCells
      <3>. QED BY <1>1, <1>2, <1>3, <3>2 DEF Cells
    <2>3. ASSUME NEW j \in 1 .. Len(packet.blocks)
          PROVE  mem'[packet.blocks[j]] = mem[packet.blocks[j]]
      <3>1. packet.blocks[j] \in Blocks /\ packet.blocks[j] # block
        BY <1>2, <1>3 DEF HeapHolds
      <3>. QED BY <1>1, <1>2, <3>1, FilledCells
    <2>4. \A j \in 1 .. Len(packet.blocks) : \A o \in Cells :
            (j = 1 => packet.head <= o) =>
              mem'[packet.blocks[j]][o] =
                 (NextFirst' - packet.head) + ((j - 1) * BlockLen + o)
      BY <1>2, <1>4, <2>3 DEF HeapHolds
    <2>. QED BY ONLY <1>1, <1>2, <2>2, <2>4 DEF HeapHolds
  <1>. QED BY <1>4, <1>5, <1>6, <1>7, <1>8

\* A step that fills the block: it joins the packet, and the next one is new.
LEMMA AdvanceNext ==
    ASSUME IInv, NEW n \in 1 .. written - rcvd, Receive(n), offset + n = BlockLen,
           packet' = block_add_tail(packet, block, prev_packet_offset,
                                    BlockLen - prev_packet_offset),
           NextBlock(Filled(n), DecRef(AddRef(refcount, block), block)),
           UNCHANGED delivered
    PROVE  /\ ConnTypes' /\ RefcountExact' /\ PieceSync' /\ HeapHolds'
           /\ NextFirst' = NextFirst /\ packet'.blocks # <<>> /\ offset' = 0
  <1> DEFINE L == Len(packet.blocks)
             h == packet'.head
             G == NextFirst
  <1>1. /\ ~closed /\ n \in Nat /\ 1 <= n /\ block \in Blocks
        /\ rcvd' = rcvd + n /\ sent' = sent /\ written' = written
        /\ FrameSync /\ HeapHolds /\ RefcountExact
    BY Received
  <1>2. /\ BlockLen \in Nat /\ 0 < BlockLen /\ rcvd \in Nat /\ NextFirst \in Nat
        /\ offset \in Nat /\ prev_packet_offset \in Nat
        /\ offset \in 0 .. BlockLen - 1 /\ prev_packet_offset \in 0 .. BlockLen - 1
        /\ L \in Nat /\ packet.blocks \in Seq(Blocks)
        /\ \A j \in 1 .. L : packet.blocks[j] \in Blocks
        /\ packet.head \in 0 .. BlockLen - 1 /\ packet.head \in Nat
        /\ packet.length \in Nat /\ packet.tail \in Nat
        /\ refcount \in [Blocks -> Nat]
    BY Basics
  <1>2a. /\ BlockLen \in Nat /\ 0 < BlockLen /\ rcvd \in Nat /\ G \in Nat /\ n \in Nat
         /\ offset \in Nat /\ prev_packet_offset \in Nat /\ L \in Nat
    BY <1>1, <1>2
  <1>3. DecRef(AddRef(refcount, block), block) = refcount
    BY <1>1, <1>2 DEF DecRef, AddRef
  <1>4. PICK b \in Blocks :
          /\ refcount[b] = 0 /\ block' = b /\ offset' = 0 /\ prev_packet_offset' = 0
          /\ mem' = [Filled(n) EXCEPT ![b] = [o \in Cells |-> 0]]
          /\ refcount' = AddRef(refcount, b)
    BY <1>3 DEF NextBlock
  <1>5. b # block /\ \A j \in 1 .. L : packet.blocks[j] # b
    <2>1. refcount[block] = 1 + Holds(packet, block)
          /\ refcount[b] = (IF b = block THEN 1 ELSE 0) + Holds(packet, b)
      BY <1>1 DEF RefcountExact
    <2>2. Holds(packet, block) \in Nat /\ Holds(packet, b) \in Nat
      BY DEF Holds
    <2>3. Holds(packet, b) = 0 /\ b # block
      BY <1>4, <2>1, <2>2
    <2>. QED BY <1>2, <2>3 DEF Holds
  <1>6. NextFirst' = NextFirst
    BY <1>1 DEF NextFirst, Cur
  <1>7. /\ packet'.blocks = Append(packet.blocks, block)
        /\ L = 0 => /\ packet'.head = prev_packet_offset
                    /\ packet'.length = BlockLen - packet'.head
                    /\ packet'.tail = 0
        /\ L > 0 => /\ packet'.head = packet.head
                    /\ packet'.length = packet.length
                    /\ packet'.tail = BlockLen
        /\ packet' = [blocks |-> packet'.blocks, head |-> packet'.head,
                      length |-> packet'.length, tail |-> packet'.tail]
    <2>1. L = 0 <=> packet.blocks = <<>>
      BY <1>2
    <2>2. CASE packet.blocks = <<>>
      <3>1. packet' = [blocks |-> <<block>>, head |-> prev_packet_offset,
                       length |-> BlockLen - prev_packet_offset, tail |-> 0]
        BY <2>2 DEF block_add_tail
      <3>. QED BY <2>1, <2>2, <3>1
    <2>3. CASE packet.blocks # <<>>
      <3>1. packet' = [packet EXCEPT !.blocks = Append(@, block),
                                     !.tail = prev_packet_offset + (BlockLen - prev_packet_offset)]
        BY <2>3 DEF block_add_tail
      <3>2. packet' = [packet EXCEPT !.blocks = Append(@, block), !.tail = BlockLen]
        <4>1. prev_packet_offset + (BlockLen - prev_packet_offset) = BlockLen
          BY ONLY <1>2a
        <4>. QED BY ONLY <3>1, <4>1
      <3>3. packet = [blocks |-> packet.blocks, head |-> packet.head,
                      length |-> packet.length, tail |-> packet.tail]
        BY Basics
      <3>4. packet' = [blocks |-> Append(packet.blocks, block), head |-> packet.head,
                       length |-> packet.length, tail |-> BlockLen]
        BY ONLY <3>2, <3>3
      <3>. QED BY <1>2, <2>1, <2>3, <3>4
    <2>. QED BY <2>2, <2>3
  <1>8. /\ packet'.blocks \in Seq(Blocks) /\ Len(packet'.blocks) = L + 1
        /\ packet'.blocks[L + 1] = block
        /\ \A j \in 1 .. L : packet'.blocks[j] = packet.blocks[j]
        /\ packet'.blocks # <<>>
    <2>1. packet.blocks \in Seq(Blocks) /\ block \in Blocks
      BY <1>1, <1>2
    <2>2. packet'.blocks = Append(packet.blocks, block)
      BY ONLY <1>7
    <2>. QED BY ONLY <2>1, <2>2, Appended
  <1>9. packet'.head \in 0 .. BlockLen - 1 /\ packet'.head \in Nat
        /\ packet'.length \in Nat /\ packet'.tail \in Nat
    <2>1. L = 0 \/ L > 0
      BY ONLY <1>2a
    <2>2. prev_packet_offset \in 0 .. BlockLen - 1 /\ packet.head \in 0 .. BlockLen - 1
          /\ packet.length \in Nat
      BY <1>2
    <2>3. \A x \in 0 .. BlockLen - 1 : x \in Nat /\ BlockLen - x \in Nat
      BY ONLY <1>2a
    <2>4. 0 \in Nat /\ BlockLen \in Nat
      BY <1>2a
    <2>. QED BY ONLY <1>7, <2>1, <2>2, <2>3, <2>4
  <1>9a. /\ Filled(n) \in [Blocks -> [Cells -> Nat]]
         /\ \A x \in Blocks : x # block => Filled(n)[x] = mem[x]
         /\ \A o \in Cells :
              prev_packet_offset <= o /\ o < offset + n =>
                 Filled(n)[block][o] = rcvd + 1 + o - offset
    <2>1. offset + n <= BlockLen
      BY ONLY offset + n = BlockLen, <1>2a
    <2>. QED BY <1>1, <2>1, FilledCells
  <1>10. ConnTypes'
    <2>1. mem' \in [Blocks -> [Cells -> Nat]]
      <3>1. Filled(n) \in [Blocks -> [Cells -> Nat]]
        BY <1>1, <1>9a
      <3>. QED BY <1>4, <3>1
    <2>2. refcount' \in [Blocks -> Nat]
      BY <1>2, <1>4 DEF AddRef
    <2>3. 0 \in Cells /\ packet'.head \in Cells
      BY <1>2, <1>9 DEF Cells
    <2>4. packet' \in [blocks : Seq(Blocks), head : Cells, length : Nat, tail : Nat]
      BY ONLY <1>7, <1>8, <1>9, <2>3
    <2>. QED BY ONLY <1>4, <2>1, <2>2, <2>3, <2>4 DEF ConnTypes, Cells
  <1>11. RefcountExact'
    <2>1. SUFFICES ASSUME NEW x \in Blocks
                   PROVE  refcount'[x] = (IF x = b THEN 1 ELSE 0) + Holds(packet', x)
      BY <1>4 DEF RefcountExact
    <2>2. refcount[x] = (IF x = block THEN 1 ELSE 0) + Holds(packet, x)
      BY <1>1 DEF RefcountExact
    <2>3. Holds(packet', x) = (IF x = block THEN 1 ELSE 0) + Holds(packet, x)
      <3>1. \A i \in 1 .. L : packet.blocks[i] # block
        BY <1>1 DEF HeapHolds
      <3>2. DOMAIN packet.blocks = 1 .. L /\ DOMAIN packet'.blocks = 1 .. L + 1
        BY <1>2, <1>8
      <3>3. \A i \in 1 .. L + 1 : i \in 1 .. L \/ i = L + 1
        BY ONLY <1>2a
      <3>4. \A i \in 1 .. L : i \in 1 .. L + 1
        BY ONLY <1>2a
      <3>5. L + 1 \in 1 .. L + 1
        BY ONLY <1>2a
      <3>. QED BY ONLY <1>8, <3>1, <3>2, <3>3, <3>4, <3>5 DEF Holds
    <2>4. refcount'[x] = IF x = b THEN refcount[x] + 1 ELSE refcount[x]
      BY <1>4 DEF AddRef
    <2>5. Holds(packet, x) \in Nat
      BY DEF Holds
    <2>. QED BY <2>2, <2>3, <2>4, <2>5
  <1>12. /\ L = 0 => rcvd + 1 = G + (offset - prev_packet_offset)
         /\ L > 0 => /\ prev_packet_offset = 0
                     /\ rcvd + 1 = (G - packet.head) + (L * BlockLen + offset)
    BY <1>1, <1>2 DEF FrameSync, PieceSync
  <1>13. rcvd + 1 - offset = (G - h) + L * BlockLen
    <2>1. L = 0 => L * BlockLen = 0
      BY <1>2
    <2>0. L = 0 \/ L > 0
      BY ONLY <1>2a
    <2> DEFINE q == L * BlockLen
    <2>2. q \in Int
      BY <1>2
    <2>3. h \in Int
      BY <1>9
    <2> HIDE DEF q, L, G, h
    <2>4. CASE L = 0
      <3>1. h = prev_packet_offset /\ rcvd + 1 = G + (offset - prev_packet_offset)
        BY ONLY <1>7, <1>12, <2>4 DEF h
      <3>2. q = 0
        BY ONLY <2>1, <2>4 DEF q
      <3>. QED BY ONLY <1>2a, <2>2, <2>3, <3>1, <3>2 DEF q
    <2>5. CASE L > 0
      <3>1. rcvd + 1 = (G - h) + (q + offset)
        BY ONLY <1>7, <1>12, <2>5 DEF h, q
      <3>2. rcvd + 1 - offset = (G - h) + q
        BY ONLY <1>2a, <2>2, <2>3, <3>1
      <3>. QED BY ONLY <3>2 DEF q
    <2>. QED BY ONLY <2>0, <2>4, <2>5
  <1>14. PieceSync'
    <2>1. (L + 1) * BlockLen = L * BlockLen + BlockLen /\ L * BlockLen \in Int
      BY <1>2
    <2> DEFINE q == L * BlockLen
    <2>2. q \in Int /\ h \in Int /\ G \in Int
      BY <1>2, <1>9, <2>1
    <2>3. rcvd + 1 - offset = (G - h) + q
      BY <1>13
    <2> HIDE DEF q, h, G
    <2>4. rcvd + n + 1 = (G - h) + (q + BlockLen)
      BY <1>1, <1>2, <2>2, <2>3
    <2>5. rcvd' + 1 = (G - h) + (Len(packet'.blocks) * BlockLen + 0)
      <3>1. Len(packet'.blocks) * BlockLen = q + BlockLen
        BY ONLY <1>8, <2>1 DEF q
      <3>2. (q + BlockLen) + 0 = q + BlockLen
        BY ONLY <1>2a, <2>2
      <3>3. rcvd' + 1 = rcvd + n + 1
        BY <1>1
      <3>. QED BY ONLY <2>4, <3>1, <3>2, <3>3
    <2>. QED BY ONLY <1>2, <1>4, <1>6, <1>8, <2>5 DEF PieceSync, h, G
  <1>15. \A j \in 1 .. L + 1 : \A o \in Cells :
           (j = 1 => packet'.head <= o) =>
              mem'[packet'.blocks[j]][o] = (G - h) + ((j - 1) * BlockLen + o)
    <2>1. SUFFICES ASSUME NEW j \in 1 .. L + 1, NEW o \in Cells, j = 1 => packet'.head <= o
                   PROVE  mem'[packet'.blocks[j]][o] = (G - h) + ((j - 1) * BlockLen + o)
      OBVIOUS
    <2>2. CASE j = L + 1
      <3>1. mem'[packet'.blocks[j]] = Filled(n)[block]
        <4>1. Filled(n) \in [Blocks -> [Cells -> Nat]]
          BY <1>9a
        <4>. QED BY <1>1, <1>4, <1>5, <1>8, <2>2, <4>1
      <3>2. prev_packet_offset <= o /\ o < offset + n
        <4>1. o \in 0 .. BlockLen - 1 /\ offset + n = BlockLen
          BY DEF Cells
        <4>2. L = 0 => prev_packet_offset <= o
          <5>1. L = 0 => j = 1
            BY ONLY <1>2a, <2>2
          <5>. QED BY ONLY <1>7, <2>1, <5>1
        <4>3. L = 0 \/ (L > 0 /\ prev_packet_offset = 0)
          BY ONLY <1>2a, <1>12
        <4>. QED BY ONLY <1>2a, <4>1, <4>2, <4>3
      <3>3. Filled(n)[block][o] = rcvd + 1 + o - offset
        BY <1>9a, <3>2
      <3> DEFINE q == L * BlockLen
      <3>4. (j - 1) * BlockLen = q /\ q \in Int /\ o \in Int /\ h \in Int /\ G \in Int
        BY <1>2, <1>9, <2>2 DEF Cells
      <3>5. rcvd + 1 - offset = (G - h) + q
        BY <1>13
      <3> HIDE DEF q, h, G
      <3>6. rcvd + 1 + o - offset = (G - h) + (q + o)
        BY ONLY <1>2a, <3>4, <3>5
      <3>. QED BY <3>1, <3>3, <3>4, <3>6
    <2>3. CASE j # L + 1
      <3>1. j \in 1 .. L /\ L > 0
        <4>1. j \in 1 .. L + 1
          OBVIOUS
        <4>. QED BY ONLY <1>2a, <2>3, <4>1
      <3>2. packet'.blocks[j] = packet.blocks[j] /\ packet'.head = packet.head
        BY <1>7, <1>8, <3>1
      <3>3. packet.blocks[j] \in Blocks /\ packet.blocks[j] # block /\ packet.blocks[j] # b
        BY <1>1, <1>2, <1>5, <3>1 DEF HeapHolds
      <3>4. mem'[packet.blocks[j]] = mem[packet.blocks[j]]
        <4>1. Filled(n)[packet.blocks[j]] = mem[packet.blocks[j]]
          BY <1>9a, <3>3
        <4>. QED BY <1>4, <3>3, <4>1
      <3>5. mem[packet.blocks[j]][o] = (NextFirst - packet.head) + ((j - 1) * BlockLen + o)
        BY <1>1, <2>1, <3>1, <3>2 DEF HeapHolds
      <3>. QED BY <3>2, <3>4, <3>5
    <2>. QED BY <2>2, <2>3
  <1>16. HeapHolds'
    <2>0. \A i \in 1 .. L + 1 : i \in 1 .. L \/ i = L + 1
      BY ONLY <1>2a
    <2>1. \A i \in 1 .. L + 1 : packet'.blocks[i] # b
      BY ONLY <1>5, <1>8, <2>0
    <2>2. \A i, j \in 1 .. L + 1 : packet'.blocks[i] = packet'.blocks[j] => i = j
      <3>1. \A i, j \in 1 .. L : packet.blocks[i] = packet.blocks[j] => i = j
        BY <1>1 DEF HeapHolds
      <3>2. \A i \in 1 .. L : packet.blocks[i] # block
        BY <1>1 DEF HeapHolds
      <3>. QED BY ONLY <1>8, <2>0, <3>1, <3>2
    <2>3. /\ L + 1 = 1 => packet'.length = BlockLen - packet'.head
          /\ L + 1 > 1 => packet'.tail = BlockLen
      <3>1. (L + 1 = 1 <=> L = 0) /\ (L + 1 > 1 <=> L > 0)
        BY ONLY <1>2a
      <3>. QED BY ONLY <1>7, <3>1
    <2>4. \A o \in Cells : ~(0 <= o /\ o < 0)
      BY DEF Cells
    <2>5. \A j \in 1 .. Len(packet'.blocks) : \A o \in Cells :
            (j = 1 => packet'.head <= o) =>
               mem'[packet'.blocks[j]][o] =
                  (NextFirst' - packet'.head) + ((j - 1) * BlockLen + o)
      BY ONLY <1>6, <1>8, <1>15
    <2>. QED BY ONLY <1>4, <1>8, <2>1, <2>2, <2>3, <2>4, <2>5 DEF HeapHolds
  <1>. QED BY <1>4, <1>6, <1>8, <1>10, <1>11, <1>14, <1>16

\* Either way.
LEMMA AdvanceStep ==
    ASSUME IInv, NEW n \in 1 .. written - rcvd, Receive(n), Advance(n)
    PROVE  /\ ConnTypes' /\ RefcountExact' /\ PieceSync' /\ HeapHolds'
           /\ NextFirst' = NextFirst /\ delivered' = delivered
           /\ offset + n # BlockLen =>
                /\ offset' = offset + n /\ packet' = packet
                /\ prev_packet_offset' = prev_packet_offset
  <1>1. delivered' = delivered
    BY DEF Advance
  <1>2. CASE offset + n # BlockLen
    <2>1. /\ KeepBlock(offset + n, Filled(n), refcount)
          /\ UNCHANGED <<prev_packet_offset, packet, delivered>>
      BY <1>2 DEF Advance
    <2>2. offset' = offset + n
      BY <2>1 DEF KeepBlock
    <2>. QED BY <1>1, <1>2, <2>1, <2>2, AdvanceKeep
  <1>3. CASE offset + n = BlockLen
    <2>1. /\ packet' = block_add_tail(packet, block, prev_packet_offset,
                                      BlockLen - prev_packet_offset)
          /\ NextBlock(Filled(n), DecRef(AddRef(refcount, block), block))
          /\ UNCHANGED delivered
      BY <1>3 DEF Advance
    <2>. QED BY <1>1, <1>3, <2>1, AdvanceNext
  <1>. QED BY <1>2, <1>3
-----------------------------------------------------------------------------
(* The steps *)

\* The parts of the invariant put together after a recv().
LEMMA AfterReceive ==
    ASSUME IInv, NEW n \in 1 .. written - rcvd, Receive(n), PostRecv,
           ConnTypes', delivered' \in Seq(Seq(Nat)), RefcountExact',
           rx_state' \in {"NEW", "READ_HEADER"}, nob_wanted' \in Int, nob_left' \in Int,
           FrameSync', HeapHolds'
    PROVE  IInv'
  <1>1. /\ closed' = closed /\ sent' = sent /\ written' = written
        /\ rcvd' = rcvd + n /\ n \in Nat /\ overrun' = FALSE
    BY Received
  <1>2. rx_size' \in Int
    <2>1. offset' \in 0 .. BlockLen - 1 /\ BlockLen \in Nat
      BY FramingAssumption DEF ConnTypes, Cells, FramingAssumption
    <2>2. rx_size' = nob_left' \/ rx_size' = BlockLen - offset'
      BY DEF PostRecv, RxSize
    <2>. QED BY ONLY <2>1, <2>2, nob_left' \in Int
  <1>3. /\ sent \in Seq([first : Nat, len : Sizes]) /\ written \in Nat /\ rcvd \in Nat
        /\ closed \in BOOLEAN /\ SentInv
    BY DEF IInv, TypeOK
  <1>4. rcvd' \in Nat
    BY <1>1, <1>3
  <1>5. block' \in Blocks \cup {NoBlock}
    BY DEF ConnTypes
  <1>6. TypeOK'
    BY ONLY <1>1, <1>2, <1>3, <1>4, <1>5, ConnTypes', delivered' \in Seq(Seq(Nat)),
       rx_state' \in {"NEW", "READ_HEADER"}, nob_wanted' \in Int, nob_left' \in Int
       DEF TypeOK, ConnTypes, Cells
  <1>7. SentInv'
    BY ONLY <1>1, <1>3 DEF SentInv
  <1>8. OnlyMalformed'
    BY ONLY <1>1 DEF OnlyMalformed
  <1>. QED BY <1>6, <1>7, <1>8 DEF IInv, Open

\* What the counters say in each state of the receiver.
LEMMA HeaderSync ==
    ASSUME IInv, ~closed, rx_state = "NEW"
    PROVE  /\ packet.blocks = <<>> /\ 1 <= nob_left /\ rx_size = nob_left
           /\ offset - prev_packet_offset = HeaderLen - nob_left
           /\ prev_packet_offset + HeaderLen <= BlockLen
           /\ rcvd + 1 = NextFirst + (offset - prev_packet_offset)
           /\ rcvd <= written /\ Len(delivered) <= Len(sent)
  BY DEF IInv, Open, FrameSync, PieceSync

\* The same once the header has been read.
LEMMA BodySync ==
    ASSUME IInv, ~closed, rx_state = "READ_HEADER"
    PROVE  /\ Cur <= Len(sent) /\ nob_wanted = sent[Cur].len /\ LeftOver
           /\ rcvd + 1 + nob_left = NextFirst + nob_wanted
           /\ rx_size = RxSize("READ_HEADER", nob_left, offset) /\ rx_size <= nob_left
           /\ 1 <= nob_left => 1 <= rx_size
           /\ nob_left <= 0 => rx_size = nob_left
           /\ rcvd <= written /\ Len(delivered) <= Len(sent) /\ PieceSync
  <1>1. /\ Cur <= Len(sent) /\ nob_wanted = sent[Cur].len /\ LeftOver
        /\ rcvd + 1 + nob_left = NextFirst + nob_wanted
        /\ rx_size = RxSize("READ_HEADER", nob_left, offset)
        /\ rcvd <= written /\ Len(delivered) <= Len(sent) /\ PieceSync
    BY DEF IInv, Open, FrameSync
  <1>2. nob_left \in Int /\ offset \in Cells
    BY DEF IInv, TypeOK
  <1>. QED BY <1>1, <1>2, RxSizeInt

\* A header that is not complete leaves the rest of it to be asked for.
LEMMA HeaderPartStep ==
    ASSUME IInv, NEW n \in 1 .. written - rcvd, HeaderPart(n) PROVE IInv'
  <1>1. /\ Receive(n) /\ Advance(n) /\ PostRecv /\ rx_state = "NEW" /\ n # rx_size
        /\ nob_left' = rx_size - n /\ rx_state' = rx_state /\ nob_wanted' = nob_wanted
    BY DEF HeaderPart
  <1>2. /\ n \in Nat /\ 1 <= n /\ (rx_size < 0 \/ n <= rx_size) /\ ~closed
        /\ sent' = sent /\ written' = written /\ rcvd' = rcvd + n /\ rcvd' <= written
    BY <1>1, Received
  <1>3. /\ packet.blocks = <<>> /\ 1 <= nob_left /\ rx_size = nob_left
        /\ offset - prev_packet_offset = HeaderLen - nob_left
        /\ prev_packet_offset + HeaderLen <= BlockLen
        /\ Len(delivered) <= Len(sent)
    BY <1>1, <1>2, HeaderSync
  <1>4. /\ BlockLen \in Nat /\ HeaderLen \in Nat /\ offset \in Nat
        /\ prev_packet_offset \in Nat /\ nob_left \in Int /\ nob_wanted \in Int
    BY Basics
  <1>5. /\ offset + n # BlockLen /\ nob_left' \in Int /\ 1 <= nob_left'
        /\ (offset + n) - prev_packet_offset = HeaderLen - nob_left'
    BY ONLY <1>1, <1>2, <1>3, <1>4
  <1>6. /\ ConnTypes' /\ RefcountExact' /\ PieceSync' /\ HeapHolds'
        /\ delivered' = delivered /\ offset' = offset + n /\ packet' = packet
        /\ prev_packet_offset' = prev_packet_offset
    BY <1>1, <1>5, AdvanceStep
  <1>7. rx_size' = nob_left'
    BY <1>1 DEF PostRecv, RxSize
  <1>8. FrameSync'
    BY ONLY <1>1, <1>2, <1>3, <1>5, <1>6, <1>7 DEF FrameSync
  <1>9. delivered' \in Seq(Seq(Nat))
    BY <1>6 DEF IInv, TypeOK
  <1>. QED BY <1>1, <1>4, <1>5, <1>6, <1>8, <1>9, AfterReceive

\* So does a body.
LEMMA BodyPartStep ==
    ASSUME IInv, NEW n \in 1 .. written - rcvd, BodyPart(n) PROVE IInv'
  <1>1. /\ Receive(n) /\ Advance(n) /\ PostRecv /\ rx_state = "READ_HEADER" /\ n # nob_left
        /\ nob_left' = nob_left - n /\ rx_state' = rx_state /\ nob_wanted' = nob_wanted
    BY DEF BodyPart
  <1>2. /\ n \in Nat /\ 1 <= n /\ (rx_size < 0 \/ n <= rx_size) /\ ~closed
        /\ sent' = sent /\ written' = written /\ rcvd' = rcvd + n /\ rcvd' <= written
    BY <1>1, Received
  <1>3. /\ Cur <= Len(sent) /\ nob_wanted = sent[Cur].len /\ LeftOver
        /\ rcvd + 1 + nob_left = NextFirst + nob_wanted
        /\ rx_size <= nob_left /\ Len(delivered) <= Len(sent)
        /\ 1 <= nob_left => 1 <= rx_size
        /\ nob_left <= 0 => rx_size = nob_left
    BY <1>1, <1>2, BodySync
  <1>4. /\ rcvd \in Nat /\ NextFirst \in Nat /\ rx_size \in Int
        /\ nob_left \in Int /\ nob_wanted \in Int /\ HeaderLen \in Nat
    BY Basics
  <1>5. /\ nob_left' \in Int /\ LeftOver'
        /\ rcvd' + 1 + nob_left' = NextFirst + nob_wanted
    BY ONLY <1>1, <1>2, <1>3, <1>4 DEF LeftOver
  <1>6. /\ ConnTypes' /\ RefcountExact' /\ PieceSync' /\ HeapHolds'
        /\ delivered' = delivered /\ NextFirst' = NextFirst
    BY <1>1, AdvanceStep
  <1>7. rx_size' = RxSize("READ_HEADER", nob_left', offset')
    BY <1>1 DEF PostRecv
  <1>8. FrameSync'
    BY ONLY <1>1, <1>2, <1>3, <1>5, <1>6, <1>7 DEF FrameSync, Cur
  <1>9. delivered' \in Seq(Seq(Nat))
    BY <1>6 DEF IInv, TypeOK
  <1>. QED BY <1>1, <1>4, <1>5, <1>6, <1>8, <1>9, AfterReceive

\* The header that has just been completed is the current packet's: its bytes
\* were received where it is read, and packets start at different bytes.
LEMMA HeaderRead ==
    ASSUME IInv, NEW n \in 1 .. written - rcvd, Receive(n), rx_state = "NEW", n = rx_size
    PROVE  /\ Cur \in 1 .. Len(sent)
           /\ HeaderValues(Filled(n)[block], prev_packet_offset) = {sent[Cur].len}
  <1> DEFINE cells == Filled(n)[block]
             off == prev_packet_offset
  <1>1. /\ n \in Nat /\ 1 <= n /\ ~closed /\ rcvd + n <= written /\ offset + n <= BlockLen
    BY Received
  <1>2. /\ rx_size = nob_left /\ offset - off = HeaderLen - nob_left
        /\ off + HeaderLen <= BlockLen /\ rcvd + 1 = NextFirst + (offset - off)
        /\ PieceSync
    BY <1>1, HeaderSync DEF IInv, Open, FrameSync
  <1>3. /\ BlockLen \in Nat /\ HeaderLen \in Nat /\ 0 < HeaderLen /\ offset \in Nat
        /\ off \in Nat /\ rcvd \in Nat /\ written \in Nat /\ NextFirst \in Nat
        /\ Len(sent) \in Nat /\ Len(delivered) \in Nat
    BY Basics
  <1>4. off <= offset
    BY <1>2 DEF PieceSync
  <1>5. Cur \in 1 .. Len(sent) /\ NextFirst = sent[Cur].first
    <2>1. CASE Cur <= Len(sent)
      BY <1>3, <2>1 DEF Cur, NextFirst
    <2>2. CASE ~(Cur <= Len(sent))
      <3>1. NextFirst = written + 1
        BY <2>2 DEF NextFirst
      <3>. QED BY ONLY <1>1, <1>2, <1>3, <1>4, <3>1
    <2>. QED BY <2>1, <2>2
  <1>6. \A i \in 0 .. HeaderLen - 1 : cells[off + i] = sent[Cur].first + i
    <2>1. SUFFICES ASSUME NEW i \in 0 .. HeaderLen - 1
                   PROVE  cells[off + i] = NextFirst + i
      BY <1>5
    <2>2. i \in Nat /\ off + i \in 0 .. BlockLen - 1 /\ off <= off + i /\ off + i < offset + n
      BY ONLY <1>1, <1>2, <1>3, <1>4, n = rx_size, i \in 0 .. HeaderLen - 1
    <2>3. cells[off + i] = rcvd + 1 + (off + i) - offset
      BY <1>1, <2>2, FilledCells DEF Cells
    <2>. QED BY ONLY <1>2, <1>3, <2>2, <2>3
  <1>7. HeaderAt(cells, off, Cur)
    BY <1>2, <1>6 DEF HeaderAt
  <1>8. ASSUME NEW k \in DOMAIN sent, HeaderAt(cells, off, k) PROVE k = Cur
    <2>1. 0 \in 0 .. HeaderLen - 1
      BY ONLY <1>3
    <2>2. cells[off + 0] = sent[k].first + 0 /\ cells[off + 0] = sent[Cur].first + 0
      BY <1>6, <1>8, <2>1 DEF HeaderAt
    <2>3. k \in 1 .. Len(sent)
      BY DEF IInv, TypeOK
    <2>4. sent[k].first \in Nat /\ sent[Cur].first \in Nat
      BY <1>5, <2>3, Basics
    <2>5. sent[k].first = sent[Cur].first
      BY ONLY <2>2, <2>4
    <2>6. /\ k < Cur => sent[k].first < sent[Cur].first
          /\ Cur < k => sent[Cur].first < sent[k].first
      BY <1>5, <2>3 DEF IInv, SentInv
    <2>7. ~(k < Cur) /\ ~(Cur < k)
      BY ONLY <2>4, <2>5, <2>6
    <2>. QED BY <1>5, <2>3, <2>7
  <1>9. Cur \in DOMAIN sent
    BY <1>5 DEF IInv, TypeOK
  <1>10. {j \in DOMAIN sent : HeaderAt(cells, off, j)} = {Cur}
    BY ONLY <1>7, <1>8, <1>9
  <1>11. HeaderValues(cells, off) = {sent[k].len : k \in {Cur}}
    BY ONLY <1>7, <1>9, <1>10 DEF HeaderValues
  <1>. QED BY <1>5, <1>11

\* A complete header sets how much of the packet is left.
LEMMA HeaderDoneStep ==
    ASSUME IInv, NEW n \in 1 .. written - rcvd, HeaderDone(n) PROVE IInv'
  <1>1. /\ Receive(n) /\ Advance(n) /\ PostRecv /\ rx_state = "NEW" /\ n = rx_size
        /\ nob_wanted' \in HeaderValues(Filled(n)[block], prev_packet_offset)
        /\ nob_left' = nob_wanted' - HeaderLen /\ rx_state' = "READ_HEADER"
    BY DEF HeaderDone
  <1>2. /\ n \in Nat /\ ~closed
        /\ sent' = sent /\ written' = written /\ rcvd' = rcvd + n /\ rcvd' <= written
    BY <1>1, Received
  <1>3. /\ rx_size = nob_left /\ offset - prev_packet_offset = HeaderLen - nob_left
        /\ rcvd + 1 = NextFirst + (offset - prev_packet_offset) /\ Len(delivered) <= Len(sent)
    BY <1>1, <1>2, HeaderSync
  <1>4. /\ HeaderLen \in Nat /\ rcvd \in Nat /\ NextFirst \in Nat /\ nob_left \in Int
        /\ offset \in Nat /\ prev_packet_offset \in Nat /\ Len(sent) \in Nat
    BY Basics
  <1>5. Cur \in 1 .. Len(sent) /\ nob_wanted' = sent[Cur].len
    BY <1>1, HeaderRead
  <1>6. nob_wanted' \in Int
    BY <1>5, Basics
  <1>7. /\ nob_left' \in Int /\ LeftOver'
        /\ rcvd' + 1 + nob_left' = NextFirst + nob_wanted'
    <2>1. /\ n = nob_left /\ nob_left' = nob_wanted' - HeaderLen /\ n \in Nat
          /\ rcvd' = rcvd + n
      BY <1>1, <1>2, <1>3
    <2>2. nob_left' \in Int /\ LeftOver'
      <3>1. \A w \in Int, h \in Nat :
               /\ w - h \in Int
               /\ (w > h => 1 <= w - h) /\ (w = h => w - h = 0) /\ (w < h => w - h < 0)
        OBVIOUS
      <3>. QED BY ONLY <1>4, <1>6, <2>1, <3>1 DEF LeftOver
    <2>3. rcvd + 1 + nob_left = NextFirst + HeaderLen
      BY ONLY <1>3, <1>4
    <2>4. rcvd + n + 1 + (nob_wanted' - HeaderLen) = NextFirst + nob_wanted'
      BY ONLY <1>4, <1>6, <2>1, <2>3
    <2>. QED BY ONLY <2>1, <2>2, <2>4
  <1>8. /\ ConnTypes' /\ RefcountExact' /\ PieceSync' /\ HeapHolds'
        /\ delivered' = delivered /\ NextFirst' = NextFirst
    BY <1>1, AdvanceStep
  <1>9. rx_size' = RxSize("READ_HEADER", nob_left', offset')
    BY <1>1 DEF PostRecv
  <1>10. Cur <= Len(sent)
    BY <1>4, <1>5
  <1>11. FrameSync'
    BY ONLY <1>1, <1>2, <1>3, <1>5, <1>7, <1>8, <1>9, <1>10 DEF FrameSync, Cur
  <1>12. delivered' \in Seq(Seq(Nat))
    BY <1>8 DEF IInv, TypeOK
  <1>. QED BY <1>1, <1>6, <1>7, <1>8, <1>11, <1>12, AfterReceive

\* A whole packet has arrived: its blocks hold its bytes in order.
LEMMA PacketRead ==
    ASSUME IInv, NEW n \in 1 .. written - rcvd, Receive(n),
           rx_state = "READ_HEADER", n = nob_left, NEW p,
           p = block_add_tail(packet, block, prev_packet_offset,
                              (offset + n) - prev_packet_offset)
    PROVE  /\ p.blocks = Append(packet.blocks, block)
           /\ Assembled(Filled(n), p) = Stream!Bytes(sent[Cur])
  <1> DEFINE L == Len(packet.blocks)
             N == sent[Cur].len
             G == NextFirst - p.head
             done == offset + n
  <1>1. /\ ~closed /\ n \in Nat /\ 1 <= n /\ block \in Blocks /\ done <= BlockLen
        /\ FrameSync /\ HeapHolds
    BY Received
  <1>2. /\ Cur <= Len(sent) /\ nob_wanted = sent[Cur].len
        /\ rcvd + 1 + nob_left = NextFirst + nob_wanted /\ PieceSync /\ LeftOver
    BY <1>1, BodySync
  <1>3. /\ BlockLen \in Nat /\ 0 < BlockLen /\ rcvd \in Nat /\ NextFirst \in Nat
        /\ offset \in Nat /\ prev_packet_offset \in Nat /\ L \in Nat
        /\ Len(delivered) \in Nat /\ Len(sent) \in Nat
    BY Basics
  <1>4. /\ Cur \in 1 .. Len(sent) /\ N \in Nat /\ N = nob_wanted /\ NextFirst = sent[Cur].first
    <2>1. Cur \in 1 .. Len(sent)
      BY <1>2, <1>3 DEF Cur
    <2>2. N \in Int /\ HeaderLen \in Nat
      BY <2>1, Basics
    <2> HIDE DEF N
    <2>3. N > HeaderLen
      BY ONLY <1>1, <1>2, <2>2, n = nob_left DEF LeftOver, N
    <2>4. N \in Nat
      BY ONLY <2>2, <2>3
    <2>. QED BY <1>2, <2>1, <2>4 DEF NextFirst, N
  <1>5. /\ prev_packet_offset <= offset
        /\ L = 0 => rcvd + 1 = NextFirst + (offset - prev_packet_offset)
        /\ L > 0 => /\ prev_packet_offset = 0
                    /\ rcvd + 1 = (NextFirst - packet.head) + (L * BlockLen + offset)
    BY <1>2, <1>3 DEF PieceSync
  <1>6. /\ p.blocks = Append(packet.blocks, block)
        /\ L = 0 => p.head = prev_packet_offset /\ p.length = done - prev_packet_offset
        /\ L > 0 => p.head = packet.head /\ p.tail = done
    <2>1. packet.blocks \in Seq(Blocks)
      BY Basics
    <2>2. L = 0 <=> packet.blocks = <<>>
      BY ONLY <2>1
    <2>3. CASE packet.blocks = <<>>
      <3>1. p = [blocks |-> <<block>>, head |-> prev_packet_offset,
                 length |-> done - prev_packet_offset, tail |-> 0]
        BY <2>3 DEF block_add_tail
      <3>. QED BY <1>3, <2>2, <2>3, <3>1
    <2>4. CASE packet.blocks # <<>>
      <3>1. p = [packet EXCEPT !.blocks = Append(@, block),
                               !.tail = prev_packet_offset + (done - prev_packet_offset)]
        BY <2>4 DEF block_add_tail
      <3>2. prev_packet_offset + (done - prev_packet_offset) = done
        BY ONLY <1>1, <1>3
      <3>3. packet = [blocks |-> packet.blocks, head |-> packet.head,
                      length |-> packet.length, tail |-> packet.tail]
        BY Basics
      <3>4. p = [blocks |-> Append(packet.blocks, block), head |-> packet.head,
                 length |-> packet.length, tail |-> done]
        BY ONLY <3>1, <3>2, <3>3
      <3>. QED BY ONLY <2>2, <2>4, <3>4
    <2>. QED BY <2>3, <2>4
  <1>7. /\ p.blocks \in Seq(Blocks) /\ Len(p.blocks) = L + 1 /\ p.blocks # <<>>
        /\ p.blocks[L + 1] = block
        /\ \A j \in 1 .. L : p.blocks[j] = packet.blocks[j]
    <2>1. packet.blocks \in Seq(Blocks)
      BY Basics
    <2>2. p.blocks = Append(packet.blocks, block)
      BY ONLY <1>6
    <2>. QED BY ONLY <1>1, <2>1, <2>2, Appended
  <1>8. p.head \in 0 .. BlockLen - 1 /\ p.head \in Nat
    <2>1. prev_packet_offset \in 0 .. BlockLen - 1 /\ packet.head \in 0 .. BlockLen - 1
      BY Basics
    <2>2. L = 0 \/ L > 0
      BY ONLY <1>3
    <2>3. p.head \in 0 .. BlockLen - 1
      BY ONLY <1>6, <2>1, <2>2
    <2>. QED BY ONLY <1>3, <2>3
  <1>9. rcvd + 1 - offset = G + L * BlockLen /\ L * BlockLen \in Nat
    <2> DEFINE q == L * BlockLen
               h == p.head
    <2>1. q \in Nat /\ h \in Int
      BY <1>3, <1>8
    <2>2. L = 0 => q = 0
      BY <1>3
    <2>3. L = 0 \/ L > 0
      BY ONLY <1>3
    <2>4. L = 0 => rcvd + 1 = NextFirst + (offset - h)
      BY ONLY <1>5, <1>6
    <2>5. L > 0 => rcvd + 1 = (NextFirst - h) + (q + offset)
      BY ONLY <1>5, <1>6
    <2> HIDE DEF q, h, L
    <2>6. rcvd + 1 - offset = (NextFirst - h) + q
      BY ONLY <1>3, <2>1, <2>2, <2>3, <2>4, <2>5
    <2>. QED BY ONLY <2>1, <2>6 DEF q, h, L
  <1>10. p.head + N = L * BlockLen + done
    <2> DEFINE q == L * BlockLen
               h == p.head
    <2>1. q \in Nat /\ h \in Int /\ rcvd + 1 - offset = (NextFirst - h) + q
      BY ONLY <1>8, <1>9
    <2>2. rcvd + 1 + n = NextFirst + N
      BY <1>2, <1>4
    <2>3. N \in Nat /\ n \in Nat
      BY ONLY <1>1, <1>4
    <2> HIDE DEF q, h, N
    <2>4. h + N = q + (offset + n)
      BY ONLY <1>3, <2>1, <2>2, <2>3
    <2>. QED BY ONLY <2>4 DEF q, h, N
  <1>11. N = PacketLen(p)
    <2> DEFINE q == L * BlockLen
               h == p.head
    <2>0. L = 0 => q = 0
      BY <1>3
    <2>1. q \in Nat /\ h \in Int /\ h + N = q + done
      BY ONLY <1>8, <1>9, <1>10
    <2>2. (L + 1 = 1 <=> L = 0) /\ (L + 1) - 1 = L /\ (L = 0 \/ L > 0)
      BY ONLY <1>3
    <2>3. PacketLen(p) = IF L = 0 THEN p.length ELSE q - h + p.tail
      BY ONLY <1>7, <2>2 DEF PacketLen
    <2>4. /\ L = 0 => p.length = done - h
          /\ L > 0 => p.tail = done
      BY ONLY <1>6
    <2>5. N \in Nat /\ done \in Nat
      BY ONLY <1>1, <1>3, <1>4
    <2> HIDE DEF q, h, L, N, done
    <2>6. (L = 0 => N = done - h) /\ (L > 0 => N = q - h + done)
      BY ONLY <2>0, <2>1, <2>5
    <2>. QED BY ONLY <2>2, <2>3, <2>4, <2>6
  <1>12. ASSUME NEW j \in 1 .. Len(p.blocks), NEW o \in Cells,
                j = 1 => p.head <= o, (j - 1) * BlockLen + o < p.head + N
         PROVE  Filled(n)[p.blocks[j]][o] = G + ((j - 1) * BlockLen + o)
    <2>0. j \in 1 .. L + 1 /\ j \in Int
      BY ONLY <1>3, <1>7, <1>12, j \in 1 .. Len(p.blocks)
    <2>1. CASE j = L + 1
      <3> DEFINE q == L * BlockLen
      <3>1. (j - 1) * BlockLen = q /\ q \in Nat
        BY ONLY <1>3, <1>9, <2>1
      <3>2. o \in Nat
        BY <1>3 DEF Cells
      <3>3. q + o < q + done
        BY ONLY <1>10, <1>12, <3>1
      <3>4. G \in Int /\ rcvd + 1 - offset = G + q
        BY ONLY <1>3, <1>8, <1>9
      <3> HIDE DEF q, G
      <3>5. o < done
        BY ONLY <1>1, <1>3, <3>1, <3>2, <3>3
      <3>6. prev_packet_offset <= o
        <4>1. L = 0 \/ L > 0
          BY ONLY <1>3
        <4>2. CASE L = 0
          <5>1. j = 1
            BY ONLY <2>1, <4>2
          <5>. QED BY ONLY <1>6, <1>12, <4>2, <5>1
        <4>3. CASE L > 0
          <5>1. prev_packet_offset = 0
            BY ONLY <1>5, <4>3
          <5>. QED BY ONLY <3>2, <5>1
        <4>. QED BY ONLY <4>1, <4>2, <4>3
      <3>7. Filled(n)[block][o] = rcvd + 1 + o - offset
        BY <1>1, <3>5, <3>6, FilledCells
      <3>8. rcvd + 1 + o - offset = G + (q + o)
        BY ONLY <1>3, <3>1, <3>2, <3>4
      <3>9. p.blocks[j] = block
        BY ONLY <1>7, <2>1
      <3>. QED BY ONLY <3>1, <3>7, <3>8, <3>9 DEF G
    <2>2. CASE j # L + 1
      <3>1. j \in 1 .. L /\ L > 0
        BY ONLY <1>3, <2>0, <2>2
      <3>2. p.blocks[j] = packet.blocks[j] /\ p.head = packet.head
        BY ONLY <1>6, <1>7, <3>1
      <3>3. packet.blocks[j] \in Blocks /\ packet.blocks[j] # block
        <4>1. packet.blocks[j] \in Blocks
          BY <3>1, Basics
        <4>. QED BY <1>1, <3>1, <4>1 DEF HeapHolds
      <3>4. Filled(n)[packet.blocks[j]] = mem[packet.blocks[j]]
        BY <1>1, <3>3, FilledCells
      <3>5. mem[packet.blocks[j]][o] = (NextFirst - packet.head) + ((j - 1) * BlockLen + o)
        BY <1>1, <1>12, <3>1, <3>2 DEF HeapHolds
      <3>. QED BY ONLY <3>2, <3>4, <3>5
    <2>. QED BY ONLY <2>1, <2>2
  <1>13. p.head + N <= Len(p.blocks) * BlockLen
    <2> DEFINE q == L * BlockLen
    <2>1. (L + 1) * BlockLen = q + BlockLen /\ q \in Nat
      BY <1>3
    <2>2. Len(p.blocks) * BlockLen = q + BlockLen /\ p.head + N = q + done
      BY ONLY <1>7, <1>10, <2>1
    <2> HIDE DEF q
    <2>3. q + done <= q + BlockLen
      BY ONLY <1>1, <1>3, <2>1
    <2>. QED BY ONLY <2>2, <2>3
  <1>14. G \in Int /\ p.head \in Cells
    BY <1>3, <1>8 DEF Cells
  <1>15. Assembled(Filled(n), p) = [i \in 1 .. N |-> G + (p.head + i - 1)]
    <2>1. N \in Nat /\ p.blocks \in Seq(Blocks) /\ p.blocks # <<>>
      BY ONLY <1>4, <1>7
    <2> HIDE DEF N, G
    <2>2. BlocksHold(Filled(n), p, G, N)
      BY ONLY <1>12 DEF BlocksHold
    <2>. QED BY ONLY FramingAssumption, <2>1, <2>2, <1>11, <1>13, <1>14, AssembledBytes
  <1>16. \A i \in 1 .. N : G + (p.head + i - 1) = NextFirst + i - 1
    <2> DEFINE h == p.head
    <2>1. h \in Int
      BY ONLY <1>8
    <2> HIDE DEF h
    <2>2. \A i \in 1 .. N : (NextFirst - h) + (h + i - 1) = NextFirst + i - 1
      BY ONLY <1>3, <1>4, <2>1
    <2>. QED BY ONLY <2>2 DEF h
  <1>17. Stream!Bytes(sent[Cur]) = [i \in 1 .. N |-> NextFirst + i - 1]
    BY <1>4 DEF Stream!Bytes
  <1>. QED BY ONLY <1>6, <1>15, <1>16, <1>17

\* The bytes of a packet are a sequence of stream bytes.
LEMMA BytesSeq ==
    ASSUME NEW s, s.first \in Nat, s.len \in Nat, 1 <= s.first
    PROVE  Stream!Bytes(s) \in Seq(Nat)
  <1>1. \A i \in 1 .. s.len : s.first + i - 1 \in Nat
    OBVIOUS
  <1>. QED BY <1>1 DEF Stream!Bytes

\* Once the packet is released only the connection holds a block.
LEMMA Released ==
    ASSUME IInv, ~closed, NEW p, p.blocks = Append(packet.blocks, block), NEW x \in Blocks
    PROVE  ReleasePacket(AddRef(refcount, block), p)[x] = IF x = block THEN 1 ELSE 0
  <1>1. /\ block \in Blocks /\ \A i \in 1 .. Len(packet.blocks) : packet.blocks[i] # block
        /\ refcount[x] = (IF x = block THEN 1 ELSE 0) + Holds(packet, x)
    BY DEF IInv, Open, HeapHolds, RefcountExact
  <1>2. packet.blocks \in Seq(Blocks) /\ Len(packet.blocks) \in Nat /\ refcount \in [Blocks -> Nat]
    BY Basics
  <1>3. /\ Len(p.blocks) = Len(packet.blocks) + 1 /\ p.blocks \in Seq(Blocks)
        /\ p.blocks[Len(packet.blocks) + 1] = block
        /\ \A k \in 1 .. Len(packet.blocks) : p.blocks[k] = packet.blocks[k]
    BY <1>1, <1>2, Appended
  <1>4. Holds(p, x) = (IF x = block THEN 1 ELSE 0) + Holds(packet, x)
    <2>1. DOMAIN packet.blocks = 1 .. Len(packet.blocks)
          /\ DOMAIN p.blocks = 1 .. Len(packet.blocks) + 1
      BY ONLY <1>2, <1>3
    <2>2. \A i \in 1 .. Len(packet.blocks) + 1 :
            i \in 1 .. Len(packet.blocks) \/ i = Len(packet.blocks) + 1
      BY ONLY <1>2
    <2>3. /\ \A i \in 1 .. Len(packet.blocks) : i \in 1 .. Len(packet.blocks) + 1
          /\ Len(packet.blocks) + 1 \in 1 .. Len(packet.blocks) + 1
      BY ONLY <1>2
    <2>. QED BY ONLY <1>1, <1>3, <2>1, <2>2, <2>3 DEF Holds
  <1>5. Holds(packet, x) \in Nat
    BY DEF Holds
  <1>6. AddRef(refcount, block)[x] = IF x = block THEN refcount[x] + 1 ELSE refcount[x]
    BY DEF AddRef
  <1>7. ReleasePacket(AddRef(refcount, block), p)[x] = AddRef(refcount, block)[x] - Holds(p, x)
    BY DEF ReleasePacket
  <1>. QED BY ONLY <1>1, <1>4, <1>5, <1>6, <1>7

\* The packet is handed over, and the connection starts on the next one.
LEMMA PacketDoneStep ==
    ASSUME IInv, NEW n \in 1 .. written - rcvd, PacketDone(n)
    PROVE  /\ IInv'
           /\ Cur \in 1 .. Len(sent) /\ sent[Cur].len > HeaderLen
           /\ delivered' = Append(delivered, Stream!Bytes(sent[Cur]))
  <1> DEFINE done == offset + n
             p    == block_add_tail(packet, block, prev_packet_offset,
                                    done - prev_packet_offset)
             refs == ReleasePacket(AddRef(refcount, block), p)
  <1>1. /\ Receive(n) /\ PostRecv /\ rx_state = "READ_HEADER" /\ n = nob_left
        /\ delivered' = Append(delivered, Assembled(Filled(n), p))
        /\ packet' = EmptyPacket /\ rx_state' = "NEW"
        /\ nob_wanted' = HeaderLen /\ nob_left' = HeaderLen
    BY DEF PacketDone
  <1>2. \/ /\ done + HeaderLen <= BlockLen
           /\ KeepBlock(done, Filled(n), refs)
           /\ prev_packet_offset' = done
        \/ /\ done + HeaderLen > BlockLen
           /\ NextBlock(Filled(n), DecRef(refs, block))
    BY DEF PacketDone
  <1>3. /\ n \in Nat /\ ~closed /\ block \in Blocks /\ done \in Nat /\ done <= BlockLen
        /\ sent' = sent /\ written' = written /\ rcvd' = rcvd + n /\ rcvd' <= written
    BY <1>1, Received
  <1>4. /\ BlockLen \in Nat /\ HeaderLen \in Nat /\ 0 < HeaderLen /\ HeaderLen <= BlockLen
        /\ Len(delivered) \in Nat /\ Len(sent) \in Nat /\ rcvd \in Nat /\ NextFirst \in Nat
    BY Basics
  <1>5. /\ Cur <= Len(sent) /\ nob_wanted = sent[Cur].len /\ LeftOver
        /\ rcvd + 1 + nob_left = NextFirst + nob_wanted
    BY <1>1, <1>3, BodySync
  <1>5a. n \in Nat /\ 1 <= n
    BY <1>1, Received
  <1>5b. nob_wanted \in Nat /\ nob_left \in Nat /\ sent[Cur].len > HeaderLen
    <2>1. nob_wanted \in Int /\ HeaderLen \in Nat
      BY Basics
    <2>2. nob_wanted > HeaderLen
      BY ONLY <1>1, <1>5, <1>5a, <2>1 DEF LeftOver
    <2>. QED BY ONLY <1>1, <1>5, <1>5a, <2>1, <2>2
  <1>6. Cur \in 1 .. Len(sent) /\ Cur = Len(delivered) + 1 /\ NextFirst = sent[Cur].first
    <2>1. NextFirst = sent[Cur].first
      BY ONLY <1>5 DEF NextFirst
    <2>. QED BY ONLY <1>4, <1>5, <2>1 DEF Cur
  <1>7. /\ p.blocks = Append(packet.blocks, block)
        /\ delivered' = Append(delivered, Stream!Bytes(sent[Cur]))
    <2> HIDE DEF p
    <2>1. p = block_add_tail(packet, block, prev_packet_offset, (offset + n) - prev_packet_offset)
      BY DEF p
    <2>2. p.blocks = Append(packet.blocks, block)
          /\ Assembled(Filled(n), p) = Stream!Bytes(sent[Cur])
      BY <1>1, <2>1, PacketRead
    <2>. QED BY <1>1, <2>2
  <1>8. /\ delivered' \in Seq(Seq(Nat)) /\ Len(delivered') = Len(delivered) + 1
    <2>1. delivered \in Seq(Seq(Nat))
      BY DEF IInv, TypeOK
    <2>2. Stream!Bytes(sent[Cur]) \in Seq(Nat)
      <3>1. sent[Cur].first \in Nat /\ sent[Cur].len \in Nat
        BY <1>5, <1>5b, <1>6, Basics
      <3>2. 1 <= sent[Cur].first
        BY <1>6 DEF IInv, SentInv
      <3>. QED BY <3>1, <3>2, BytesSeq
    <2>. QED BY ONLY <1>7, <2>1, <2>2, Appended
  <1>9. NextFirst' = rcvd' + 1
    <2>1. sent[Cur].first + sent[Cur].len =
            IF Cur + 1 <= Len(sent) THEN sent[Cur + 1].first ELSE written + 1
      BY <1>5b, <1>6 DEF IInv, SentInv, Extent
    <2>2. NextFirst' = IF Cur + 1 <= Len(sent) THEN sent[Cur + 1].first ELSE written + 1
      <3>1. Cur' = Cur + 1
        BY ONLY <1>6, <1>8 DEF Cur
      <3>. QED BY ONLY <1>3, <3>1 DEF NextFirst
    <2>3. NextFirst' = NextFirst + nob_wanted
      BY ONLY <1>5, <1>6, <2>1, <2>2
    <2>4. rcvd' = rcvd + nob_left /\ nob_left \in Nat /\ nob_wanted \in Nat
      BY <1>1, <1>3, <1>5b
    <2>. QED BY ONLY <1>4, <1>5, <2>3, <2>4
  <1>10. refs = [x \in Blocks |-> IF x = block THEN 1 ELSE 0]
    <2> HIDE DEF p
    <2>1. \A x \in Blocks : refs[x] = IF x = block THEN 1 ELSE 0
      BY ONLY IInv, <1>3, <1>7, Released
    <2>2. refs = [x \in Blocks |-> refs[x]]
      BY ONLY TRUE DEF ReleasePacket
    <2>. QED BY ONLY <2>1, <2>2
  <1>11. Filled(n) \in [Blocks -> [Cells -> Nat]]
    BY <1>3, FilledCells
  <1> HIDE DEF p, refs
  <1>12. /\ mem' \in [Blocks -> [Cells -> Nat]] /\ block' \in Blocks
         /\ offset' \in Cells /\ prev_packet_offset' = offset'
         /\ prev_packet_offset' + HeaderLen <= BlockLen
         /\ refcount' = [x \in Blocks |-> IF x = block' THEN 1 ELSE 0]
    <2>1. CASE /\ done + HeaderLen <= BlockLen
               /\ KeepBlock(done, Filled(n), refs)
               /\ prev_packet_offset' = done
      <3>1. done \in Cells
        BY <1>3, <1>4, <2>1 DEF Cells
      <3>2. /\ offset' = done /\ mem' = Filled(n) /\ refcount' = refs /\ block' = block
        BY <2>1 DEF KeepBlock
      <3>. QED BY ONLY <1>3, <1>10, <1>11, <2>1, <3>1, <3>2
    <2>2. CASE NextBlock(Filled(n), DecRef(refs, block))
      <3>1. PICK b \in Blocks :
              /\ block' = b /\ offset' = 0 /\ prev_packet_offset' = 0
              /\ mem' = [Filled(n) EXCEPT ![b] = [o \in Cells |-> 0]]
              /\ refcount' = AddRef(DecRef(refs, block), b)
        BY <2>2 DEF NextBlock
      <3>2. DecRef(refs, block) = [x \in Blocks |-> 0]
        BY ONLY <1>3, <1>10 DEF DecRef
      <3>3. refcount' = [x \in Blocks |-> IF x = b THEN 1 ELSE 0]
        BY ONLY <3>1, <3>2 DEF AddRef
      <3>4. mem' \in [Blocks -> [Cells -> Nat]]
        BY ONLY <1>11, <3>1
      <3>5. 0 \in Cells /\ 0 + HeaderLen <= BlockLen
        BY <1>4 DEF Cells
      <3>. QED BY ONLY <3>1, <3>3, <3>4, <3>5
    <2>. QED BY <1>2, <2>1, <2>2
  <1>13. /\ packet'.blocks = <<>> /\ Len(packet'.blocks) = 0
         /\ packet' \in [blocks : Seq(Blocks), head : Cells, length : Nat, tail : Nat]
    <2>1. 0 \in Cells
      BY <1>4 DEF Cells
    <2>. QED BY <1>1, <2>1 DEF EmptyPacket
  <1>14. ConnTypes'
    <2>1. refcount' \in [Blocks -> Nat]
      BY ONLY <1>12
    <2>2. prev_packet_offset' \in Cells
      BY ONLY <1>12
    <2>. QED BY ONLY <1>12, <1>13, <2>1, <2>2 DEF ConnTypes, Cells
  <1>15. RefcountExact'
    <2>1. SUFFICES ASSUME NEW x \in Blocks
                   PROVE  refcount'[x] = (IF x = block' THEN 1 ELSE 0) + Holds(packet', x)
      BY DEF RefcountExact
    <2>2. Holds(packet', x) = 0
      BY <1>13 DEF Holds
    <2>. QED BY ONLY <1>12, <2>1, <2>2
  <1>16. HeapHolds'
    <2>1. \A o \in Cells : ~(prev_packet_offset' <= o /\ o < offset')
      BY <1>4, <1>12 DEF Cells
    <2>2. \A j \in 1 .. Len(packet'.blocks) : FALSE
      BY ONLY <1>13
    <2>3. ~(Len(packet'.blocks) = 1) /\ ~(Len(packet'.blocks) > 1)
      BY ONLY <1>13
    <2>. QED BY ONLY <1>12, <2>1, <2>2, <2>3 DEF HeapHolds
  <1>17. FrameSync'
    <2>1. offset' \in Nat /\ rcvd' \in Nat
      BY <1>3, <1>4, <1>12 DEF Cells
    <2>2. prev_packet_offset' <= offset' /\ rcvd' + 1 = NextFirst' + (offset' - prev_packet_offset')
      BY ONLY <1>9, <1>12, <2>1
    <2>3. PieceSync'
      BY ONLY <1>13, <2>2 DEF PieceSync
    <2>4. offset' - prev_packet_offset' = HeaderLen - nob_left' /\ 1 <= nob_left'
      <3>1. nob_left' = HeaderLen /\ prev_packet_offset' = offset'
        BY <1>1, <1>12
      <3>2. offset' - offset' = 0 /\ HeaderLen - HeaderLen = 0 /\ 1 <= HeaderLen
        <4>1. \A x \in Nat : x - x = 0 /\ (0 < x => 1 <= x)
          OBVIOUS
        <4>. QED BY ONLY <1>4, <2>1, <4>1
      <3>. QED BY ONLY <3>1, <3>2
    <2>5. rx_size' = nob_left'
      BY <1>1 DEF PostRecv, RxSize
    <2>6. Len(delivered') <= Len(sent')
      BY ONLY <1>3, <1>4, <1>5, <1>6, <1>8
    <2>7. rcvd' <= written'
      BY ONLY <1>3
    <2>8. rx_state' = "NEW" /\ prev_packet_offset' + HeaderLen <= BlockLen
      BY ONLY <1>1, <1>12
    <2>. QED BY ONLY <1>13, <2>3, <2>4, <2>5, <2>6, <2>7, <2>8 DEF FrameSync
  <1>18. IInv'
    <2>1. rx_state' \in {"NEW", "READ_HEADER"} /\ nob_wanted' \in Int /\ nob_left' \in Int
      BY <1>1, <1>4
    <2>. QED BY <1>1, <1>8, <1>14, <1>15, <1>16, <1>17, <2>1, AfterReceive
  <1>. QED BY <1>5b, <1>6, <1>7, <1>18

\* The peer's next packet starts where the last one ended.
LEMMA SendStep ==
    ASSUME IInv, NEW len \in Sizes, Send(len) PROVE IInv'
  <1> DEFINE s == [first |-> written + 1, len |-> len]
             L == Len(sent)
             x == Extent(len)
  <1>1. /\ ~closed /\ sent' = Append(sent, s) /\ written' = written + x
        /\ UNCHANGED <<rcvd, mem, refcount, block, offset, prev_packet_offset, packet,
                       rx_state, nob_wanted, nob_left, rx_size, delivered, closed, overrun>>
    BY DEF Send, Running, heap, conn, rx
  <1>2. /\ L \in Nat /\ written \in Nat /\ x \in Nat /\ 0 < x /\ Len(delivered) \in Nat
        /\ \A k \in 1 .. L : sent[k].first \in Nat
    <2>1. len \in Int /\ HeaderLen \in Nat /\ 0 < HeaderLen
      BY FramingAssumption DEF FramingAssumption
    <2>2. x \in Nat /\ 0 < x
      BY ONLY <2>1 DEF Extent
    <2>. QED BY <2>2, Basics
  <1> HIDE DEF x
  <1>3. s \in [first : Nat, len : Sizes] /\ s.first = written + 1 /\ s.len = len
        /\ Extent(s.len) = x
    BY <1>2 DEF x
  <1>4. /\ sent' \in Seq([first : Nat, len : Sizes]) /\ Len(sent') = L + 1 /\ sent' # <<>>
        /\ sent'[L + 1] = s /\ \A k \in 1 .. L : sent'[k] = sent[k]
    <2>1. sent \in Seq([first : Nat, len : Sizes])
      BY DEF IInv, TypeOK
    <2> HIDE DEF s
    <2>. QED BY ONLY <1>1, <1>3, <2>1, Appended
  <1> HIDE DEF s
  <1>5. TypeOK'
    <2>1. written' \in Nat
      BY <1>1, <1>2
    <2>2. TypeOK
      BY DEF IInv
    <2>. QED BY ONLY <1>1, <1>4, <2>1, <2>2 DEF TypeOK, Cells
  <1>6. \A k \in 1 .. L + 1 : k \in 1 .. L \/ k = L + 1
    BY ONLY <1>2
  <1>7. SentInv
    BY DEF IInv
  <1>8. SentInv'
    <2>1. ASSUME NEW k \in 1 .. L + 1
          PROVE  /\ sent'[k].first >= 1 /\ sent'[k].first <= written'
                 /\ sent'[k].first + Extent(sent'[k].len) =
                       IF k + 1 <= L + 1 THEN sent'[k + 1].first ELSE written' + 1
      <3>1. CASE k \in 1 .. L
        <4>1. /\ sent[k].first >= 1 /\ sent[k].first <= written
              /\ sent[k].first + Extent(sent[k].len) =
                    IF k + 1 <= L THEN sent[k + 1].first ELSE written + 1
          BY <1>7, <3>1 DEF SentInv
        <4>2. sent[k].first \in Nat
          BY <1>2, <3>1
        <4>3. sent[k].first <= written'
          BY ONLY <1>1, <1>2, <4>1, <4>2
        <4>4. k + 1 <= L + 1 /\ (k + 1 <= L => k + 1 \in 1 .. L) /\ (~(k + 1 <= L) => k = L)
          BY ONLY <1>2, <3>1
        <4>5. sent'[k + 1].first = IF k + 1 <= L THEN sent[k + 1].first ELSE written + 1
          BY ONLY <1>3, <1>4, <4>4
        <4>. QED BY ONLY <1>4, <3>1, <4>1, <4>3, <4>4, <4>5
      <3>2. CASE k = L + 1
        <4>1. ~(k + 1 <= L + 1)
          BY ONLY <1>2, <3>2
        <4>2. /\ written + 1 >= 1 /\ written + 1 <= written + x
              /\ (written + 1) + x = (written + x) + 1
          BY ONLY <1>2
        <4>. QED BY ONLY <1>1, <1>3, <1>4, <3>2, <4>1, <4>2
      <3>. QED BY <1>6, <3>1, <3>2
    <2>2. ASSUME NEW j \in 1 .. L + 1, NEW k \in 1 .. L + 1, j < k
          PROVE  sent'[j].first < sent'[k].first
      <3>1. j \in 1 .. L /\ (k \in 1 .. L \/ k = L + 1)
        <4>1. \A p, q \in 1 .. L + 1 : p < q => p \in 1 .. L
          BY ONLY <1>2
        <4>. QED BY <1>6, <2>2, <4>1
      <3>2. CASE k \in 1 .. L
        BY <1>4, <1>7, <2>2, <3>1, <3>2 DEF SentInv
      <3>3. CASE k = L + 1
        <4>1. sent[j].first <= written /\ sent[j].first \in Nat
          BY <1>2, <1>7, <3>1 DEF SentInv
        <4>2. sent[j].first < written + 1
          BY ONLY <1>2, <4>1
        <4>. QED BY ONLY <1>3, <1>4, <3>1, <3>3, <4>2
      <3>. QED BY ONLY <3>1, <3>2, <3>3
    <2>3. sent'[1].first = 1
      <3>1. CASE sent = <<>>
        <4>1. L = 0 /\ written = 0
          BY <1>7, <3>1 DEF SentInv
        <4>. QED BY ONLY <1>3, <1>4, <4>1
      <3>2. CASE sent # <<>>
        <4>1. 1 \in 1 .. L
          <5>1. sent \in Seq([first : Nat, len : Sizes])
            BY DEF IInv, TypeOK
          <5>2. L # 0
            BY ONLY <3>2, <5>1
          <5>. QED BY ONLY <1>2, <5>2
        <4>. QED BY <1>4, <1>7, <3>2, <4>1 DEF SentInv
      <3>. QED BY <3>1, <3>2
    <2>. QED BY ONLY <1>4, <2>1, <2>2, <2>3 DEF SentInv
  <1>9. FrameSync /\ HeapHolds
    BY <1>1 DEF IInv, Open
  <1>10. NextFirst' = NextFirst
    <2>1. Cur \in Nat /\ Cur >= 1 /\ Cur <= L + 1 /\ Cur' = Cur
      BY <1>1, <1>2, <1>9 DEF FrameSync, Cur
    <2>2. CASE Cur <= L
      <3>1. Cur \in 1 .. L /\ Cur <= L + 1
        BY ONLY <1>2, <2>1, <2>2
      <3>. QED BY ONLY <1>4, <2>1, <2>2, <3>1 DEF NextFirst
    <2>3. CASE ~(Cur <= L)
      <3>1. Cur = L + 1
        BY ONLY <1>2, <2>1, <2>3
      <3>. QED BY ONLY <1>3, <1>4, <2>1, <2>3, <3>1 DEF NextFirst
    <2>. QED BY <2>2, <2>3
  <1>11. FrameSync'
    <2>1. Len(delivered) <= L + 1 /\ rcvd <= written + x
      <3>1. Len(delivered) <= L /\ rcvd <= written /\ rcvd \in Nat
        BY <1>9, Basics DEF FrameSync
      <3>. QED BY ONLY <1>2, <3>1
    <2>2. Cur <= L => Cur <= L + 1 /\ sent'[Cur] = sent[Cur]
      <3>1. Cur <= L => Cur \in 1 .. L /\ Cur <= L + 1
        BY <1>2 DEF Cur
      <3>. QED BY <1>4, <3>1
    <2>3. Cur' = Cur
      BY ONLY <1>1 DEF Cur
    <2>4. PieceSync'
      BY ONLY <1>1, <1>9, <1>10 DEF FrameSync, PieceSync
    <2>5. RxSize("READ_HEADER", nob_left', offset') = RxSize("READ_HEADER", nob_left, offset)
      BY ONLY <1>1
    <2>. QED BY ONLY <1>1, <1>4, <1>9, <1>10, <2>1, <2>2, <2>3, <2>4, <2>5 DEF FrameSync, LeftOver
  <1>12. HeapHolds'
    BY ONLY <1>1, <1>9, <1>10 DEF HeapHolds
  <1>13. RefcountExact'
    BY ONLY IInv, <1>1 DEF IInv, RefcountExact, Holds
  <1>14. OnlyMalformed'
    BY ONLY IInv, <1>1 DEF IInv, OnlyMalformed, Malformed
  <1>. QED BY <1>5, <1>8, <1>11, <1>12, <1>13, <1>14 DEF IInv, Open

\* The connection's reference goes; the packet's stay.
LEMMA CloseStep ==
    ASSUME IInv, Close PROVE IInv'
  <1>1. /\ ~closed /\ closed' = TRUE /\ refcount' = DecRef(refcount, block)
        /\ block' = NoBlock
        /\ UNCHANGED <<sent, written, rcvd, mem, offset, prev_packet_offset, packet,
                       rx_state, nob_wanted, nob_left, rx_size, delivered, overrun>>
    BY DEF Close, Running, peer, rx
  <1>2. block \in Blocks /\ refcount \in [Blocks -> Nat] /\ NoBlock \notin Blocks
    BY <1>1, FramingAssumption DEF IInv, Open, HeapHolds, TypeOK, FramingAssumption
  <1>3. \A x \in Blocks : refcount'[x] = Holds(packet, x) /\ Holds(packet, x) \in Nat
    <2>1. SUFFICES ASSUME NEW x \in Blocks
                   PROVE  refcount'[x] = Holds(packet, x) /\ Holds(packet, x) \in Nat
      OBVIOUS
    <2>2. refcount[x] = (IF x = block THEN 1 ELSE 0) + Holds(packet, x)
      BY DEF IInv, RefcountExact
    <2>3. Holds(packet, x) \in Nat
      BY DEF Holds
    <2>4. refcount'[x] = IF x = block THEN refcount[x] - 1 ELSE refcount[x]
      BY <1>1 DEF DecRef
    <2>. QED BY ONLY <2>2, <2>3, <2>4
  <1>4. TypeOK'
    <2>1. refcount' \in [Blocks -> Nat]
      BY <1>1, <1>3 DEF DecRef
    <2>. QED BY <1>1, <2>1 DEF IInv, TypeOK, Cells
  <1>5. SentInv'
    BY <1>1 DEF IInv, SentInv
  <1>6. RefcountExact'
    <2>1. \A x \in Blocks : x # block' /\ Holds(packet', x) = Holds(packet, x)
      BY <1>1, <1>2 DEF Holds
    <2>. QED BY ONLY <1>3, <2>1 DEF RefcountExact
  <1>7. OnlyMalformed'
    BY ONLY IInv, <1>1 DEF IInv, OnlyMalformed, Malformed
  <1>. QED BY <1>1, <1>4, <1>5, <1>6, <1>7 DEF IInv

\* recv() goes past the block only where the length is smaller than a header.
LEMMA OverrunStep ==
    ASSUME IInv, NEW n \in 1 .. written - rcvd, Overrun(n) PROVE IInv'
  <1>1. /\ ~closed /\ (rx_size < 0 \/ n <= rx_size) /\ offset + n > BlockLen
        /\ overrun' = TRUE
        /\ UNCHANGED <<sent, written, rcvd, mem, refcount, block, offset, prev_packet_offset,
                       packet, rx_state, nob_wanted, nob_left, rx_size, delivered, closed>>
    BY DEF Overrun, Returns, Running, peer, heap, conn, rx
  <1>2. /\ BlockLen \in Nat /\ offset \in Nat /\ rx_size \in Int /\ rcvd \in Nat
        /\ written \in Nat /\ nob_wanted \in Int /\ HeaderLen \in Nat
    BY Basics
  <1>3. n \in Nat /\ 1 <= n
    BY ONLY <1>2, n \in 1 .. written - rcvd
  <1>4. IF Malformed
        THEN IF nob_wanted = HeaderLen THEN rx_size = 0 ELSE rx_size < 0
        ELSE 1 <= rx_size /\ offset + rx_size <= BlockLen
    BY <1>1, Window DEF RecvWindow
  <1>5. Malformed /\ nob_wanted # HeaderLen
    BY ONLY <1>1, <1>2, <1>3, <1>4
  <1>6. OnlyMalformed'
    BY ONLY <1>1, <1>2, <1>5 DEF OnlyMalformed, Malformed
  <1>7. TypeOK'
    BY ONLY IInv, <1>1 DEF IInv, TypeOK, Cells
  <1>8. SentInv' /\ RefcountExact'
    BY ONLY IInv, <1>1 DEF IInv, SentInv, RefcountExact, Holds
  <1>9. FrameSync /\ HeapHolds
    BY <1>1 DEF IInv, Open
  <1>10. NextFirst' = NextFirst /\ Cur' = Cur
    BY ONLY <1>1 DEF NextFirst, Cur
  <1>11. FrameSync'
    <2>1. PieceSync'
      BY ONLY <1>1, <1>9, <1>10 DEF FrameSync, PieceSync
    <2>2. RxSize("READ_HEADER", nob_left', offset') = RxSize("READ_HEADER", nob_left, offset)
      BY ONLY <1>1
    <2>. QED BY ONLY <1>1, <1>9, <1>10, <2>1, <2>2 DEF FrameSync, LeftOver
  <1>12. HeapHolds'
    BY ONLY <1>1, <1>9, <1>10 DEF HeapHolds
  <1>. QED BY ONLY <1>6, <1>7, <1>8, <1>11, <1>12 DEF IInv, Open
-----------------------------------------------------------------------------
(* The theorems *)

\* server_accept establishes the invariant.
LEMMA InitHolds == Init => IInv
  <1>1. SUFFICES ASSUME Init PROVE IInv
    OBVIOUS
  <1>2. /\ BlockLen \in Nat /\ HeaderLen \in Nat /\ 0 < HeaderLen /\ HeaderLen <= BlockLen
    BY FramingAssumption DEF FramingAssumption
  <1>3. 0 \in Cells /\ 0 \in Nat
    BY <1>2 DEF Cells
  <1>4. /\ packet.blocks = <<>> /\ Len(packet.blocks) = 0
        /\ packet \in [blocks : Seq(Blocks), head : Cells, length : Nat, tail : Nat]
    BY <1>1, <1>3 DEF Init, EmptyPacket
  <1>5. TypeOK
    <2>1. mem \in [Blocks -> [Cells -> Nat]] /\ refcount \in [Blocks -> Nat]
      BY <1>1 DEF Init
    <2>2. sent \in Seq([first : Nat, len : Sizes]) /\ delivered \in Seq(Seq(Nat))
      BY <1>1 DEF Init
    <2>3. nob_wanted \in Int /\ nob_left \in Int /\ rx_size \in Int
      BY <1>1, <1>2 DEF Init
    <2>4. /\ written \in Nat /\ rcvd \in Nat /\ block \in Blocks /\ offset \in Cells
          /\ prev_packet_offset \in Cells /\ rx_state = "NEW"
          /\ closed \in BOOLEAN /\ overrun \in BOOLEAN
      BY <1>1, <1>3 DEF Init
    <2>. QED BY ONLY <1>4, <2>1, <2>2, <2>3, <2>4 DEF TypeOK
  <1>6. /\ sent = <<>> /\ written = 0 /\ rcvd = 0 /\ Len(sent) = 0
        /\ delivered = <<>> /\ Len(delivered) = 0
    BY <1>1 DEF Init
  <1>7. SentInv
    BY ONLY <1>6 DEF SentInv
  <1>8. RefcountExact
    <2>1. \A x \in Blocks : Holds(packet, x) = 0
      BY <1>4 DEF Holds
    <2>. QED BY <1>1, <2>1 DEF Init, RefcountExact
  <1>9. NextFirst = 1
    BY ONLY <1>6 DEF NextFirst, Cur
  <1>10. FrameSync
    <2>1. /\ offset = 0 /\ prev_packet_offset = 0 /\ rx_state = "NEW"
          /\ nob_left = HeaderLen /\ rx_size = HeaderLen
      BY <1>1 DEF Init
    <2>2. PieceSync
      BY ONLY <1>4, <1>6, <1>9, <2>1 DEF PieceSync
    <2>. QED BY ONLY <1>2, <1>4, <1>6, <2>1, <2>2 DEF FrameSync
  <1>11. HeapHolds
    <2>1. \A o \in Cells : ~(prev_packet_offset <= o /\ o < offset)
      BY <1>1, <1>2 DEF Init, Cells
    <2>2. block \in Blocks
      BY <1>1 DEF Init
    <2>. QED BY ONLY <1>4, <2>1, <2>2 DEF HeapHolds
  <1>12. OnlyMalformed
    BY <1>1 DEF Init, OnlyMalformed
  <1>. QED BY <1>5, <1>7, <1>8, <1>10, <1>11, <1>12 DEF IInv, Open

\* Every step preserves it.
LEMMA StepHolds == IInv /\ [Next]_vars => IInv'
  <1>1. SUFFICES ASSUME IInv, [Next]_vars PROVE IInv'
    OBVIOUS
  <1>2. ASSUME NEW len \in Sizes, Send(len) PROVE IInv'
    BY <1>1, <1>2, SendStep
  <1>3. ASSUME NEW n \in 1 .. written - rcvd, HeaderPart(n) PROVE IInv'
    BY <1>1, <1>3, HeaderPartStep
  <1>4. ASSUME NEW n \in 1 .. written - rcvd, HeaderDone(n) PROVE IInv'
    BY <1>1, <1>4, HeaderDoneStep
  <1>5. ASSUME NEW n \in 1 .. written - rcvd, BodyPart(n) PROVE IInv'
    BY <1>1, <1>5, BodyPartStep
  <1>6. ASSUME NEW n \in 1 .. written - rcvd, PacketDone(n) PROVE IInv'
    BY <1>1, <1>6, PacketDoneStep
  <1>7. CASE Close
    BY <1>1, <1>7, CloseStep
  <1>9. ASSUME NEW n \in 1 .. written - rcvd, Overrun(n) PROVE IInv'
    BY <1>1, <1>9, OverrunStep
  <1>8. CASE UNCHANGED vars
    <2>1. UNCHANGED <<sent, written, rcvd, mem, refcount, block, offset, prev_packet_offset,
                      packet, rx_state, nob_wanted, nob_left, rx_size, delivered, closed,
                      overrun>>
      BY <1>8 DEF vars, peer, heap, conn, rx
    <2>2. TypeOK'
      BY ONLY <1>1, <2>1 DEF IInv, TypeOK, Cells
    <2>3. SentInv'
      BY ONLY <1>1, <2>1 DEF IInv, SentInv
    <2>4. RefcountExact'
      BY ONLY <1>1, <2>1 DEF IInv, RefcountExact, Holds
    <2>5. NextFirst' = NextFirst /\ Cur' = Cur
      BY ONLY <2>1 DEF NextFirst, Cur
    <2>6. ASSUME ~closed' PROVE FrameSync' /\ HeapHolds'
      <3>1. FrameSync /\ HeapHolds
        BY ONLY <1>1, <2>1, <2>6 DEF IInv, Open
      <3>2. PieceSync'
        BY ONLY <2>1, <2>5, <3>1 DEF FrameSync, PieceSync
      <3>3. RxSize("READ_HEADER", nob_left', offset') = RxSize("READ_HEADER", nob_left, offset)
        BY ONLY <2>1
      <3>4. FrameSync'
        BY ONLY <2>1, <2>5, <3>1, <3>2, <3>3 DEF FrameSync, LeftOver
      <3>5. HeapHolds'
        BY ONLY <2>1, <2>5, <3>1 DEF HeapHolds
      <3>. QED BY <3>4, <3>5
    <2>7. OnlyMalformed'
      BY ONLY <1>1, <2>1 DEF IInv, OnlyMalformed, Malformed
    <2>. QED BY <2>2, <2>3, <2>4, <2>6, <2>7 DEF IInv, Open
  <1>. QED BY <1>1, <1>2, <1>3, <1>4, <1>5, <1>6, <1>7, <1>8, <1>9 DEF Next, Forward

\* In every reachable state the counters, the references and the memory of the
\* blocks agree with the position in the stream (echo_forward, echo_post_recv).
THEOREM Invariance == Spec => []IInv
  <1>1. Init => IInv
    BY InitHolds
  <1>2. IInv /\ [Next]_vars => IInv'
    BY StepHolds
  <1>. QED BY <1>1, <1>2, PTL DEF Spec

\* The offsets stay inside the block and the counts never go negative.
THEOREM TypeCorrect == Spec => []TypeOK
  <1>1. IInv => TypeOK
    BY DEF IInv
  <1>. QED BY <1>1, Invariance, PTL

\* echo_post_recv never asks for no bytes nor for bytes past the end of the
\* block, unless the packet being received announced no more than its header;
\* recv() writes past a block only if it announced less. The header that
\* echo_forward reads never straddles two blocks.
THEOREM WindowInBlock == Spec => []RecvWindow
  <1>1. IInv => RecvWindow
    BY Window
  <1>. QED BY <1>1, Invariance, PTL

\* The reference counts of blocks (block_addref, echo_block_decref) are exact: a
\* block is freed when its last holder lets go of it, never before.
THEOREM CountsExact == Spec => []RefcountExact
  <1>1. IInv => RefcountExact
    BY DEF IInv
  <1>. QED BY <1>1, Invariance, PTL

\* A step hands over the next packet of the stream, or is none of the stream's.
LEMMA StreamStep == IInv /\ [Next]_vars => [Stream!Next]_Stream!vars
  <1>1. SUFFICES ASSUME IInv, [Next]_vars PROVE Stream!Next \/ UNCHANGED Stream!vars
    OBVIOUS
  <1>2. ASSUME NEW len \in Sizes, Send(len) PROVE Stream!Next
    BY <1>2 DEF Send, Running, Extent, Stream!Next, Stream!Send, Stream!Extent
  <1>3. ASSUME NEW n \in 1 .. written - rcvd, HeaderPart(n) \/ HeaderDone(n) \/ BodyPart(n)
        PROVE  UNCHANGED Stream!vars
    <2>1. Receive(n) /\ Advance(n)
      BY <1>3 DEF HeaderPart, HeaderDone, BodyPart
    <2>. QED BY <2>1 DEF Receive, Advance, peer, Stream!vars
  <1>4. ASSUME NEW n \in 1 .. written - rcvd, PacketDone(n) PROVE Stream!Next
    <2>1. Receive(n)
      BY <1>4 DEF PacketDone
    <2>2. ~closed /\ UNCHANGED <<sent, written, closed>>
      BY <2>1 DEF Receive, Returns, Running, peer
    <2>3. /\ Cur \in 1 .. Len(sent) /\ sent[Cur].len > HeaderLen
          /\ delivered' = Append(delivered, Stream!Bytes(sent[Cur]))
      BY <1>1, <1>4, PacketDoneStep
    <2>4. Len(delivered) \in Nat /\ Len(sent) \in Nat
      BY <1>1, Basics
    <2>5. Len(delivered) < Len(sent) /\ Cur = Len(delivered) + 1
      BY ONLY <2>3, <2>4 DEF Cur
    <2>6. Stream!Deliver
      BY ONLY <2>2, <2>3, <2>5 DEF Stream!Deliver
    <2>. QED BY <2>6 DEF Stream!Next
  <1>5. CASE Close
    BY <1>5 DEF Close, Running, peer, Stream!Next, Stream!Close
  <1>6. CASE UNCHANGED vars
    BY <1>6 DEF vars, peer, Stream!vars
  <1>7. ASSUME NEW n \in 1 .. written - rcvd, Overrun(n) PROVE UNCHANGED Stream!vars
    BY <1>7 DEF Overrun, peer, Stream!vars
  <1>. QED BY <1>1, <1>2, <1>3, <1>4, <1>5, <1>6, <1>7 DEF Next, Forward

\* Framing: however the stream is cut into recv()s, the packets that
\* echo_handle_packet hands over are those the peer wrote, in order.
THEOREM Implements == Spec => PacketsInOrder
  <1>1. Init => Stream!Init
    BY DEF Init, Stream!Init
  <1>2. IInv /\ [Next]_vars => [Stream!Next]_Stream!vars
    BY StreamStep
  <1>. QED BY <1>1, <1>2, Invariance, PTL DEF Spec, PacketsInOrder, Stream!Safety
=============================================================================

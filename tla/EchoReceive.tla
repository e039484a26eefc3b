----------------------------- MODULE EchoReceive -----------------------------
(***************************************************************************)
(* Receive framing of one connection (chat/core/network.c, the same file   *)
(* in robot/core): bytes are received into 4096-byte reference-counted     *)
(* blocks; a packet starts with a 4-byte length that counts itself, may    *)
(* start anywhere in a block and may run over several; a complete packet   *)
(* is copied out of its blocks and queued for the plugins.                 *)
(*                                                                         *)
(* One step is one recv() that returned n > 0 together with the whole      *)
(* echo_forward call that follows it: the event loop is single-threaded    *)
(* and touches the connection from nowhere else.                           *)
(*                                                                         *)
(* Stream bytes are numbered 1, 2, ...; a memory cell holds the number of  *)
(* the byte last received into it, 0 after the memset of a new block.      *)
(* The length is whatever int the peer wrote. A packet that announces no   *)
(* more than its header consists of its header alone; the assertions that  *)
(* would stop there are compiled out (NDEBUG, network.c:13).               *)
(* malloc is assumed not to fail.                                          *)
(***************************************************************************)
EXTENDS Integers, Sequences

CONSTANTS BlockLen,    \* bytes in a block: 4096
          HeaderLen,   \* bytes of the length prefix: sizeof(int)
          Blocks,      \* addresses malloc may return for a block
          NoBlock,     \* NULL
          Sizes,       \* packet lengths the peer announces, header included
          MaxPackets   \* bound: packets the peer writes

ASSUME FramingAssumption ==
    /\ BlockLen \in Nat /\ HeaderLen \in Nat
    /\ 0 < HeaderLen /\ HeaderLen <= BlockLen
    /\ NoBlock \notin Blocks
    /\ Sizes \subseteq Int
    /\ MaxPackets \in Nat

VARIABLES
    sent,                \* packets the peer wrote: [first, len]
    written,             \* bytes the peer wrote
    rcvd,                \* bytes recv() has returned
    mem,                 \* contents of the blocks
    refcount,            \* echo_block.refcount; 0 = not allocated
    block,               \* echo_conn.block
    offset,              \* echo_conn.offset
    prev_packet_offset,  \* echo_conn.prev_packet_offset
    packet,              \* echo_conn.packet, the packet being assembled
    rx_state,            \* psc_rx_state
    nob_wanted,          \* psc_rx_nob_wanted
    nob_left,            \* psc_rx_nob_left
    rx_size,             \* psc_rx_size, what the next recv() asks for
    delivered,           \* contents of the packets given to system_addtask
    closed,              \* the echo_conn has been freed
    overrun              \* recv() has written past a block: all is lost

peer   == <<sent, written>>
heap   == <<mem, refcount>>
conn   == <<block, offset, prev_packet_offset, packet>>
rx     == <<rx_state, nob_wanted, nob_left, rx_size>>
vars   == <<peer, rcvd, heap, conn, rx, delivered, closed, overrun>>

Cells == 0 .. BlockLen - 1

\* A packet with no block yet; also conn->packet = NULL, since echo_forward
\* allocates an empty packet before it looks at it.
EmptyPacket == [blocks |-> <<>>, head |-> 0, length |-> 0, tail |-> 0]

-----------------------------------------------------------------------------
(* Blocks and packets *)

AddRef(refs, b) == [x \in Blocks |-> IF x = b THEN refs[x] + 1 ELSE refs[x]]

\* echo_block_decref: the block is freed when its count reaches 0.
DecRef(refs, b) == [x \in Blocks |-> IF x = b THEN refs[x] - 1 ELSE refs[x]]

\* A block's list node links it into a packet at most once.
Holds(p, b) == IF \E i \in DOMAIN p.blocks : p.blocks[i] = b THEN 1 ELSE 0

\* Fault: the packet's references are kept.
ReleasePacketFault(refs, p) == refs

\* echo_handle_packet drops the packet's reference to each of its blocks.
ReleasePacket(refs, p) == [b \in Blocks |-> refs[b] - Holds(p, b)]

\* Fault: a packet of several blocks is taken to start at the top of the first.
block_add_tail_fault(p, b, off, len) ==
    IF p.blocks = <<>>
    THEN [blocks |-> <<b>>, head |-> 0, length |-> len, tail |-> 0]
    ELSE [p EXCEPT !.blocks = Append(@, b), !.tail = off + len]

\* block_add_tail, the addref apart: a packet of one block remembers the
\* offset and length of its piece; from the second block on, where the piece
\* starts in the first block and where it ends in the last one.
block_add_tail(p, b, off, len) ==
    IF p.blocks = <<>>
    THEN [blocks |-> <<b>>, head |-> off, length |-> len, tail |-> 0]
    ELSE [p EXCEPT !.blocks = Append(@, b), !.tail = off + len]

PacketLen(p) ==
    IF Len(p.blocks) = 1
    THEN p.length
    ELSE (Len(p.blocks) - 1) * BlockLen - p.head + p.tail

\* The bytes echo_handle_packet copies: the first block from head, the middle
\* blocks whole, the last one up to tail.
Assembled(m, p) ==
    [i \in 1 .. PacketLen(p) |->
        m[p.blocks[(p.head + i - 1) \div BlockLen + 1]]
         [(p.head + i - 1) % BlockLen]]

\* What *(int*)(address + off) reads: the length of the packet whose header
\* lies there, any length at all if no whole header does.
HeaderAt(cells, off, k) ==
    /\ off + HeaderLen <= BlockLen
    /\ \A i \in 0 .. HeaderLen - 1 : cells[off + i] = sent[k].first + i

HeaderValues(cells, off) ==
    IF \E k \in DOMAIN sent : HeaderAt(cells, off, k)
    THEN {sent[k].len : k \in {j \in DOMAIN sent : HeaderAt(cells, off, j)}}
    ELSE Sizes

-----------------------------------------------------------------------------
(* echo_post_recv *)

\* Fault: asks for the rest of the packet wherever the block ends.
RxSizeFault(state, left, off) == left

\* How much the next recv() asks for: never past the end of the block.
RxSize(state, left, off) ==
    IF state = "READ_HEADER" /\ BlockLen - off <= left
    THEN BlockLen - off
    ELSE left

PostRecv == rx_size' = RxSize(rx_state', nob_left', offset')

\* The memory after recv() put the next n bytes at rx_buffer.
Filled(n) ==
    [mem EXCEPT ![block] =
        [o \in Cells |-> IF offset <= o /\ o < offset + n
                         THEN rcvd + 1 + (o - offset)
                         ELSE mem[block][o]]]

\* conn->block is kept and filled up to off.
KeepBlock(off, m, refs) ==
    /\ offset' = off
    /\ mem' = m
    /\ refcount' = refs
    /\ UNCHANGED block

\* conn->block was let go; echo_post_recv allocates the next one, zeroed, with
\* the connection's reference.
NextBlock(m, refs) ==
    \E b \in Blocks :
        /\ refs[b] = 0
        /\ block' = b
        /\ offset' = 0
        /\ prev_packet_offset' = 0
        /\ mem' = [m EXCEPT ![b] = [o \in Cells |-> 0]]
        /\ refcount' = AddRef(refs, b)

-----------------------------------------------------------------------------
(* echo_forward *)

Running == ~closed /\ ~overrun

\* What recv() may return: no more than has arrived, nor than was asked for.
\* psc_rx_size is an int and recv() takes a size_t, so that a negative one is
\* no limit at all.
Returns(n) ==
    /\ Running
    /\ 1 <= n /\ n <= written - rcvd
    /\ rx_size < 0 \/ n <= rx_size

\* recv() returned n bytes, inside the block.
Receive(n) ==
    /\ Returns(n)
    /\ offset + n <= BlockLen
    /\ rcvd' = rcvd + n
    /\ UNCHANGED <<peer, closed, overrun>>

\* recv() returned n bytes and wrote past the block. Nothing can be said of
\* what the program does then: the model stops.
Overrun(n) ==
    /\ Returns(n)
    /\ offset + n > BlockLen
    /\ overrun' = TRUE
    /\ UNCHANGED <<peer, rcvd, heap, conn, rx, delivered, closed>>

\* Fault: a full block is not left.
AdvanceFault(n) ==
    /\ UNCHANGED <<delivered, prev_packet_offset, packet>>
    /\ KeepBlock(offset + n, Filled(n), refcount)

\* The packet is not complete. A block that is full becomes one more block of
\* it, and the connection goes on in a new one.
Advance(n) ==
    /\ UNCHANGED delivered
    /\ \/ /\ offset + n # BlockLen
          /\ KeepBlock(offset + n, Filled(n), refcount)
          /\ UNCHANGED <<prev_packet_offset, packet>>
       \/ /\ offset + n = BlockLen
          /\ packet' = block_add_tail(packet, block, prev_packet_offset,
                                      BlockLen - prev_packet_offset)
          /\ NextBlock(Filled(n), DecRef(AddRef(refcount, block), block))

\* Fault: what is left of the header is not counted down.
HeaderPartFault(n) ==
    /\ Receive(n)
    /\ rx_state = "NEW" /\ n # rx_size
    /\ UNCHANGED <<rx_state, nob_wanted, nob_left>>
    /\ Advance(n)
    /\ PostRecv

\* Part of the header: ask for the rest of it.
HeaderPart(n) ==
    /\ Receive(n)
    /\ rx_state = "NEW" /\ n # rx_size
    /\ nob_left' = rx_size - n
    /\ UNCHANGED <<rx_state, nob_wanted>>
    /\ Advance(n)
    /\ PostRecv

\* The header is complete: the packet's length is known, and not looked at. One
\* that is not greater than the header's leaves nothing, or less, to ask for.
HeaderDone(n) ==
    /\ Receive(n)
    /\ rx_state = "NEW" /\ n = rx_size
    /\ nob_wanted' \in HeaderValues(Filled(n)[block], prev_packet_offset)
    /\ nob_left' = nob_wanted' - HeaderLen
    /\ rx_state' = "READ_HEADER"
    /\ Advance(n)
    /\ PostRecv

\* Part of the body.
BodyPart(n) ==
    /\ Receive(n)
    /\ rx_state = "READ_HEADER" /\ n # nob_left
    /\ nob_left' = nob_left - n
    /\ UNCHANGED <<rx_state, nob_wanted>>
    /\ Advance(n)
    /\ PostRecv

\* The last byte of the packet: echo_handle_packet copies it out, queues it and
\* releases its blocks. The connection keeps its block while a header fits in
\* what is left of it. (The test of conn->offset after the loop then reads the
\* length of a block that may just have been freed; offset is 0 there.)
PacketDone(n) ==
    LET done == offset + n
        p    == block_add_tail(packet, block, prev_packet_offset,
                               done - prev_packet_offset)
        refs == ReleasePacket(AddRef(refcount, block), p)
    IN  /\ Receive(n)
        /\ rx_state = "READ_HEADER" /\ n = nob_left
        /\ delivered' = Append(delivered, Assembled(Filled(n), p))
        /\ packet' = EmptyPacket
        /\ rx_state' = "NEW"
        /\ nob_wanted' = HeaderLen
        /\ nob_left' = HeaderLen
        /\ \/ /\ done + HeaderLen <= BlockLen
              /\ KeepBlock(done, Filled(n), refs)
              /\ prev_packet_offset' = done
           \/ /\ done + HeaderLen > BlockLen
              /\ NextBlock(Filled(n), DecRef(refs, block))
        /\ PostRecv

-----------------------------------------------------------------------------
(* The peer, and the end of the connection *)

\* The bytes of a packet on the stream.
Extent(len) == IF len > HeaderLen THEN len ELSE HeaderLen

Send(len) ==
    /\ Running
    /\ Len(sent) < MaxPackets
    /\ sent' = Append(sent, [first |-> written + 1, len |-> len])
    /\ written' = written + Extent(len)
    /\ UNCHANGED <<rcvd, heap, conn, rx, delivered, closed, overrun>>

\* recv() returned 0, as it does when it is asked for nothing, or an error:
\* echo_conn_free drops the connection's reference to its block and frees the
\* packet being assembled, but not that packet's references to its blocks.
\* packet still says which they were.
Close ==
    /\ Running
    /\ closed' = TRUE
    /\ refcount' = DecRef(refcount, block)
    /\ block' = NoBlock
    /\ UNCHANGED <<peer, rcvd, mem, offset, prev_packet_offset, packet, rx, delivered,
                   overrun>>

Forward(n) == HeaderPart(n) \/ HeaderDone(n) \/ BodyPart(n) \/ PacketDone(n)

\* The connection as server_accept sets it up.
Init ==
    /\ sent = <<>> /\ written = 0 /\ rcvd = 0
    /\ block \in Blocks
    /\ mem = [b \in Blocks |-> [o \in Cells |-> 0]]
    /\ refcount = [b \in Blocks |-> IF b = block THEN 1 ELSE 0]
    /\ offset = 0 /\ prev_packet_offset = 0
    /\ packet = EmptyPacket
    /\ rx_state = "NEW"
    /\ nob_wanted = HeaderLen /\ nob_left = HeaderLen /\ rx_size = HeaderLen
    /\ delivered = <<>>
    /\ closed = FALSE /\ overrun = FALSE

Next ==
    \/ \E len \in Sizes : Send(len)
    \/ \E n \in 1 .. written - rcvd : Forward(n) \/ Overrun(n)
    \/ Close

\* The read event is persistent and level-triggered, and one event loops until
\* recv() says EAGAIN, so bytes that have arrived are received.
Spec ==
    /\ Init /\ [][Next]_vars
    /\ WF_vars(\E n \in 1 .. written - rcvd : Forward(n))

-----------------------------------------------------------------------------
(* Properties *)

\* Types and ranges. In particular offset stays inside the block.
TypeOK ==
    /\ sent \in Seq([first : Nat, len : Sizes])
    /\ written \in Nat /\ rcvd \in Nat
    /\ mem \in [Blocks -> [Cells -> Nat]]
    /\ refcount \in [Blocks -> Nat]
    /\ block \in Blocks \cup {NoBlock}
    /\ offset \in Cells /\ prev_packet_offset \in Cells
    /\ packet \in [blocks : Seq(Blocks), head : Cells, length : Nat, tail : Nat]
    /\ rx_state \in {"NEW", "READ_HEADER"}
    /\ nob_wanted \in Int /\ nob_left \in Int /\ rx_size \in Int
    /\ delivered \in Seq(Seq(Nat))
    /\ closed \in BOOLEAN /\ overrun \in BOOLEAN

\* The packet being received announced no more than its header (network.c:423
\* takes any int), so that nob_left is not positive.
Malformed == rx_state = "READ_HEADER" /\ nob_wanted <= HeaderLen

\* While the connection is open, the next recv() writes a non-empty window that
\* lies inside one allocated block, and a header never straddles two blocks, so
\* that the length is read from received bytes. The one exception is a packet
\* that announces no more than its header: recv() is then asked for nothing,
\* which looks like the end of the stream, or is not bounded at all; and only
\* so does it ever write past a block.
RecvWindow ==
    /\ ~closed =>
        /\ block \in Blocks /\ refcount[block] > 0
        /\ rx_state = "NEW" => prev_packet_offset + HeaderLen <= BlockLen
        /\ IF Malformed
           THEN IF nob_wanted = HeaderLen THEN rx_size = 0 ELSE rx_size < 0
           ELSE 1 <= rx_size /\ offset + rx_size <= BlockLen
    /\ overrun => Malformed /\ nob_wanted < HeaderLen

\* A block's count is the number of its holders: the connection and the packet
\* being assembled. So no block is freed while it is still to be copied from,
\* and none is kept without a holder; after the connection is closed, what
\* stays allocated is exactly what the unfinished packet had collected.
RefcountExact ==
    \A b \in Blocks :
        refcount[b] = (IF b = block THEN 1 ELSE 0) + Holds(packet, b)

\* The packets handed over are the packets written (PacketStream), through
\* every way of cutting the stream into recv()s.
Stream == INSTANCE PacketStream
PacketsInOrder == Stream!Safety

\* Every packet the peer has written in full is handed over unless the
\* connection ends, or a packet up to it announced no more than its header.
AllDelivered ==
    \A k \in 1 .. MaxPackets :
        (/\ Len(sent) >= k
         /\ \A j \in 1 .. k : sent[j].len > HeaderLen)
            ~> (Len(delivered) >= k \/ closed)
=============================================================================

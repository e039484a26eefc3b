---------------------------- MODULE PacketStream ----------------------------
(***************************************************************************)
(* What the receive side of a connection promises to the thread pool and   *)
(* the plugins: the peer writes length-prefixed packets on a byte stream,  *)
(* and the packets handed over are exactly those packets, whole, once      *)
(* each, in the order written, however the stream was cut into recv()s.    *)
(*                                                                         *)
(* The length is the one a packet announces. One that announces no more     *)
(* than its header is never handed over, and nothing behind it is.         *)
(*                                                                         *)
(* Stream bytes are numbered 1, 2, ...; a packet is [first, len], and its  *)
(* contents are the numbers of its bytes.                                  *)
(***************************************************************************)
EXTENDS Integers, Sequences

CONSTANTS HeaderLen,   \* bytes of the length prefix
          Sizes,       \* lengths a packet may announce, the header included
          MaxPackets   \* bound: packets written on the connection

VARIABLES sent,        \* packets the peer has written, in order
          written,     \* bytes the peer has written
          delivered,   \* packets handed over, each a sequence of bytes
          closed       \* the connection is gone

vars == <<sent, written, delivered, closed>>

\* The bytes of one packet.
Bytes(s) == [i \in 1 .. s.len |-> s.first + i - 1]

Init ==
    /\ sent = <<>>
    /\ written = 0
    /\ delivered = <<>>
    /\ closed = FALSE

\* The bytes a packet takes on the stream.
Extent(len) == IF len > HeaderLen THEN len ELSE HeaderLen

\* The peer writes one more packet.
Send(len) ==
    /\ ~closed
    /\ Len(sent) < MaxPackets
    /\ sent' = Append(sent, [first |-> written + 1, len |-> len])
    /\ written' = written + Extent(len)
    /\ UNCHANGED <<delivered, closed>>

\* The oldest packet not yet handed over is handed over whole.
Deliver ==
    /\ ~closed
    /\ Len(delivered) < Len(sent)
    /\ sent[Len(delivered) + 1].len > HeaderLen
    /\ delivered' = Append(delivered, Bytes(sent[Len(delivered) + 1]))
    /\ UNCHANGED <<sent, written, closed>>

\* The peer hangs up or the connection fails; what was not handed over is lost.
Close ==
    /\ ~closed
    /\ closed' = TRUE
    /\ UNCHANGED <<sent, written, delivered>>

Next == (\E len \in Sizes : Send(len)) \/ Deliver \/ Close

\* What may be handed over and when; that it is handed over at all is stated
\* by AllDelivered of EchoReceive.
Safety == Init /\ [][Next]_vars
=============================================================================

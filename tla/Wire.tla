-------------------------------- MODULE Wire --------------------------------
(***************************************************************************)
(* Packets between a server and the clients that are built with the same   *)
(* ProtocolPack: PackStream, SendFull on one descriptor by several workers *)
(* (nothing keeps them apart), and UnpackStream of what the other end      *)
(* takes off the stream packet by packet. The descriptor does not block:   *)
(* send() takes what there is room for, or nothing.                        *)
(*                                                                         *)
(* A packet is its operate code, the length of its text and the number of  *)
(* entries of its list: where each member is written and read depends on   *)
(* nothing else.                                                           *)
(***************************************************************************)
EXTENDS PacketLayout

CONSTANTS Workers,
          TextLengths,  \* lengths of a text
          EntryCounts,  \* lengths of a list
          MaxPackets,   \* bound: packets sent
          MaxShort      \* bound: sends that take less than they were given

ASSUME WireAssumption ==
    /\ TextLengths \subseteq Nat /\ EntryCounts \subseteq Nat
    /\ MaxPackets \in Nat /\ MaxShort \in Nat

Chat  == INSTANCE ChatLayout
Robot == INSTANCE RobotLayout

Layout ==
    [chat  |-> [written |-> Chat!Written, text |-> Chat!Text, entry |-> Chat!EntryWritten,
                size |-> Chat!Size, entry_size |-> Chat!EntrySize,
                read |-> Chat!ReadFields, entry_read |-> Chat!EntryRead,
                text_takes |-> Chat!TextTakes, list_takes |-> Chat!ListTakes],
     robot |-> [written |-> Robot!Written, text |-> Robot!Text, entry |-> Robot!EntryWritten,
                size |-> Robot!Size, entry_size |-> Robot!EntrySize,
                read |-> Robot!ReadFields, entry_read |-> Robot!EntryRead,
                text_takes |-> Robot!TextTakes, list_takes |-> Robot!ListTakes]]

HasText(p) == p.code \in DOMAIN Layout[p.server].text
HasList(p) == p.code \in DOMAIN Layout[p.server].entry

\* A failed log-in always says why (migchat_strerror).
Packets(server) ==
    {p \in [server : {server}, code : DOMAIN Layout[server].size,
            text : TextLengths \cup {0}, entries : EntryCounts \cup {0}] :
        /\ IF HasText(p) THEN p.text \in TextLengths ELSE p.text = 0
        /\ IF HasList(p) THEN p.entries \in EntryCounts ELSE p.entries = 0
        /\ p.code = "USER_LOGIN_FAILED" => p.text > 0}

-----------------------------------------------------------------------------
(* PackStream and UnpackStream *)

WrittenFields(p) ==
    PacketHead \o Layout[p.server].written[p.code]
    \o (IF HasText(p) THEN Data(Layout[p.server].text[p.code], p.text) ELSE <<>>)
    \o (IF HasList(p) THEN Entries(Layout[p.server].entry[p.code], p.entries) ELSE <<>>)

\* The argument of BUILDHEAD.
DataLength(p) ==
    Layout[p.server].size[p.code] + p.text
    + (IF HasList(p) THEN p.entries * Layout[p.server].entry_size[p.code] ELSE 0)

PacketLength(p) == PACKET_HEAD_LENGTH + DataLength(p)

\* From the code and the data_length of the head.
FieldsRead(server, code, data_length) ==
    LET layout == Layout[server]
    IN  PacketHead \o layout.read[code]
        \o (IF code \in DOMAIN layout.text
            THEN Data(layout.text[code], data_length - layout.text_takes[code]) ELSE <<>>)
        \o (IF code \in DOMAIN layout.entry
            THEN Entries(layout.entry_read[code],
                         (data_length - layout.list_takes[code]) \div layout.entry_size[code])
            ELSE <<>>)

PackStream(p) == Write(WrittenFields(p)).extents

UnpackStream(p) == Read(FieldsRead(p.server, p.code, DataLength(p)), PacketLength(p)).extents

-----------------------------------------------------------------------------

VARIABLES server,     \* "chat" or "robot"
          sent,       \* the packets, in the order their sends began
          sending,    \* by worker the number of its packet, 0 if it has none,
                      \* and the bytes of it that were taken
          stream,     \* pieces of packets, in the order they were taken
          unpacked,   \* the last packet unpacked and the members read
          lost,       \* the other end no longer knows where a packet begins
          shorts,     \* sends that took less than they were given
          refused,    \* history: a send took nothing
          overlapped  \* history: a send was short while another worker's packet
                      \* was not all sent, or a packet begun after one that was

vars == <<server, sent, sending, stream, unpacked, lost, shorts, refused, overlapped>>

NoPacket == [id |-> 0, from |-> 0]

\* PackStream, and SendFull begins.
SendMessage(w, p) ==
    /\ sending[w] = NoPacket
    /\ Len(sent) < MaxPackets
    /\ sent' = Append(sent, p)
    /\ sending' = [sending EXCEPT ![w] = [id |-> Len(sent'), from |-> 0]]
    /\ overlapped' = (overlapped \/ \E v \in Workers : sending[v].from > 0)
    /\ UNCHANGED <<server, stream, unpacked, lost, shorts, refused>>

\* Fault: the length is not reduced by what was taken.
LeftFault(w) == PacketLength(sent[sending[w].id])

Left(w) == PacketLength(sent[sending[w].id]) - sending[w].from

\* send() takes n bytes of what is left. A piece that goes on where the last
\* one ended makes one with it.
Accept(w, n) ==
    LET piece == [id |-> sending[w].id, from |-> sending[w].from,
                  to |-> sending[w].from + n]
    IN  stream' =
          IF stream # <<>> /\ Last(stream).id = piece.id /\ Last(stream).to = piece.from
          THEN [stream EXCEPT ![Len(stream)].to = piece.to]
          ELSE Append(stream, piece)

SendAll(w) ==
    /\ sending[w] # NoPacket
    /\ Accept(w, Left(w))
    /\ sending' = [sending EXCEPT ![w] = NoPacket]
    /\ UNCHANGED <<server, sent, unpacked, lost, shorts, refused, overlapped>>

\* Fault: what was not taken is not sent.
SendShortFault(w) ==
    /\ sending[w] # NoPacket
    /\ Left(w) > 1 /\ shorts < MaxShort
    /\ Accept(w, Left(w) \div 2)
    /\ sending' = [sending EXCEPT ![w] = NoPacket]
    /\ shorts' = shorts + 1
    /\ overlapped' = (overlapped \/ \E v \in Workers \ {w} : sending[v] # NoPacket)
    /\ UNCHANGED <<server, sent, unpacked, lost, refused>>

\* The loop goes on with what was not taken.
SendShort(w) ==
    /\ sending[w] # NoPacket
    /\ Left(w) > 1 /\ shorts < MaxShort
    /\ Accept(w, Left(w) \div 2)
    /\ sending' = [sending EXCEPT ![w].from = @ + Left(w) \div 2]
    /\ shorts' = shorts + 1
    /\ overlapped' = (overlapped \/ \E v \in Workers \ {w} : sending[v] # NoPacket)
    /\ UNCHANGED <<server, sent, unpacked, lost, refused>>

\* No room: send() returns -1 and SendFull gives up, wherever it is.
SendRefused(w) ==
    /\ sending[w] # NoPacket
    /\ shorts < MaxShort
    /\ sending' = [sending EXCEPT ![w] = NoPacket]
    /\ shorts' = shorts + 1
    /\ refused' = TRUE
    /\ UNCHANGED <<server, sent, stream, unpacked, lost, overlapped>>

-----------------------------------------------------------------------------
(* The other end *)

\* The stream begins with all of a packet, and no other.
WholePacket ==
    /\ stream # <<>>
    /\ Head(stream).from = 0
    /\ Head(stream).to = PacketLength(sent[Head(stream).id])

Receive ==
    /\ ~lost /\ WholePacket
    /\ unpacked' = [id |-> Head(stream).id, members |-> UnpackStream(sent[Head(stream).id])]
    /\ stream' = Tail(stream)
    /\ UNCHANGED <<server, sent, sending, lost, shorts, refused, overlapped>>

\* A piece of a packet and something else behind it: from here on packets are
\* cut at the wrong places.
Lose ==
    /\ ~lost /\ ~WholePacket /\ Len(stream) > 1
    /\ lost' = TRUE
    /\ UNCHANGED <<server, sent, sending, stream, unpacked, shorts, refused, overlapped>>

-----------------------------------------------------------------------------

Init ==
    /\ server \in {"chat", "robot"}
    /\ sent = <<>> /\ stream = <<>>
    /\ sending = [w \in Workers |-> NoPacket]
    /\ unpacked = [id |-> 0, members |-> {}]
    /\ lost = FALSE /\ shorts = 0 /\ refused = FALSE /\ overlapped = FALSE

Next ==
    \/ \E w \in Workers :
         \/ \E p \in Packets(server) : SendMessage(w, p)
         \/ SendAll(w) \/ SendShort(w) \/ SendRefused(w)
    \/ Receive \/ Lose

Spec == Init /\ [][Next]_vars

-----------------------------------------------------------------------------
(* Properties *)

TypeOK ==
    /\ server \in {"chat", "robot"}
    /\ Len(sent) \in 0 .. MaxPackets
    /\ \A i \in DOMAIN sent : sent[i] \in Packets(server)
    /\ \A w \in Workers :
         /\ sending[w].id \in 0 .. Len(sent)
         /\ sending[w].id # 0 => sending[w].from \in 0 .. PacketLength(sent[sending[w].id]) - 1
    /\ \A i \in DOMAIN stream :
         /\ stream[i].id \in DOMAIN sent
         /\ 0 <= stream[i].from /\ stream[i].from < stream[i].to
         /\ stream[i].to <= PacketLength(sent[stream[i].id])
    /\ unpacked.id \in 0 .. Len(sent)
    /\ shorts \in 0 .. MaxShort
    /\ {lost, refused, overlapped} \subseteq BOOLEAN

\* The members that are read from other bytes than they were written to.
Misread ==
    LET p      == sent[unpacked.id]
        wanted == PackStream(p)
    IN  {<<f.member, f.nth>> : f \in (wanted \ unpacked.members) \cup (unpacked.members \ wanted)}

\* The exceptions of RoundTrip. The reason of a failed log-in and the text of a
\* private message are taken 8 bytes too long, past the end of the packet. The
\* song a robot gives is read into robot_id. The song an assistant gives is read
\* as one byte, and the position of a robot as two numbers of 4 bytes where 8
\* were written, so that of their lists only the first uid is right.
MisreadMembers(p) ==
    CASE p.code = "USER_LOGIN_FAILED"              -> {<<"error_msg", 0>>}
      [] p.code = "TEXT_CHAT_PRIVATE_RECV"         -> {<<"content", 0>>}
      [] p.code = "NOTICE_USER_ROBOT_HANDSEL_SONG" -> {<<"robot_id", 0>>, <<"song_id", 0>>}
      [] p.code = "NOTICE_USER_ROBOT_LOGIN" ->
           ({"uid", "latitude", "longitude", "nickname"} \X (1 .. p.entries)) \ {<<"uid", 1>>}
      [] p.code = "NOTICE_ASSISTANT_HANDSEL_SONG" ->
           ({"uid", "songid", "message"} \X (1 .. p.entries)) \ {<<"uid", 1>>}
      [] OTHER -> {}

\* Every member is read from the bytes it was written to, every entry of a list
\* and all of a text, although their lengths are found by arithmetic on
\* data_length that does not follow the layout; but for the members above.
RoundTrip == unpacked.id # 0 => Misread = MisreadMembers(sent[unpacked.id])

\* data_length counts exactly the bytes that are written: nothing is cut off and
\* no byte of the packet is left as malloc() gave it, except behind the position
\* of a user that logs in, which is written as 8 bytes and counted as 16.
PacketsFilled ==
    \A i \in DOMAIN sent :
        PacketLength(sent[i]) - Width(WrittenFields(sent[i]))
            = IF sent[i].code = "NOTICE_USER_LOGIN" THEN 8 ELSE 0

\* The workers of the pool write to one descriptor without a lock, so its stream
\* is whole packets one after another only if the kernel takes each at once: the
\* other end is lost only after a send that took nothing, or one that was short
\* while another worker was sending. Short sends alone do no harm.
LostOnlyIfMixed == lost => refused \/ overlapped
=============================================================================

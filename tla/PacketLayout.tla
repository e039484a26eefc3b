---------------------------- MODULE PacketLayout ----------------------------
(***************************************************************************)
(* Packets as ProtocolPack::PackStream writes them and UnpackStream reads  *)
(* them: members one after another behind a head of 31 bytes, through the  *)
(* cursors of DataOutPacket and DataInPacket. A field is a member of the   *)
(* packet, or of the nth entry of its list, with its width in bytes; data  *)
(* fields are copied by ReadData, which does not look how much is left.    *)
(* What a member is worth is the bytes of the packet it was read from.     *)
(***************************************************************************)
EXTENDS Integers, SequencesExt

TOKEN_LEN    == 32
NICKNAME_LEN == 48

Fields(members, width) ==
    [i \in DOMAIN members |->
        [member |-> members[i], nth |-> 0, width |-> width, data |-> FALSE]]

Int8s(members)  == Fields(members, 1)
Int16s(members) == Fields(members, 2)
Int32s(members) == Fields(members, 4)
Int64s(members) == Fields(members, 8)

Data(member, width) ==
    <<[member |-> member, nth |-> 0, width |-> width, data |-> TRUE]>>

\* The layouts of two groups of packets, by operate code.
Either(these, those) ==
    [code \in DOMAIN these \cup DOMAIN those |->
        IF code \in DOMAIN these THEN these[code] ELSE those[code]]

\* The fields of n entries of a list.
Entries(fields, n) ==
    FlattenSeq([i \in 1 .. n |->
        [k \in DOMAIN fields |-> [fields[k] EXCEPT !.nth = i]]])

Width(fields) == FoldLeft(LAMBDA n, field : n + field.width, 0, fields)

PacketHead ==
    Int32s(<<"packet_length", "operate_code", "data_length", "current_time">>)
    \o Int16s(<<"msg_type">>) \o Int8s(<<"is_zip">>) \o Int64s(<<"msg_id">>)
    \o Int32s(<<"reserverd">>)

PACKET_HEAD_LENGTH == 5 * 4 + 2 + 1 + 8

\* The bytes of the packet that a field takes. They are nowhere if there are
\* none, or if they were not read from the packet.
Nowhere(field) ==
    [member |-> field.member, nth |-> field.nth, from |-> -1, width |-> field.width]

Extent(field, from) ==
    IF field.width = 0 THEN Nowhere(field) ELSE [Nowhere(field) EXCEPT !.from = from]

-----------------------------------------------------------------------------
(* The cursor of DataOutPacket *)

WriteField(out, field) ==
    [cursor |-> out.cursor + field.width,
     extents |-> out.extents \cup {Extent(field, out.cursor)}]

Write(fields) == FoldLeft(WriteField, [cursor |-> 0, extents |-> {}], fields)

-----------------------------------------------------------------------------
(* The cursor of DataInPacket over length bytes *)

\* A number is 0, and the cursor stays, if it is not all there; the comparison
\* is unsigned, so behind the end everything seems to be there.
ReadNumber(in, field, length) ==
    LET left == length - in.cursor
    IN  IF left \in 0 .. field.width - 1
        THEN [in EXCEPT !.extents = @ \cup {Nowhere(field)}]
        ELSE [cursor |-> in.cursor + field.width,
              extents |-> in.extents \cup {Extent(field, in.cursor)}]

\* ReadData gives NULL when nothing is left, and all that is asked otherwise.
ReadData(in, field, length) ==
    IF length = in.cursor
    THEN [in EXCEPT !.extents = @ \cup {Nowhere(field)}]
    ELSE [cursor |-> in.cursor + field.width,
          extents |-> in.extents \cup {Extent(field, in.cursor)}]

Read(fields, length) ==
    FoldLeft(LAMBDA in, field : IF field.data THEN ReadData(in, field, length)
                                ELSE ReadNumber(in, field, length),
             [cursor |-> 0, extents |-> {}], fields)
=============================================================================

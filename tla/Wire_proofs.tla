----------------------------- MODULE Wire_proofs -----------------------------
(***************************************************************************)
(* Theorems about Wire, for any number of workers, packets and short       *)
(* sends, and any lengths of texts and lists: the stream holds pieces of   *)
(* the packets sent, the other end is lost only after a send that took     *)
(* nothing or one that overlapped another, data_length counts what         *)
(* PackStream writes, and UnpackStream reads every member from the bytes   *)
(* it was written to. Where the code does not, the theorems say of which   *)
(* packets and of which of their members.                                  *)
(*                                                                         *)
(* That the other end is not lost says nothing of the stream it has not    *)
(* read yet. Orderly does: while no send was refused and none overlapped   *)
(* another, at most one packet is partly taken, all pieces are whole       *)
(* packets but the last, and the last is what was taken of that packet, so *)
(* that the next bytes of it go on where they ended.                       *)
(*                                                                         *)
(* What PackStream writes and UnpackStream reads are folds along the       *)
(* fields of a packet. Their equations are proved first, by induction on   *)
(* the number of fields (NatBySet), then where each field lies (WrittenAt, *)
(* ReadPlaced), and then, packet by packet, that both lay out the same     *)
(* members at the same bytes.                                              *)
(***************************************************************************)
EXTENDS Wire, WellFoundedInduction, TLAPS

-----------------------------------------------------------------------------
(* Numbers *)

\* Induction, as a fact about sets of numbers: a set that is not all of Nat has a
\* least number outside it.
LEMMA NatBySet ==
    ASSUME NEW S, 0 \in S, \A n \in Nat : n \in S => n + 1 \in S
    PROVE  Nat \subseteq S
<1> DEFINE R == OpToRel(<, Nat)
           T == {n \in Nat : n \notin S}
<1>1. SUFFICES ASSUME T # {} PROVE FALSE
  BY DEF T
<1>2. PICK x \in T : \A y \in T : ~(<<y, x>> \in R)
  <2>1. IsWellFoundedOn(R, Nat)
    BY NatLessThanWellFounded
  <2>2. T \subseteq Nat
    OBVIOUS
  <2> HIDE DEF T, R
  <2> QED
    BY <1>1, <2>1, <2>2, WFMin
<1>3. x # 0 /\ x \in Nat /\ x \notin S
  OBVIOUS
<1>4. x - 1 \in Nat /\ x - 1 + 1 = x
  BY <1>3
<1>5. x - 1 \in T
  BY <1>3, <1>4
<1>6. <<x - 1, x>> \in R
  BY <1>3, <1>4 DEF OpToRel
<1> QED
  BY <1>2, <1>5, <1>6

\* The members of packets and of entries.
MemberNames ==
    {"packet_length", "operate_code", "data_length", "current_time",
     "msg_type", "is_zip", "msg_id", "reserverd", "platform_id", "user_id",
     "net_type", "user_type", "device", "token", "nick_number", "nickname",
     "head_url", "session", "oppostion_id", "type", "send_user_id",
     "recv_user_id", "session_id", "private_msg_id", "oppo_id",
     "oppo_nick_number", "oppo_type", "oppo_nickname", "oppo_user_head",
     "group_id", "user_nicknumber", "user_head", "multi_id", "send_nickname",
     "multi_type", "error_msg", "content", "sound_path", "uid", "latitude",
     "longitude", "songid", "type_id", "robot_id", "song_id", "typid", "mode",
     "name", "singer", "assistant_id", "share_plat", "prize", "machine_id",
     "message"}

\* A field: the member, the entry of a list it belongs to, its bytes, and whether it
\* is written as they are (WriteData) or as a number.
Field == [member : MemberNames, nth : Nat, width : Nat, data : BOOLEAN]

\* The greatest of some numbers up to n + 1, and what is left without it.
LEMMA MaxTaken ==
    ASSUME NEW n \in Nat, NEW s \in SUBSET (1 .. n + 1), s # {}
    PROVE  /\ s \ {Max(s)} \in SUBSET (1 .. n)
           /\ s \notin SUBSET (1 .. n) => Max(s) = n + 1
<1>1. CASE n + 1 \in s
  <2>1. Max(s) = n + 1
    <3>1. \A y \in s : n + 1 >= y
      OBVIOUS
    <3>2. \A x \in s : (\A y \in s : x >= y) => x = n + 1
      BY <1>1
    <3> QED
      BY <1>1, <3>1, <3>2 DEF Max
  <2> QED
    BY <2>1
<1>2. CASE n + 1 \notin s
  <2>1. \A x \in s : x \in 1 .. n
    BY <1>2
  <2>2. \A x \in s \ {Max(s)} : x \in 1 .. n
    BY <2>1
  <2> QED
    BY <2>1, <2>2
<1> QED
  BY <1>1, <1>2

\* The numbers up to k.
LEMMA MaxUpTo ==
    ASSUME NEW k \in Nat, k > 0
    PROVE  Max(1 .. k) = k /\ (1 .. k) \ {Max(1 .. k)} = 1 .. k - 1 /\ 1 .. k # {}
<1>1. \A y \in 1 .. k : k >= y
  OBVIOUS
<1>2. \A x \in 1 .. k : (\A y \in 1 .. k : x >= y) => x = k
  OBVIOUS
<1>3. k \in 1 .. k
  OBVIOUS
<1> HIDE DEF Max
<1>4. Max(1 .. k) = k
  BY <1>1, <1>2, <1>3 DEF Max
<1> QED
  BY <1>3, <1>4

-----------------------------------------------------------------------------
(* Folds along the fields *)

\* The three folds of PacketLayout: what they begin with, and one field more.
Start(fold) == IF fold = "width" THEN 0 ELSE [cursor |-> 0, extents |-> {}]

\* One field more.
Step(fold, length, x, field) ==
    IF fold = "width" THEN x + field.width
    ELSE IF fold = "write" THEN WriteField(x, field)
    ELSE IF field.data THEN ReadData(x, field, length) ELSE ReadNumber(x, field, length)

\* A fold takes sets of indices, the greatest of them last.
FoldStep(fold, length, q, g, s) ==
    IF s = {} THEN Start(fold) ELSE Step(fold, length, g[s \ {Max(s)}], q[Max(s)])

\* g folds the fields whose indices are up to n.
Folds(fold, length, q, g, n) ==
    g = [s \in SUBSET (1 .. n) |-> FoldStep(fold, length, q, g, s)]

\* The fold of all fields, as the library defines it.
FoldOf(fold, length, q) ==
    CHOOSE g : g = [s \in SUBSET (DOMAIN q) |-> FoldStep(fold, length, q, g, s)]

\* The fold of the first k fields.
FoldTo(fold, length, q, k) == FoldOf(fold, length, q)[1 .. k]

\* The operators of PacketLayout are these folds.
LEMMA FoldsAre ==
    ASSUME NEW q, NEW length
    PROVE  /\ Width(q) = FoldOf("width", 0, q)[DOMAIN q]
           /\ Write(q) = FoldOf("write", 0, q)[DOMAIN q]
           /\ Read(q, length) = FoldOf("read", length, q)[DOMAIN q]
<1>1. Width(q) = FoldOf("width", 0, q)[DOMAIN q]
  BY DEF Width, FoldLeft, MapThenFoldSet, FoldOf, FoldStep, Start, Step
<1>2. Write(q) = FoldOf("write", 0, q)[DOMAIN q]
  BY DEF Write, FoldLeft, MapThenFoldSet, FoldOf, FoldStep, Start, Step
<1>3. Read(q, length) = FoldOf("read", length, q)[DOMAIN q]
  BY DEF Read, FoldLeft, MapThenFoldSet, FoldOf, FoldStep, Start, Step
<1> QED
  BY <1>1, <1>2, <1>3

\* The equation that defines a fold has a solution, found number by number.
LEMMA FoldExists ==
    ASSUME NEW fold, NEW length, NEW q
    PROVE  \A n \in Nat : \E g : Folds(fold, length, q, g, n)
<1> DEFINE S == {n \in Nat : \E g : Folds(fold, length, q, g, n)}
<1>1. 0 \in S
  <2> DEFINE g == [s \in SUBSET (1 .. 0) |-> Start(fold)]
  <2>1. \A s \in SUBSET (1 .. 0) : s = {}
    OBVIOUS
  <2>2. Folds(fold, length, q, g, 0)
    BY <2>1 DEF FoldStep, Folds
  <2> QED
    BY <2>2
<1>2. ASSUME NEW n \in Nat, n \in S PROVE n + 1 \in S
  <2>1. PICK f : Folds(fold, length, q, f, n)
    BY <1>2
  <2> DEFINE g == [s \in SUBSET (1 .. n + 1) |->
                     IF s \in SUBSET (1 .. n) THEN f[s]
                     ELSE Step(fold, length, f[s \ {n + 1}], q[n + 1])]
  <2>2. ASSUME NEW s \in SUBSET (1 .. n + 1) PROVE g[s] = FoldStep(fold, length, q, g, s)
    <3>0. 1 .. n \subseteq 1 .. n + 1
      OBVIOUS
    <3>1. CASE s = {}
      <4>1. g[s] = f[s] /\ f[s] = FoldStep(fold, length, q, f, s)
        BY <2>1, <3>1 DEF Folds
      <4> QED
        BY <3>1, <4>1 DEF FoldStep
    <3>2. CASE s # {}
      <4>1. /\ s \ {Max(s)} \in SUBSET (1 .. n)
            /\ s \notin SUBSET (1 .. n) => Max(s) = n + 1
        BY <3>2, MaxTaken
      <4>2. g[s \ {Max(s)}] = f[s \ {Max(s)}]
        BY <3>0, <4>1
      <4>3. CASE s \in SUBSET (1 .. n)
        <5>1. f[s] = FoldStep(fold, length, q, f, s)
          BY <2>1, <4>3 DEF Folds
        <5> QED
          BY <3>2, <4>2, <4>3, <5>1 DEF FoldStep
      <4>4. CASE s \notin SUBSET (1 .. n)
        BY <3>2, <4>1, <4>2, <4>4 DEF FoldStep
      <4> QED
        BY <4>3, <4>4
    <3> QED
      BY <3>1, <3>2
  <2>3. g = [s \in SUBSET (1 .. n + 1) |-> g[s]]
    OBVIOUS
  <2>4. Folds(fold, length, q, g, n + 1)
    <3> HIDE DEF g
    <3> QED
      BY <2>2, <2>3 DEF Folds
  <2> HIDE DEF g
  <2> QED
    BY <2>4
<1>3. Nat \subseteq S
  <2> HIDE DEF S
  <2> QED
    BY <1>1, <1>2, NatBySet
<1> QED
  BY <1>3

\* So a fold takes the fields one after another.
LEMMA FoldSteps ==
    ASSUME NEW fold, NEW length, NEW F, NEW q \in Seq(F)
    PROVE  /\ FoldTo(fold, length, q, 0) = Start(fold)
           /\ \A k \in 1 .. Len(q) :
                FoldTo(fold, length, q, k)
                  = Step(fold, length, FoldTo(fold, length, q, k - 1), q[k])
           /\ FoldOf(fold, length, q)[DOMAIN q] = FoldTo(fold, length, q, Len(q))
<1> DEFINE g == FoldOf(fold, length, q)
<1>1. DOMAIN q = 1 .. Len(q) /\ Len(q) \in Nat
  OBVIOUS
<1>2. \E h : h = [s \in SUBSET (DOMAIN q) |-> FoldStep(fold, length, q, h, s)]
  <2>1. Len(q) \in Nat
    BY <1>1
  <2>2. PICK h : Folds(fold, length, q, h, Len(q))
    BY <2>1, FoldExists, Zenon
  <2> QED
    BY <1>1, <2>2 DEF Folds
<1>3. g = [s \in SUBSET (DOMAIN q) |-> FoldStep(fold, length, q, g, s)]
  BY <1>2 DEF FoldOf
<1> HIDE DEF g
<1>4. \A s \in SUBSET (DOMAIN q) : g[s] = FoldStep(fold, length, q, g, s)
  BY <1>3
<1>5. g[1 .. 0] = Start(fold)
  <2>1. 1 .. 0 = {} /\ 1 .. 0 \in SUBSET (DOMAIN q)
    OBVIOUS
  <2> QED
    BY <1>4, <2>1, Zenon DEF FoldStep
<1>6. ASSUME NEW k \in 1 .. Len(q)
      PROVE  g[1 .. k] = Step(fold, length, g[1 .. k - 1], q[k])
  <2>1. k \in Nat /\ k > 0 /\ 1 .. k \in SUBSET (DOMAIN q)
    BY <1>1
  <2>2. g[1 .. k] = FoldStep(fold, length, q, g, 1 .. k)
    BY <1>4, <2>1
  <2> QED
    BY <2>1, <2>2, MaxUpTo DEF FoldStep
<1> QED
  BY <1>1, <1>5, <1>6 DEF FoldTo, g

-----------------------------------------------------------------------------
(* Widths *)

\* The bytes of the first k fields.
WidthTo(q, k) == FoldTo("width", 0, q, k)

\* Widths of beginnings add up.
LEMMA Widths ==
    ASSUME NEW q \in Seq(Field)
    PROVE  /\ WidthTo(q, 0) = 0 /\ Width(q) = WidthTo(q, Len(q))
           /\ \A k \in 1 .. Len(q) : WidthTo(q, k) = WidthTo(q, k - 1) + q[k].width
           /\ \A k \in 0 .. Len(q) : WidthTo(q, k) \in Nat
           /\ Width(q) \in Nat
<1>1. /\ WidthTo(q, 0) = 0 /\ Width(q) = WidthTo(q, Len(q))
      /\ \A k \in 1 .. Len(q) : WidthTo(q, k) = WidthTo(q, k - 1) + q[k].width
  <2>1. /\ FoldTo("width", 0, q, 0) = Start("width")
        /\ \A k \in 1 .. Len(q) :
             FoldTo("width", 0, q, k) = Step("width", 0, FoldTo("width", 0, q, k - 1), q[k])
        /\ FoldOf("width", 0, q)[DOMAIN q] = FoldTo("width", 0, q, Len(q))
    BY FoldSteps, Zenon
  <2>2. Width(q) = FoldOf("width", 0, q)[DOMAIN q]
    BY FoldsAre, Zenon
  <2> QED
    BY <2>1, <2>2 DEF WidthTo, Start, Step
<1>2. \A k \in 0 .. Len(q) : WidthTo(q, k) \in Nat
  <2> DEFINE S == {k \in Nat : k <= Len(q) => WidthTo(q, k) \in Nat}
  <2>1. 0 \in S
    BY <1>1
  <2>2. ASSUME NEW k \in Nat, k \in S PROVE k + 1 \in S
    <3>1. ASSUME k + 1 <= Len(q) PROVE WidthTo(q, k + 1) \in Nat
      <4>1. k + 1 \in 1 .. Len(q) /\ k + 1 - 1 = k /\ WidthTo(q, k) \in Nat
        BY <2>2, <3>1
      <4>2. q[k + 1] \in Field
        BY <4>1
      <4> QED
        BY <1>1, <4>1, <4>2 DEF Field
    <3> QED
      BY <3>1
  <2>3. Nat \subseteq S
    <3> HIDE DEF S
    <3> QED
      BY <2>1, <2>2, NatBySet
  <2> QED
    BY <2>3
<1> QED
  BY <1>1, <1>2

\* The widths of a sequence are those of its beginnings, whatever follows.
LEMMA WidthsOfBoth ==
    ASSUME NEW q \in Seq(Field), NEW r \in Seq(Field)
    PROVE  /\ \A k \in 0 .. Len(q) : WidthTo(q \o r, k) = WidthTo(q, k)
           /\ \A k \in 0 .. Len(r) : WidthTo(q \o r, Len(q) + k) = Width(q) + WidthTo(r, k)
<1> DEFINE b == q \o r
<1>1. /\ b \in Seq(Field) /\ Len(b) = Len(q) + Len(r)
      /\ Len(q) \in Nat /\ Len(r) \in Nat
      /\ \A k \in 1 .. Len(q) : b[k] = q[k]
      /\ \A k \in 1 .. Len(r) : b[Len(q) + k] = r[k]
  OBVIOUS
<1> HIDE DEF b
<1>2. /\ WidthTo(q, 0) = 0 /\ Width(q) = WidthTo(q, Len(q)) /\ Width(q) \in Nat
      /\ \A k \in 1 .. Len(q) : WidthTo(q, k) = WidthTo(q, k - 1) + q[k].width
  BY Widths, Zenon
<1>3. /\ WidthTo(r, 0) = 0
      /\ \A k \in 1 .. Len(r) : WidthTo(r, k) = WidthTo(r, k - 1) + r[k].width
      /\ \A k \in 0 .. Len(r) : WidthTo(r, k) \in Nat
  BY Widths, Zenon
<1>4. /\ WidthTo(b, 0) = 0
      /\ \A k \in 1 .. Len(b) :
           WidthTo(b, k) = WidthTo(b, k - 1) + b[k].width
  BY <1>1, Widths, Zenon
<1>5. \A k \in 0 .. Len(q) : WidthTo(b, k) = WidthTo(q, k)
  <2> DEFINE S == {k \in Nat : k <= Len(q) => WidthTo(b, k) = WidthTo(q, k)}
  <2>1. 0 \in S
    BY <1>2, <1>4
  <2>2. ASSUME NEW k \in Nat, k \in S PROVE k + 1 \in S
    <3>1. ASSUME k + 1 <= Len(q) PROVE WidthTo(b, k + 1) = WidthTo(q, k + 1)
      <4>1. /\ k + 1 \in 1 .. Len(q) /\ k + 1 \in 1 .. Len(b)
            /\ k + 1 - 1 = k /\ WidthTo(b, k) = WidthTo(q, k)
        BY <1>1, <2>2, <3>1
      <4>2. /\ WidthTo(q, k + 1) = WidthTo(q, k) + q[k + 1].width
            /\ WidthTo(b, k + 1) = WidthTo(b, k) + b[k + 1].width
        BY <1>2, <1>4, <4>1
      <4> QED
        BY <1>1, <4>1, <4>2
    <3> QED
      BY <3>1
  <2>3. Nat \subseteq S
    <3> HIDE DEF S
    <3> QED
      BY <2>1, <2>2, NatBySet
  <2> QED
    BY <2>3
<1>6. \A k \in 0 .. Len(r) : WidthTo(b, Len(q) + k) = Width(q) + WidthTo(r, k)
  <2> DEFINE S == {k \in Nat : k <= Len(r) =>
                     WidthTo(b, Len(q) + k) = Width(q) + WidthTo(r, k)}
  <2>1. 0 \in S
    BY <1>1, <1>5, <1>2, <1>3
  <2>2. ASSUME NEW k \in Nat, k \in S PROVE k + 1 \in S
    <3>1. ASSUME k + 1 <= Len(r)
          PROVE  WidthTo(b, Len(q) + (k + 1)) = Width(q) + WidthTo(r, k + 1)
      <4>1. /\ k + 1 \in 1 .. Len(r) /\ Len(q) + (k + 1) \in 1 .. Len(b)
            /\ k + 1 - 1 = k /\ Len(q) + (k + 1) - 1 = Len(q) + k
            /\ WidthTo(b, Len(q) + k) = Width(q) + WidthTo(r, k)
        BY <1>1, <2>2, <3>1
      <4>2. /\ WidthTo(r, k + 1) = WidthTo(r, k) + r[k + 1].width
            /\ WidthTo(b, Len(q) + (k + 1))
                 = WidthTo(b, Len(q) + k) + b[Len(q) + (k + 1)].width
        BY <1>3, <1>4, <4>1
      <4>3. b[Len(q) + (k + 1)] = r[k + 1]
        BY <1>1, <4>1
      <4>4. r[k + 1].width \in Nat
        <5>1. r[k + 1] \in Field
          BY <4>1
        <5> QED
          BY <5>1 DEF Field
      <4>5. WidthTo(r, k) \in Nat /\ Width(q) \in Nat
        BY <1>2, <1>3, <3>1
      <4> QED
        BY <4>1, <4>2, <4>3, <4>4, <4>5
    <3> QED
      BY <3>1
  <2>3. Nat \subseteq S
    <3> HIDE DEF S
    <3> QED
      BY <2>1, <2>2, NatBySet
  <2> QED
    BY <2>3
<1> QED
  BY <1>5, <1>6 DEF b

\* The width of two lists is the sum.
LEMMA WidthOfBoth ==
    ASSUME NEW q \in Seq(Field), NEW r \in Seq(Field)
    PROVE  q \o r \in Seq(Field) /\ Width(q \o r) = Width(q) + Width(r)
<1>1. q \o r \in Seq(Field) /\ Len(q \o r) = Len(q) + Len(r) /\ Len(r) \in 0 .. Len(r)
  OBVIOUS
<1>2. Width(r) = WidthTo(r, Len(r)) /\ Width(q \o r) = WidthTo(q \o r, Len(q \o r))
  BY <1>1, Widths, Zenon
<1>3. WidthTo(q \o r, Len(q) + Len(r)) = Width(q) + WidthTo(r, Len(r))
  BY <1>1, WidthsOfBoth, Zenon
<1> QED
  BY <1>1, <1>2, <1>3

-----------------------------------------------------------------------------
(* Where fields are written and read *)

\* The first k fields one after another from the beginning.
Extents(q, k) == {Extent(q[j], WidthTo(q, j - 1)) : j \in 1 .. k}
Placed(q, k)  == [cursor |-> WidthTo(q, k), extents |-> Extents(q, k)]

\* One field more.
LEMMA PlacedNext ==
    ASSUME NEW q \in Seq(Field), NEW k \in Nat, k + 1 \in 1 .. Len(q)
    PROVE  /\ q[k + 1] \in Field /\ WidthTo(q, k) \in Nat
           /\ WidthTo(q, k + 1) = WidthTo(q, k) + q[k + 1].width
           /\ Extents(q, k + 1) = Extents(q, k) \cup {Extent(q[k + 1], WidthTo(q, k))}
<1>1. q[k + 1] \in Field /\ k \in 0 .. Len(q) /\ k + 1 - 1 = k
  OBVIOUS
<1>2. WidthTo(q, k) \in Nat
  BY <1>1, Widths, Zenon
<1>3. WidthTo(q, k + 1) = WidthTo(q, k) + q[k + 1].width
  <2>1. \A i \in 1 .. Len(q) : WidthTo(q, i) = WidthTo(q, i - 1) + q[i].width
    BY Widths, Zenon
  <2> QED
    BY <1>1, <2>1
<1>4. Extents(q, k + 1) = Extents(q, k) \cup {Extent(q[k + 1], WidthTo(q, k))}
  <2> DEFINE e(j) == Extent(q[j], WidthTo(q, j - 1))
  <2>1. 1 .. k + 1 = (1 .. k) \cup {k + 1}
    OBVIOUS
  <2>2. e(k + 1) = Extent(q[k + 1], WidthTo(q, k))
    BY <1>1
  <2>3. Extents(q, k + 1) = {e(j) : j \in 1 .. k + 1} /\ Extents(q, k) = {e(j) : j \in 1 .. k}
    BY DEF Extents
  <2> HIDE DEF e
  <2>4. {e(j) : j \in (1 .. k) \cup {k + 1}} = {e(j) : j \in 1 .. k} \cup {e(k + 1)}
    BY Zenon
  <2> QED
    BY <2>1, <2>2, <2>3, <2>4, Zenon
<1> QED
  BY <1>1, <1>2, <1>3, <1>4

\* PackStream puts each field behind those before it.
LEMMA WrittenPlaced ==
    ASSUME NEW q \in Seq(Field)
    PROVE  Write(q) = Placed(q, Len(q))
<1> DEFINE w(k) == FoldTo("write", 0, q, k)
           S == {k \in Nat : k <= Len(q) => w(k) = Placed(q, k)}
<1>1. /\ w(0) = [cursor |-> 0, extents |-> {}]
      /\ \A k \in 1 .. Len(q) : w(k) = WriteField(w(k - 1), q[k])
      /\ Write(q) = w(Len(q))
  <2>1. /\ FoldTo("write", 0, q, 0) = Start("write")
        /\ \A k \in 1 .. Len(q) :
             FoldTo("write", 0, q, k) = Step("write", 0, FoldTo("write", 0, q, k - 1), q[k])
        /\ FoldOf("write", 0, q)[DOMAIN q] = FoldTo("write", 0, q, Len(q))
    BY FoldSteps, Zenon
  <2>2. Write(q) = FoldOf("write", 0, q)[DOMAIN q]
    BY FoldsAre, Zenon
  <2>3. Start("write") = [cursor |-> 0, extents |-> {}]
    BY DEF Start
  <2>4. \A x, f : Step("write", 0, x, f) = WriteField(x, f)
    BY DEF Step
  <2> QED
    BY <2>1, <2>2, <2>3, <2>4
<1> HIDE DEF w
<1>2. 0 \in S
  <2>1. WidthTo(q, 0) = 0
    BY Widths, Zenon
  <2> QED
    BY <1>1, <2>1 DEF Placed, Extents
<1>3. ASSUME NEW k \in Nat, k \in S PROVE k + 1 \in S
  <2>1. ASSUME k + 1 <= Len(q) PROVE w(k + 1) = Placed(q, k + 1)
    <3>1. k + 1 \in 1 .. Len(q) /\ k + 1 - 1 = k /\ w(k) = Placed(q, k)
      BY <1>3, <2>1
    <3>2. w(k + 1) = WriteField(Placed(q, k), q[k + 1])
      BY <1>1, <3>1
    <3> QED
      BY <3>1, <3>2, PlacedNext DEF WriteField, Placed
  <2> QED
    BY <2>1
<1>4. Nat \subseteq S
  <2> HIDE DEF S
  <2> QED
    BY <1>2, <1>3, NatBySet
<1>5. Len(q) \in Nat
  OBVIOUS
<1> QED
  BY <1>1, <1>4, <1>5

\* A cursor that stays where it is.
LEMMA MoreExtents ==
    ASSUME NEW c, NEW e, NEW x, NEW in, in = [cursor |-> c, extents |-> e]
    PROVE  [in EXCEPT !.extents = @ \cup {x}] = [cursor |-> c, extents |-> e \cup {x}]
  OBVIOUS

\* ReadData with nothing left, and with something left.
LEMMA DataAt ==
    ASSUME NEW c, NEW e, NEW f, NEW length
    PROVE  ReadData([cursor |-> c, extents |-> e], f, length)
             = IF length = c THEN [cursor |-> c, extents |-> e \cup {Nowhere(f)}]
               ELSE [cursor |-> c + f.width, extents |-> e \cup {Extent(f, c)}]
<1> DEFINE in == [cursor |-> c, extents |-> e]
<1>1. in.cursor = c /\ in.extents = e
  OBVIOUS
<1>2. [in EXCEPT !.extents = @ \cup {Nowhere(f)}]
        = [cursor |-> c, extents |-> e \cup {Nowhere(f)}]
  BY MoreExtents
<1> HIDE DEF in
<1>3. ReadData(in, f, length)
        = IF length = c THEN [cursor |-> c, extents |-> e \cup {Nowhere(f)}]
          ELSE [cursor |-> c + f.width, extents |-> e \cup {Extent(f, c)}]
  BY <1>1, <1>2, Zenon DEF ReadData
<1> QED
  BY <1>3 DEF in

\* UnpackStream reads fields from where PackStream would write them, as long as
\* the packet is long enough.
LEMMA ReadPlaced ==
    ASSUME NEW q \in Seq(Field), NEW length \in Nat
    PROVE  /\ \A k \in 0 .. Len(q) : WidthTo(q, k) <= length =>
                FoldTo("read", length, q, k) = Placed(q, k)
           /\ Width(q) <= length => Read(q, length) = Write(q)
<1> DEFINE r(k) == FoldTo("read", length, q, k)
           S == {k \in Nat : k <= Len(q) /\ WidthTo(q, k) <= length => r(k) = Placed(q, k)}
<1>1. /\ r(0) = [cursor |-> 0, extents |-> {}]
      /\ \A k \in 1 .. Len(q) :
           r(k) = IF q[k].data THEN ReadData(r(k - 1), q[k], length)
                  ELSE ReadNumber(r(k - 1), q[k], length)
      /\ Read(q, length) = r(Len(q))
  <2>1. /\ FoldTo("read", length, q, 0) = Start("read")
        /\ \A k \in 1 .. Len(q) :
             FoldTo("read", length, q, k)
               = Step("read", length, FoldTo("read", length, q, k - 1), q[k])
        /\ FoldOf("read", length, q)[DOMAIN q] = FoldTo("read", length, q, Len(q))
    BY FoldSteps, Zenon
  <2>2. Read(q, length) = FoldOf("read", length, q)[DOMAIN q]
    BY FoldsAre, Zenon
  <2>3. Start("read") = [cursor |-> 0, extents |-> {}]
    BY DEF Start
  <2>4. \A x, f : Step("read", length, x, f) =
            IF f.data THEN ReadData(x, f, length) ELSE ReadNumber(x, f, length)
    BY DEF Step
  <2> QED
    BY <2>1, <2>2, <2>3, <2>4
<1> HIDE DEF r
<1>2. 0 \in S
  <2>1. WidthTo(q, 0) = 0
    BY Widths, Zenon
  <2> QED
    BY <1>1, <2>1 DEF Placed, Extents
<1>3. ASSUME NEW k \in Nat, k \in S PROVE k + 1 \in S
  <2>1. ASSUME k + 1 <= Len(q), WidthTo(q, k + 1) <= length
        PROVE  r(k + 1) = Placed(q, k + 1)
    <3> DEFINE f == q[k + 1]
               c == WidthTo(q, k)
    <3>1. k + 1 \in 1 .. Len(q) /\ k + 1 - 1 = k /\ k <= Len(q)
      BY <2>1
    <3>2. /\ f \in Field /\ c \in Nat /\ WidthTo(q, k + 1) = c + f.width
          /\ Extents(q, k + 1) = Extents(q, k) \cup {Extent(f, c)}
      BY <3>1, PlacedNext
    <3>3. r(k) = Placed(q, k)
      BY <1>3, <2>1, <3>1, <3>2 DEF Field
    <3>4. r(k + 1) = IF f.data THEN ReadData(Placed(q, k), f, length)
                     ELSE ReadNumber(Placed(q, k), f, length)
      BY <1>1, <3>1, <3>3
    <3>5. Placed(q, k) = [cursor |-> c, extents |-> Extents(q, k)]
      BY DEF Placed
    <3>6. Placed(q, k + 1)
            = [cursor |-> c + f.width, extents |-> Extents(q, k) \cup {Extent(f, c)}]
      BY <3>2 DEF Placed
    <3> HIDE DEF f, c
    <3>7. f.width \in Nat /\ c + f.width <= length
      BY <2>1, <3>2 DEF Field
    <3>8. CASE f.data
      <4>1. CASE length = c
        <5>1. f.width = 0
          BY <3>2, <3>7, <4>1
        <5>2. Extent(f, c) = Nowhere(f) /\ c + f.width = c
          BY <3>2, <5>1 DEF Extent
        <5>3. r(k + 1) = ReadData([cursor |-> c, extents |-> Extents(q, k)], f, length)
          BY <3>4, <3>5, <3>8, Zenon
        <5>4. ReadData([cursor |-> c, extents |-> Extents(q, k)], f, length)
                = IF length = c THEN [cursor |-> c, extents |-> Extents(q, k) \cup {Nowhere(f)}]
                  ELSE [cursor |-> c + f.width, extents |-> Extents(q, k) \cup {Extent(f, c)}]
          BY DataAt, Zenon
        <5>5. r(k + 1) = [cursor |-> c, extents |-> Extents(q, k) \cup {Nowhere(f)}]
          BY <4>1, <5>3, <5>4, Zenon
        <5> QED
          BY <3>6, <5>2, <5>5, Zenon
      <4>2. CASE length # c
        BY <3>4, <3>5, <3>6, <3>8, <4>2 DEF ReadData
      <4> QED
        BY <4>1, <4>2
    <3>9. CASE ~f.data
      <4>1. length - c \notin 0 .. f.width - 1
        BY <3>2, <3>7
      <4> QED
        BY <3>4, <3>5, <3>6, <3>9, <4>1 DEF ReadNumber
    <3> QED
      BY <3>8, <3>9
  <2> QED
    BY <2>1
<1>4. Nat \subseteq S
  <2> HIDE DEF S
  <2> QED
    BY <1>2, <1>3, NatBySet
<1>5. \A k \in 0 .. Len(q) : WidthTo(q, k) <= length => r(k) = Placed(q, k)
  BY <1>4
<1>6. Len(q) \in 0 .. Len(q) /\ Width(q) = WidthTo(q, Len(q))
  <2>1. Width(q) = WidthTo(q, Len(q))
    BY Widths, Zenon
  <2> QED
    BY <2>1
<1> QED
  BY <1>1, <1>5, <1>6, WrittenPlaced DEF r

\* The extents of fields that begin at b.
At(q, b) == {Extent(q[j], b + WidthTo(q, j - 1)) : j \in 1 .. Len(q)}

\* PackStream writes fields one after another from byte 0.
LEMMA WrittenAt ==
    ASSUME NEW q \in Seq(Field)
    PROVE  Write(q).extents = At(q, 0)
<1>1. Write(q).extents = Extents(q, Len(q))
  BY WrittenPlaced DEF Placed
<1>2. \A j \in 1 .. Len(q) : 0 + WidthTo(q, j - 1) = WidthTo(q, j - 1)
  <2>1. \A k \in 0 .. Len(q) : WidthTo(q, k) \in Nat
    BY Widths, Zenon
  <2>2. \A j \in 1 .. Len(q) : WidthTo(q, j - 1) \in Nat
    <3> TAKE j \in 1 .. Len(q)
    <3>1. j - 1 \in 0 .. Len(q)
      OBVIOUS
    <3> QED
      BY <2>1, <3>1, Zenon
  <2> QED
    BY <2>2
<1> QED
  BY <1>1, <1>2, Zenon DEF At, Extents

\* Two lists: the second begins where the first ends.
LEMMA AtBoth ==
    ASSUME NEW q \in Seq(Field), NEW r \in Seq(Field), NEW b \in Nat
    PROVE  At(q \o r, b) = At(q, b) \cup At(r, b + Width(q))
<1> DEFINE qr == q \o r
           x(j) == Extent(qr[j], b + WidthTo(qr, j - 1))
<1>1. /\ Len(qr) = Len(q) + Len(r) /\ Len(q) \in Nat /\ Len(r) \in Nat
      /\ \A k \in 1 .. Len(q) : qr[k] = q[k]
      /\ \A k \in 1 .. Len(r) : qr[Len(q) + k] = r[k]
  OBVIOUS
<1>2. /\ \A k \in 0 .. Len(q) : WidthTo(qr, k) = WidthTo(q, k)
      /\ \A k \in 0 .. Len(r) : WidthTo(qr, Len(q) + k) = Width(q) + WidthTo(r, k)
  BY WidthsOfBoth, Zenon
<1>3. /\ Width(q) \in Nat
      /\ \A k \in 0 .. Len(r) : WidthTo(r, k) \in Nat
  BY Widths, Zenon
<1>4. At(qr, b) = {x(j) : j \in 1 .. Len(qr)}
  BY DEF At
<1> HIDE DEF qr
<1>5. \A j \in 1 .. Len(q) : x(j) = Extent(q[j], b + WidthTo(q, j - 1))
  <2> TAKE j \in 1 .. Len(q)
  <2>1. j - 1 \in 0 .. Len(q)
    BY <1>1
  <2> QED
    BY <1>1, <1>2, <2>1
<1>6. \A j \in 1 .. Len(r) : x(Len(q) + j) = Extent(r[j], b + Width(q) + WidthTo(r, j - 1))
  <2> TAKE j \in 1 .. Len(r)
  <2>1. j - 1 \in 0 .. Len(r) /\ Len(q) + j - 1 = Len(q) + (j - 1)
    BY <1>1
  <2>2. /\ WidthTo(qr, Len(q) + (j - 1)) = Width(q) + WidthTo(r, j - 1)
        /\ WidthTo(r, j - 1) \in Nat
    BY <1>2, <1>3, <2>1, Zenon
  <2>3. b + WidthTo(qr, Len(q) + (j - 1)) = b + Width(q) + WidthTo(r, j - 1)
    BY <1>3, <2>2
  <2> QED
    BY <1>1, <2>1, <2>3
<1> HIDE DEF x
<1>7. {x(j) : j \in 1 .. Len(qr)}
        = {x(j) : j \in 1 .. Len(q)} \cup {x(Len(q) + j) : j \in 1 .. Len(r)}
  <2>1. \A j \in 1 .. Len(qr) :
          \/ j \in 1 .. Len(q)
          \/ j - Len(q) \in 1 .. Len(r) /\ j = Len(q) + (j - Len(q))
    BY <1>1
  <2>2. \A j \in 1 .. Len(q) : j \in 1 .. Len(qr)
    BY <1>1
  <2>3. \A j \in 1 .. Len(r) : Len(q) + j \in 1 .. Len(qr)
    BY <1>1
  <2> QED
    BY <2>1, <2>2, <2>3, Zenon
<1>8. {x(j) : j \in 1 .. Len(q)} = At(q, b)
  BY <1>5, Zenon DEF At
<1>9. {x(Len(q) + j) : j \in 1 .. Len(r)} = At(r, b + Width(q))
  BY <1>6, Zenon DEF At
<1> QED
  BY <1>4, <1>7, <1>8, <1>9 DEF qr

-----------------------------------------------------------------------------
(* Members, texts and lists *)

\* Fields of a width.
Wide(q, n) == q \in Seq(Field) /\ Width(q) = n

\* Together.
LEMMA WideBoth ==
    ASSUME NEW q, NEW r, NEW m, NEW n, Wide(q, m), Wide(r, n)
    PROVE  Wide(q \o r, m + n)
  BY WidthOfBoth DEF Wide

\* None.
LEMMA WideNone ==
    Wide(<<>>, 0)
<1>1. <<>> \in Seq(Field) /\ Len(<<>>) = 0
  OBVIOUS
<1>2. WidthTo(<<>>, 0) = 0 /\ Width(<<>>) = WidthTo(<<>>, Len(<<>>))
  BY <1>1, Widths, Zenon
<1> QED
  BY <1>1, <1>2 DEF Wide

\* Fields of one width.
LEMMA FieldsAll ==
    ASSUME NEW m \in Seq(MemberNames), NEW w \in Nat
    PROVE  /\ Fields(m, w) \in Seq(Field) /\ Len(Fields(m, w)) = Len(m)
           /\ \A i \in 1 .. Len(m) : Fields(m, w)[i] =
                [member |-> m[i], nth |-> 0, width |-> w, data |-> FALSE]
<1>1. DOMAIN m = 1 .. Len(m) /\ Len(m) \in Nat /\ \A i \in 1 .. Len(m) : m[i] \in MemberNames
  OBVIOUS
<1>2. ASSUME NEW i \in 1 .. Len(m)
      PROVE  [member |-> m[i], nth |-> 0, width |-> w, data |-> FALSE] \in Field
  BY <1>1 DEF Field
<1>3. \A i \in 1 .. Len(m) : Fields(m, w)[i] =
                [member |-> m[i], nth |-> 0, width |-> w, data |-> FALSE]
  BY <1>1 DEF Fields
<1>4. Fields(m, w) \in [1 .. Len(m) -> Field]
  BY <1>1, <1>2 DEF Fields
<1> QED
  BY <1>1, <1>3, <1>4

\* Their width.
LEMMA WideFields ==
    ASSUME NEW m \in Seq(MemberNames), NEW w \in Nat
    PROVE  Wide(Fields(m, w), Len(m) * w)
<1> DEFINE q == Fields(m, w)
           S == {k \in Nat : k <= Len(m) => WidthTo(q, k) = k * w}
<1>1. /\ q \in Seq(Field) /\ Len(q) = Len(m)
      /\ \A i \in 1 .. Len(m) : q[i] =
           [member |-> m[i], nth |-> 0, width |-> w, data |-> FALSE]
  BY FieldsAll
<1>2. Len(m) \in Nat
  OBVIOUS
<1> HIDE DEF q
<1>3. /\ WidthTo(q, 0) = 0 /\ Width(q) = WidthTo(q, Len(m))
      /\ \A k \in 1 .. Len(m) : WidthTo(q, k) = WidthTo(q, k - 1) + q[k].width
  BY <1>1, Widths
<1>4. 0 \in S
  BY <1>3
<1>5. ASSUME NEW k \in Nat, k \in S PROVE k + 1 \in S
  <2>1. ASSUME k + 1 <= Len(m) PROVE WidthTo(q, k + 1) = (k + 1) * w
    <3>1. k + 1 \in 1 .. Len(m) /\ k + 1 - 1 = k /\ WidthTo(q, k) = k * w
      BY <1>2, <1>5, <2>1
    <3>2. WidthTo(q, k + 1) = WidthTo(q, k) + q[k + 1].width /\ q[k + 1].width = w
      <4>1. WidthTo(q, k + 1) = WidthTo(q, k) + q[k + 1].width
        BY <1>3, <3>1
      <4>2. q[k + 1] = [member |-> m[k + 1], nth |-> 0, width |-> w, data |-> FALSE]
        BY <1>1, <3>1
      <4>3. q[k + 1].width = w
        BY <4>2
      <4> QED
        BY <4>1, <4>3
    <3> QED
      BY <3>1, <3>2
  <2> QED
    BY <2>1
<1>6. Nat \subseteq S
  <2> HIDE DEF S
  <2> QED
    BY <1>4, <1>5, NatBySet
<1> QED
  BY <1>1, <1>2, <1>3, <1>6 DEF Wide, q

\* A text.
LEMMA WideData ==
    ASSUME NEW m \in MemberNames, NEW w \in Nat
    PROVE  Wide(Data(m, w), w)
<1> DEFINE f == [member |-> m, nth |-> 0, width |-> w, data |-> TRUE]
<1>1. f \in Field
  BY DEF Field
<1>2. f.width = w
  OBVIOUS
<1> HIDE DEF f
<1>3. <<f>> \in Seq(Field) /\ Len(<<f>>) = 1 /\ <<f>>[1] = f
  BY <1>1
<1>4. /\ WidthTo(<<f>>, 0) = 0 /\ Width(<<f>>) = WidthTo(<<f>>, 1)
      /\ WidthTo(<<f>>, 1) = WidthTo(<<f>>, 0) + <<f>>[1].width
  <2>1. /\ WidthTo(<<f>>, 0) = 0 /\ Width(<<f>>) = WidthTo(<<f>>, Len(<<f>>))
        /\ \A k \in 1 .. Len(<<f>>) :
             WidthTo(<<f>>, k) = WidthTo(<<f>>, k - 1) + <<f>>[k].width
    BY <1>3, Widths, Zenon
  <2>2. 1 \in 1 .. Len(<<f>>) /\ 1 - 1 = 0
    BY <1>3
  <2> QED
    BY <1>3, <2>1, <2>2
<1>5. Width(<<f>>) = w
  BY <1>2, <1>3, <1>4
<1> QED
  BY <1>3, <1>5 DEF Wide, Data, f

\* Widths depend on the widths of the fields only.
LEMMA SameWidths ==
    ASSUME NEW q \in Seq(Field), NEW r \in Seq(Field), Len(q) = Len(r),
           \A i \in 1 .. Len(q) : q[i].width = r[i].width
    PROVE  /\ \A k \in 0 .. Len(q) : WidthTo(q, k) = WidthTo(r, k)
           /\ Width(q) = Width(r)
<1> DEFINE S == {k \in Nat : k <= Len(q) => WidthTo(q, k) = WidthTo(r, k)}
<1>1. Len(q) \in Nat
  OBVIOUS
<1>2. /\ WidthTo(q, 0) = 0 /\ Width(q) = WidthTo(q, Len(q))
      /\ \A k \in 1 .. Len(q) : WidthTo(q, k) = WidthTo(q, k - 1) + q[k].width
  BY Widths, Zenon
<1>3. /\ WidthTo(r, 0) = 0 /\ Width(r) = WidthTo(r, Len(q))
      /\ \A k \in 1 .. Len(q) : WidthTo(r, k) = WidthTo(r, k - 1) + r[k].width
  BY Widths
<1>4. 0 \in S
  BY <1>2, <1>3
<1>5. ASSUME NEW k \in Nat, k \in S PROVE k + 1 \in S
  <2>1. ASSUME k + 1 <= Len(q) PROVE WidthTo(q, k + 1) = WidthTo(r, k + 1)
    <3>1. k + 1 \in 1 .. Len(q) /\ k + 1 - 1 = k /\ WidthTo(q, k) = WidthTo(r, k)
      BY <1>1, <1>5, <2>1
    <3> QED
      BY <1>2, <1>3, <3>1
  <2> QED
    BY <2>1
<1>6. Nat \subseteq S
  <2> HIDE DEF S
  <2> QED
    BY <1>4, <1>5, NatBySet
<1> QED
  BY <1>1, <1>2, <1>3, <1>6

\* The fields of the i-th entry.
Nth(f, i) == [k \in DOMAIN f |-> [f[k] EXCEPT !.nth = i]]

\* The i-th entry has the fields of the first, of the same widths.
LEMMA NthFields ==
    ASSUME NEW f \in Seq(Field), NEW i \in Nat
    PROVE  /\ Nth(f, i) \in Seq(Field) /\ Len(Nth(f, i)) = Len(f)
           /\ \A k \in 1 .. Len(f) : /\ Nth(f, i)[k] = [f[k] EXCEPT !.nth = i]
                                     /\ Nth(f, i)[k].width = f[k].width
           /\ Width(Nth(f, i)) = Width(f)
<1>1. DOMAIN f = 1 .. Len(f) /\ Len(f) \in Nat /\ \A k \in 1 .. Len(f) : f[k] \in Field
  OBVIOUS
<1>2. ASSUME NEW x \in Field
      PROVE  [x EXCEPT !.nth = i] \in Field /\ [x EXCEPT !.nth = i].width = x.width
  BY DEF Field
<1>3. \A k \in 1 .. Len(f) : Nth(f, i)[k] = [f[k] EXCEPT !.nth = i]
  BY <1>1 DEF Nth
<1>4. Nth(f, i) \in [1 .. Len(f) -> Field]
  BY <1>1, <1>2 DEF Nth
<1>5. Nth(f, i) \in Seq(Field) /\ Len(Nth(f, i)) = Len(f)
  BY <1>1, <1>4
<1>6. \A k \in 1 .. Len(f) : Nth(f, i)[k].width = f[k].width
  BY <1>1, <1>2, <1>3
<1>7. Width(Nth(f, i)) = Width(f)
  BY <1>5, <1>6, SameWidths
<1> QED
  BY <1>3, <1>5, <1>6, <1>7

\* The equation of FlattenSeq has a solution.
Flat(s, g, n) == g = [i \in 1 .. n |-> IF i = 1 THEN s[i] ELSE g[i - 1] \o s[i]]

\* A solution for n sequences goes on to one for n + 1.
LEMMA FlatExists ==
    ASSUME NEW s
    PROVE  \A n \in Nat : \E g : Flat(s, g, n)
<1> DEFINE S == {n \in Nat : \E g : Flat(s, g, n)}
<1>1. 0 \in S
  <2> DEFINE g == [i \in 1 .. 0 |-> 0]
  <2>1. 1 .. 0 = {}
    OBVIOUS
  <2>2. Flat(s, g, 0)
    BY <2>1 DEF Flat
  <2> QED
    BY <2>2
<1>2. ASSUME NEW n \in Nat, n \in S PROVE n + 1 \in S
  <2>1. PICK f : Flat(s, f, n)
    BY <1>2
  <2> DEFINE g == [i \in 1 .. n + 1 |->
                     IF i \in 1 .. n THEN f[i]
                     ELSE IF i = 1 THEN s[i] ELSE f[i - 1] \o s[i]]
  <2>2. ASSUME NEW i \in 1 .. n + 1
        PROVE  g[i] = IF i = 1 THEN s[i] ELSE g[i - 1] \o s[i]
    <3>1. i # 1 => i - 1 \in 1 .. n /\ g[i - 1] = f[i - 1]
      OBVIOUS
    <3>2. CASE i \in 1 .. n
      <4>1. f[i] = IF i = 1 THEN s[i] ELSE f[i - 1] \o s[i]
        BY <2>1, <3>2 DEF Flat
      <4>2. g[i] = f[i]
        BY <3>2
      <4> HIDE DEF g
      <4> QED
        BY <3>1, <4>1, <4>2
    <3>3. CASE i \notin 1 .. n
      <4>1. g[i] = IF i = 1 THEN s[i] ELSE f[i - 1] \o s[i]
        BY <3>3
      <4> HIDE DEF g
      <4> QED
        BY <3>1, <4>1
    <3> QED
      BY <3>2, <3>3
  <2>3. g = [i \in 1 .. n + 1 |-> g[i]]
    OBVIOUS
  <2>4. Flat(s, g, n + 1)
    <3> HIDE DEF g
    <3> QED
      BY <2>2, <2>3 DEF Flat
  <2> HIDE DEF g
  <2> QED
    BY <2>4
<1>3. Nat \subseteq S
  <2> HIDE DEF S
  <2> QED
    BY <1>1, <1>2, NatBySet
<1> QED
  BY <1>3

\* The extents of the entries of a list, one entry after another.
ListAt(f, n, b) == UNION {At(Nth(f, i), b + (i - 1) * Width(f)) : i \in 1 .. n}

\* A list of n entries is as long as they are together, and they lie one after
\* another.
LEMMA EntriesAt ==
    ASSUME NEW f \in Seq(Field), NEW n \in Nat
    PROVE  /\ Wide(Entries(f, n), n * Width(f))
           /\ \A b \in Nat : At(Entries(f, n), b) = ListAt(f, n, b)
<1> DEFINE s == [i \in 1 .. n |-> Nth(f, i)]
           g == CHOOSE h : Flat(s, h, n)
           Good(k) == /\ Wide(g[k], k * Width(f))
                      /\ \A b \in Nat : At(g[k], b) = ListAt(f, k, b)
<1>1. Width(f) \in Nat
  BY Widths, Zenon
<1>2. \A i \in 1 .. n : s[i] = Nth(f, i) /\ Wide(s[i], Width(f))
  BY NthFields DEF Wide
<1>3. Len(s) = n
  OBVIOUS
<1>4. Entries(f, n) = IF n = 0 THEN <<>> ELSE g[n]
  <2>1. Entries(f, n) = FlattenSeq(s)
    BY DEF Entries, Nth
  <2> HIDE DEF s
  <2> QED
    BY <1>3, <2>1 DEF FlattenSeq, Flat
<1> HIDE DEF s
<1>5. Flat(s, g, n)
  BY FlatExists
<1> HIDE DEF g
<1>6. \A i \in 1 .. n : g[i] = IF i = 1 THEN s[i] ELSE g[i - 1] \o s[i]
  BY <1>5 DEF Flat
<1>7. ASSUME NEW k \in 1 .. n, NEW b \in Nat
      PROVE  ListAt(f, k, b) = ListAt(f, k - 1, b) \cup At(s[k], b + (k - 1) * Width(f))
  <2> DEFINE a(i) == At(Nth(f, i), b + (i - 1) * Width(f))
  <2>1. 1 .. k = (1 .. k - 1) \cup {k}
    OBVIOUS
  <2>2. a(k) = At(s[k], b + (k - 1) * Width(f))
    BY <1>2
  <2>3. ListAt(f, k, b) = UNION {a(i) : i \in 1 .. k}
        /\ ListAt(f, k - 1, b) = UNION {a(i) : i \in 1 .. k - 1}
    BY DEF ListAt
  <2> HIDE DEF a
  <2>4. UNION {a(i) : i \in (1 .. k - 1) \cup {k}} = (UNION {a(i) : i \in 1 .. k - 1}) \cup a(k)
    BY Zenon
  <2> QED
    BY <2>1, <2>2, <2>3, <2>4, Zenon
<1>8. \A b \in Nat : ListAt(f, 0, b) = {}
  <2>1. 1 .. 0 = {}
    OBVIOUS
  <2> QED
    BY <2>1 DEF ListAt
<1>9. \A k \in Nat : k \in 1 .. n => Good(k)
  <2> DEFINE S == {k \in Nat : k \in 1 .. n => Good(k)}
  <2>1. 0 \in S
    OBVIOUS
  <2>2. ASSUME NEW k \in Nat, k \in S PROVE k + 1 \in S
    <3>1. ASSUME k + 1 \in 1 .. n PROVE Good(k + 1)
      <4>1. g[k + 1] = (IF k = 0 THEN s[k + 1] ELSE g[k] \o s[k + 1])
        BY <1>6, <3>1
      <4>2. Wide(s[k + 1], Width(f))
        BY <1>2, <3>1
      <4>3. \A b \in Nat :
              ListAt(f, k + 1, b) = ListAt(f, k, b) \cup At(s[k + 1], b + k * Width(f))
        <5> TAKE b \in Nat
        <5>1. k + 1 - 1 = k
          OBVIOUS
        <5> QED
          BY <1>7, <3>1, <5>1
      <4>4. CASE k = 0
        <5>1. (k + 1) * Width(f) = Width(f) /\ \A b \in Nat : b + k * Width(f) = b
          BY <1>1, <4>4
        <5>2. ASSUME NEW b \in Nat PROVE ListAt(f, k + 1, b) = At(s[k + 1], b)
          <6>1. ListAt(f, k, b) = {}
            BY <1>8, <4>4
          <6>2. ListAt(f, k + 1, b) = ListAt(f, k, b) \cup At(s[k + 1], b + k * Width(f))
            BY <4>3
          <6>3. b + k * Width(f) = b
            BY <5>1
          <6> QED
            BY <6>1, <6>2, <6>3, Zenon
        <5> QED
          BY <4>1, <4>2, <4>4, <5>1, <5>2, Zenon
      <4>5. CASE k # 0
        <5>1. Good(k)
          BY <2>2, <3>1, <4>5
        <5>2. /\ k * Width(f) + Width(f) = (k + 1) * Width(f)
              /\ k * Width(f) \in Nat
          BY <1>1
        <5>3. Wide(g[k + 1], (k + 1) * Width(f))
          <6>1. Wide(g[k] \o s[k + 1], k * Width(f) + Width(f))
            BY <4>2, <5>1, WideBoth, Zenon
          <6> QED
            BY <4>1, <4>5, <5>2, <6>1, Zenon
        <5>4. ASSUME NEW b \in Nat PROVE At(g[k + 1], b) = ListAt(f, k + 1, b)
          <6>1. g[k] \in Seq(Field) /\ Width(g[k]) = k * Width(f) /\ s[k + 1] \in Seq(Field)
            BY <4>2, <5>1, Zenon DEF Wide
          <6>2. At(g[k] \o s[k + 1], b) = At(g[k], b) \cup At(s[k + 1], b + Width(g[k]))
            BY <6>1, AtBoth, Zenon
          <6>3. At(g[k], b) = ListAt(f, k, b)
            BY <5>1
          <6> QED
            BY <4>1, <4>3, <4>5, <6>1, <6>2, <6>3, Zenon
        <5> QED
          BY <5>3, <5>4
      <4> QED
        BY <4>4, <4>5
    <3> QED
      BY <3>1
  <2>3. Nat \subseteq S
    <3> HIDE DEF S
    <3> QED
      BY <2>1, <2>2, NatBySet
  <2> QED
    BY <2>3
<1>10. CASE n = 0
  <2>1. Entries(f, n) = <<>> /\ n * Width(f) = 0
    BY <1>1, <1>4, <1>10
  <2>2. \A b \in Nat : At(<<>>, b) = {}
    <3>1. 1 .. Len(<<>>) = {}
      OBVIOUS
    <3> QED
      BY <3>1 DEF At
  <2> QED
    BY <1>8, <1>10, <2>1, <2>2, WideNone, Zenon
<1>11. CASE n # 0
  <2>1. n \in 1 .. n /\ Entries(f, n) = g[n]
    BY <1>4, <1>11
  <2> QED
    BY <1>9, <2>1
<1> QED
  BY <1>10, <1>11

-----------------------------------------------------------------------------
(* Members read from other bytes *)

\* The members of fields, with their entries.
NamesOf(q) == {<<q[j].member, q[j].nth>> : j \in 1 .. Len(q)}

\* The members whose extents are not the same.
Difference(wanted, got) ==
    {<<x.member, x.nth>> : x \in (wanted \ got) \cup (got \ wanted)}

\* What Extent says of a field.
LEMMA ExtentOf ==
    ASSUME NEW f \in Field, NEW c \in Nat
    PROVE  /\ Extent(f, c).member = f.member /\ Extent(f, c).nth = f.nth
           /\ Extent(f, c).width = f.width
           /\ Extent(f, c).from = IF f.width = 0 THEN -1 ELSE c
           /\ Extent(f, c) = [member |-> f.member, nth |-> f.nth,
                              from |-> IF f.width = 0 THEN -1 ELSE c, width |-> f.width]
<1>1. Extent(f, c) = [member |-> f.member, nth |-> f.nth,
                      from |-> IF f.width = 0 THEN -1 ELSE c, width |-> f.width]
  BY DEF Extent, Nowhere
<1> QED
  BY <1>1

\* Extents have the names of their fields.
LEMMA NamesAt ==
    ASSUME NEW q \in Seq(Field), NEW b \in Nat
    PROVE  \A x \in At(q, b) : <<x.member, x.nth>> \in NamesOf(q)
<1>1. ASSUME NEW j \in 1 .. Len(q)
      PROVE  /\ Extent(q[j], b + WidthTo(q, j - 1)).member = q[j].member
             /\ Extent(q[j], b + WidthTo(q, j - 1)).nth = q[j].nth
  <2>1. q[j] \in Field /\ j - 1 \in 0 .. Len(q)
    OBVIOUS
  <2>2. WidthTo(q, j - 1) \in Nat
    BY <2>1, Widths, Zenon
  <2>3. b + WidthTo(q, j - 1) \in Nat
    BY <2>2
  <2> QED
    BY <2>1, <2>3, ExtentOf, Zenon
<1> QED
  BY <1>1, Zenon DEF At, NamesOf

\* The members of fields and of fields behind them.
LEMMA NamesBoth ==
    ASSUME NEW q \in Seq(Field), NEW r \in Seq(Field)
    PROVE  NamesOf(q \o r) = NamesOf(q) \cup NamesOf(r)
<1> DEFINE b == q \o r
           x(j) == <<b[j].member, b[j].nth>>
<1>1. /\ Len(b) = Len(q) + Len(r) /\ Len(q) \in Nat /\ Len(r) \in Nat
      /\ \A k \in 1 .. Len(q) : b[k] = q[k]
      /\ \A k \in 1 .. Len(r) : b[Len(q) + k] = r[k]
  OBVIOUS
<1> HIDE DEF b
<1>2. /\ \A j \in 1 .. Len(q) : x(j) = <<q[j].member, q[j].nth>>
      /\ \A j \in 1 .. Len(r) : x(Len(q) + j) = <<r[j].member, r[j].nth>>
  BY <1>1
<1>3. NamesOf(b) = {x(j) : j \in 1 .. Len(b)}
  BY DEF NamesOf
<1> HIDE DEF x
<1>4. {x(j) : j \in 1 .. Len(b)}
        = {x(j) : j \in 1 .. Len(q)} \cup {x(Len(q) + j) : j \in 1 .. Len(r)}
  <2>1. \A j \in 1 .. Len(b) :
          \/ j \in 1 .. Len(q)
          \/ j - Len(q) \in 1 .. Len(r) /\ j = Len(q) + (j - Len(q))
    BY <1>1
  <2>2. \A j \in 1 .. Len(q) : j \in 1 .. Len(b)
    BY <1>1
  <2>3. \A j \in 1 .. Len(r) : Len(q) + j \in 1 .. Len(b)
    BY <1>1
  <2> QED
    BY <2>1, <2>2, <2>3, Zenon
<1>5. {x(j) : j \in 1 .. Len(q)} = NamesOf(q)
  BY <1>2, Zenon DEF NamesOf
<1>6. {x(Len(q) + j) : j \in 1 .. Len(r)} = NamesOf(r)
  BY <1>2, Zenon DEF NamesOf
<1> QED
  BY <1>3, <1>4, <1>5, <1>6 DEF b

\* The members of numbers.
LEMMA NamesFields ==
    ASSUME NEW m \in Seq(MemberNames), NEW w \in Nat
    PROVE  NamesOf(Fields(m, w)) = {<<m[i], 0>> : i \in 1 .. Len(m)}
<1>1. /\ Len(Fields(m, w)) = Len(m)
      /\ \A i \in 1 .. Len(m) : Fields(m, w)[i] =
           [member |-> m[i], nth |-> 0, width |-> w, data |-> FALSE]
  BY FieldsAll, Zenon
<1>2. \A i \in 1 .. Len(m) : Fields(m, w)[i].member = m[i] /\ Fields(m, w)[i].nth = 0
  <2> TAKE i \in 1 .. Len(m)
  <2>1. Fields(m, w)[i] = [member |-> m[i], nth |-> 0, width |-> w, data |-> FALSE]
    BY <1>1
  <2> QED
    BY <2>1
<1> QED
  BY <1>1, <1>2, Zenon DEF NamesOf

\* One member in two places.
LEMMA OneMisread ==
    ASSUME NEW E, NEW x, NEW y, x \notin E, y \notin E, x # y
    PROVE  Difference(E \cup {x}, E \cup {y}) = {<<x.member, x.nth>>, <<y.member, y.nth>>}
<1>1. ((E \cup {x}) \ (E \cup {y})) \cup ((E \cup {y}) \ (E \cup {x})) = {x, y}
  OBVIOUS
<1> QED
  BY <1>1, Zenon DEF Difference

\* The one field of a text.
LEMMA DataField ==
    ASSUME NEW m \in MemberNames, NEW w \in Nat
    PROVE  /\ Data(m, w) \in Seq(Field) /\ Len(Data(m, w)) = 1
           /\ Data(m, w)[1] \in Field
           /\ Data(m, w)[1].member = m /\ Data(m, w)[1].nth = 0
           /\ Data(m, w)[1].width = w /\ Data(m, w)[1].data = TRUE
<1> DEFINE f == [member |-> m, nth |-> 0, width |-> w, data |-> TRUE]
<1>1. f \in Field /\ f.member = m /\ f.nth = 0 /\ f.width = w /\ f.data = TRUE
  BY DEF Field
<1>2. Data(m, w) = <<f>>
  BY DEF Data
<1> HIDE DEF f
<1>3. <<f>> \in Seq(Field) /\ Len(<<f>>) = 1 /\ <<f>>[1] = f
  BY <1>1
<1> QED
  BY <1>1, <1>2, <1>3

\* Two lists.
LEMMA Joined ==
    ASSUME NEW q \in Seq(Field), NEW r \in Seq(Field)
    PROVE  /\ q \o r \in Seq(Field) /\ Len(q \o r) = Len(q) + Len(r)
           /\ Len(q) \in Nat /\ Len(r) \in Nat
           /\ \A k \in 1 .. Len(q) : (q \o r)[k] = q[k]
           /\ \A k \in 1 .. Len(r) : (q \o r)[Len(q) + k] = r[k]
  OBVIOUS

\* One field behind others.
LEMMA Behind ==
    ASSUME NEW q \in Seq(Field), NEW e \in Seq(Field), Len(e) = 1
    PROVE  /\ q \o e \in Seq(Field) /\ Len(q \o e) = Len(q) + 1 /\ Len(q) \in Nat
           /\ (q \o e)[Len(q) + 1] = e[1]
           /\ \A k \in 1 .. Len(q) : (q \o e)[k] = q[k]
<1> DEFINE b == q \o e
<1>1. /\ b \in Seq(Field) /\ Len(b) = Len(q) + Len(e) /\ Len(q) \in Nat
      /\ \A k \in 1 .. Len(q) : b[k] = q[k]
      /\ \A k \in 1 .. Len(e) : b[Len(q) + k] = e[k]
  BY Joined, Zenon
<1> HIDE DEF b
<1>2. Len(b) = Len(q) + 1 /\ b[Len(q) + 1] = e[1]
  BY <1>1
<1> QED
  BY <1>1, <1>2 DEF b

\* UnpackStream field by field.
LEMMA ReadSteps ==
    ASSUME NEW q \in Seq(Field), NEW length
    PROVE  /\ \A k \in 1 .. Len(q) :
                FoldTo("read", length, q, k)
                  = IF q[k].data THEN ReadData(FoldTo("read", length, q, k - 1), q[k], length)
                    ELSE ReadNumber(FoldTo("read", length, q, k - 1), q[k], length)
           /\ Read(q, length) = FoldTo("read", length, q, Len(q))
<1>1. /\ FoldTo("read", length, q, 0) = Start("read")
      /\ \A k \in 1 .. Len(q) :
           FoldTo("read", length, q, k)
             = Step("read", length, FoldTo("read", length, q, k - 1), q[k])
      /\ FoldOf("read", length, q)[DOMAIN q] = FoldTo("read", length, q, Len(q))
  BY FoldSteps, Zenon
<1>2. Read(q, length) = FoldOf("read", length, q)[DOMAIN q]
  BY FoldsAre, Zenon
<1>3. \A x, f : Step("read", length, x, f) =
          IF f.data THEN ReadData(x, f, length) ELSE ReadNumber(x, f, length)
  BY DEF Step
<1> QED
  BY <1>1, <1>2, <1>3, Zenon

\* Where one field is that begins at b.
LEMMA AtOne ==
    ASSUME NEW d \in Seq(Field), Len(d) = 1, NEW b \in Nat
    PROVE  At(d, b) = {Extent(d[1], b)}
<1>1. WidthTo(d, 0) = 0
  BY Widths, Zenon
<1>2. 1 .. Len(d) = {1} /\ b + WidthTo(d, 1 - 1) = b
  BY <1>1
<1>3. At(d, b) = {Extent(d[j], b + WidthTo(d, j - 1)) : j \in {1}}
  BY <1>2 DEF At
<1> QED
  BY <1>2, <1>3, Zenon

\* One field d behind others, of the same member as e but of another width.
OtherWidth(q, d, e) ==
    /\ q \in Seq(Field) /\ d \in Seq(Field) /\ e \in Seq(Field)
    /\ Len(d) = 1 /\ Len(e) = 1
    /\ d[1].member = e[1].member /\ d[1].nth = e[1].nth
    /\ e[1].data = TRUE /\ d[1].width # e[1].width
    /\ <<d[1].member, d[1].nth>> \notin NamesOf(q)

\* A text at the end that is taken too long is the one member that is misread: if
\* nothing is left of the packet, ReadData gives NULL, and its bytes are nowhere.
LEMMA TextTooLong ==
    ASSUME NEW q, NEW d, NEW e, NEW length \in Nat, OtherWidth(q, d, e), Width(q) <= length
    PROVE  Difference(Write(q \o d).extents, Read(q \o e, length).extents)
             = {<<d[1].member, d[1].nth>>}
<1>1. /\ q \in Seq(Field) /\ d \in Seq(Field) /\ e \in Seq(Field)
      /\ Len(d) = 1 /\ Len(e) = 1
      /\ d[1].member = e[1].member /\ d[1].nth = e[1].nth
      /\ e[1].data = TRUE /\ d[1].width # e[1].width
      /\ <<d[1].member, d[1].nth>> \notin NamesOf(q)
  BY DEF OtherWidth
<1> USE <1>1
<1> DEFINE b == Width(q)
           qe == q \o e
           read(k) == FoldTo("read", length, qe, k)
<1>2. b \in Nat
  BY Widths, Zenon
<1>3. d[1] \in Field /\ e[1] \in Field
  <2>1. 1 \in 1 .. Len(d) /\ 1 \in 1 .. Len(e)
    OBVIOUS
  <2> QED
    BY <2>1
<1>4. Width(q) = WidthTo(q, Len(q))
  BY Widths, Zenon
<1> HIDE DEF b
<1>5. Write(q \o d).extents = At(q, 0) \cup {Extent(d[1], b)}
  <2>1. q \o d \in Seq(Field)
    OBVIOUS
  <2>2. Write(q \o d).extents = At(q \o d, 0)
    BY <2>1, WrittenAt, Zenon
  <2>3. At(q \o d, 0) = At(q, 0) \cup At(d, b)
    <3>1. 0 \in Nat /\ 0 + b = b
      BY <1>2
    <3>2. At(q \o d, 0) = At(q, 0) \cup At(d, 0 + b)
      BY <3>1, AtBoth, Zenon DEF b
    <3> QED
      BY <3>1, <3>2, Zenon
  <2> QED
    BY <1>2, <2>2, <2>3, AtOne, Zenon
<1>6. /\ qe \in Seq(Field) /\ Len(qe) = Len(q) + 1 /\ Len(q) \in Nat
      /\ qe[Len(q) + 1] = e[1] /\ \A k \in 1 .. Len(q) : qe[k] = q[k]
  BY Behind, Zenon
<1>7. /\ \A k \in 0 .. Len(q) : WidthTo(qe, k) = WidthTo(q, k)
      /\ WidthTo(q, Len(q)) = b
  BY <1>4, WidthsOfBoth, Zenon DEF b
<1> HIDE DEF qe
<1>8. Extents(qe, Len(q)) = At(q, 0)
  <2>1. \A j \in 1 .. Len(q) : qe[j] = q[j] /\ WidthTo(qe, j - 1) = WidthTo(q, j - 1)
    <3> TAKE j \in 1 .. Len(q)
    <3>1. j - 1 \in 0 .. Len(q)
      BY <1>6
    <3> QED
      BY <1>6, <1>7, <3>1
  <2>2. Extents(qe, Len(q)) = Extents(q, Len(q))
    <3>1. \A j \in 1 .. Len(q) :
            Extent(qe[j], WidthTo(qe, j - 1)) = Extent(q[j], WidthTo(q, j - 1))
      BY <2>1, Zenon
    <3> QED
      BY <3>1, Zenon DEF Extents
  <2>3. Placed(q, Len(q)).extents = Extents(q, Len(q))
    BY DEF Placed
  <2> QED
    BY <2>2, <2>3, WrittenPlaced, WrittenAt, Zenon
<1>9. read(Len(q)) = [cursor |-> b, extents |-> At(q, 0)]
  <2>1. Len(q) \in 0 .. Len(qe) /\ WidthTo(qe, Len(q)) = b
    BY <1>6, <1>7
  <2>2. WidthTo(qe, Len(q)) <= length
    BY <2>1 DEF b
  <2>3. read(Len(q)) = Placed(qe, Len(q))
    BY <1>6, <2>1, <2>2, ReadPlaced, Zenon
  <2> QED
    BY <1>8, <2>1, <2>3 DEF Placed
<1>10. Read(qe, length) = ReadData(read(Len(q)), e[1], length)
  <2>1. qe \in Seq(Field) /\ Len(q) + 1 \in 1 .. Len(qe) /\ Len(q) + 1 - 1 = Len(q)
    BY <1>6
  <2> HIDE DEF read
  <2>2. Read(qe, length) = FoldTo("read", length, qe, Len(q) + 1)
    <3>1. Read(qe, length) = FoldTo("read", length, qe, Len(qe))
      BY <2>1, ReadSteps, ZenonT(30)
    <3> QED
      BY <1>6, <3>1
  <2>3. FoldTo("read", length, qe, Len(q) + 1)
          = IF e[1].data THEN ReadData(read(Len(q)), e[1], length)
            ELSE ReadNumber(read(Len(q)), e[1], length)
    <3>1. \A k \in 1 .. Len(qe) :
            FoldTo("read", length, qe, k)
              = IF qe[k].data THEN ReadData(FoldTo("read", length, qe, k - 1), qe[k], length)
                ELSE ReadNumber(FoldTo("read", length, qe, k - 1), qe[k], length)
      BY <2>1, ReadSteps, Zenon
    <3> QED
      BY <1>6, <2>1, <3>1 DEF read
  <2> QED
    BY <2>2, <2>3, Zenon
<1> HIDE DEF read
<1> DEFINE y == IF length = b THEN Nowhere(e[1]) ELSE Extent(e[1], b)
<1>11. Read(qe, length).extents = At(q, 0) \cup {y}
  <2>1. Read(qe, length) = IF length = b
           THEN [cursor |-> b, extents |-> At(q, 0) \cup {Nowhere(e[1])}]
           ELSE [cursor |-> b + e[1].width, extents |-> At(q, 0) \cup {Extent(e[1], b)}]
    <3>1. Read(qe, length) = ReadData([cursor |-> b, extents |-> At(q, 0)], e[1], length)
      BY <1>9, <1>10, Zenon
    <3>2. ReadData([cursor |-> b, extents |-> At(q, 0)], e[1], length)
            = IF length = b THEN [cursor |-> b, extents |-> At(q, 0) \cup {Nowhere(e[1])}]
              ELSE [cursor |-> b + e[1].width, extents |-> At(q, 0) \cup {Extent(e[1], b)}]
      <4> DEFINE f == e[1]
                 E == At(q, 0)
      <4> HIDE DEF f, E, y
      <4> QED
        BY DataAt DEF f, E
    <3> QED
      BY <3>1, <3>2, Zenon
  <2>2. CASE length = b
    BY <2>1, <2>2
  <2>3. CASE length # b
    BY <2>1, <2>3
  <2> QED
    BY <2>2, <2>3
<1>12. y.member = e[1].member /\ y.nth = e[1].nth /\ y.width = e[1].width
  <2>1. /\ Nowhere(e[1]).member = e[1].member /\ Nowhere(e[1]).nth = e[1].nth
        /\ Nowhere(e[1]).width = e[1].width
    BY DEF Nowhere
  <2>2. /\ Extent(e[1], b).member = e[1].member /\ Extent(e[1], b).nth = e[1].nth
        /\ Extent(e[1], b).width = e[1].width
    BY <1>2, <1>3, ExtentOf, Zenon
  <2> QED
    BY <2>1, <2>2
<1> HIDE DEF y
<1> DEFINE x == Extent(d[1], b)
<1>13. x.member = d[1].member /\ x.nth = d[1].nth /\ x.width = d[1].width
  <2>1. d[1] \in Field /\ b \in Nat
    BY <1>2, <1>3
  <2> QED
    BY <2>1, ExtentOf, ZenonT(30)
<1> HIDE DEF x
<1>14. x # y
  BY <1>12, <1>13
<1>15. x \notin At(q, 0) /\ y \notin At(q, 0)
  <2>1. \A z \in At(q, 0) : <<z.member, z.nth>> \in NamesOf(q)
    BY NamesAt
  <2>2. <<x.member, x.nth>> \notin NamesOf(q) /\ <<y.member, y.nth>> \notin NamesOf(q)
    BY <1>2, <1>3, <1>12, <1>13
  <2> QED
    BY <2>1, <2>2, Zenon
<1>16. Difference(At(q, 0) \cup {x}, At(q, 0) \cup {y})
         = {<<x.member, x.nth>>, <<y.member, y.nth>>}
  BY <1>14, <1>15, OneMisread
<1>17. {<<x.member, x.nth>>, <<y.member, y.nth>>} = {<<d[1].member, d[1].nth>>}
  <2>1. <<x.member, x.nth>> = <<d[1].member, d[1].nth>>
        /\ <<y.member, y.nth>> = <<d[1].member, d[1].nth>>
    BY <1>12, <1>13, Zenon
  <2> QED
    BY <2>1, Zenon
<1> QED
  BY <1>5, <1>11, <1>16, <1>17, Zenon DEF x, qe

-----------------------------------------------------------------------------
(* Lists of entries *)

\* Where the k-th member of the i-th entry begins, of a list of entries f.
Place(f, k, i) == (i - 1) * Width(f) + WidthTo(f, k - 1)

\* Its extent, of a list that begins at b.
Member(f, b, k, i) ==
    [member |-> f[k].member, nth |-> i, from |-> b + Place(f, k, i), width |-> f[k].width]

\* The extents of the members of n entries.
MembersAt(f, n, b) == {Member(f, b, ki[1], ki[2]) : ki \in (1 .. Len(f)) \X (1 .. n)}

\* A layout without an empty field.
NoneEmpty(f) == f \in Seq(Field) /\ \A k \in 1 .. Len(f) : f[k].width # 0

\* The extents of a list are those of its members.
LEMMA ListMembers ==
    ASSUME NEW f, NEW n \in Nat, NEW b \in Nat, NoneEmpty(f)
    PROVE  ListAt(f, n, b) = MembersAt(f, n, b)
<1>1. f \in Seq(Field) /\ \A k \in 1 .. Len(f) : f[k].width # 0
  BY DEF NoneEmpty
<1> USE <1>1
<1> DEFINE c(i) == b + (i - 1) * Width(f)
           x(i, k) == Extent(Nth(f, i)[k], c(i) + WidthTo(Nth(f, i), k - 1))
<1>2. Width(f) \in Nat /\ \A k \in 0 .. Len(f) : WidthTo(f, k) \in Nat
  BY Widths, Zenon
<1>3. ASSUME NEW i \in 1 .. n, NEW k \in 1 .. Len(f)
      PROVE  x(i, k) = Member(f, b, k, i)
  <2>1. i \in Nat /\ f[k] \in Field /\ k - 1 \in 0 .. Len(f) /\ k \in 1 .. Len(f)
    OBVIOUS
  <2>2. /\ Nth(f, i) \in Seq(Field) /\ Len(Nth(f, i)) = Len(f)
        /\ \A j \in 1 .. Len(f) : /\ Nth(f, i)[j] = [f[j] EXCEPT !.nth = i]
                                  /\ Nth(f, i)[j].width = f[j].width
    BY <2>1, NthFields, Zenon
  <2>3. WidthTo(Nth(f, i), k - 1) = WidthTo(f, k - 1)
    <3>1. \A j \in 0 .. Len(Nth(f, i)) : WidthTo(Nth(f, i), j) = WidthTo(f, j)
      BY <2>2, SameWidths
    <3>2. k - 1 \in 0 .. Len(Nth(f, i))
      BY <2>1, <2>2
    <3> QED
      BY <3>1, <3>2, Zenon
  <2> DEFINE before == (i - 1) * Width(f)
  <2>4. before \in Nat /\ WidthTo(f, k - 1) \in Nat
    <3>1. \A j, m \in Nat : j * m \in Nat
      OBVIOUS
    <3>2. i - 1 \in Nat
      OBVIOUS
    <3> QED
      BY <1>2, <2>1, <3>1, <3>2, Zenon
  <2>5. /\ c(i) + WidthTo(Nth(f, i), k - 1) = b + Place(f, k, i)
        /\ b + Place(f, k, i) \in Nat
    <3>1. c(i) = b + before /\ Place(f, k, i) = before + WidthTo(f, k - 1)
      BY Zenon DEF Place
    <3> HIDE DEF before, c
    <3> QED
      BY <2>3, <2>4, <3>1
  <2>6. /\ Nth(f, i)[k] \in Field /\ Nth(f, i)[k].member = f[k].member
        /\ Nth(f, i)[k].nth = i /\ Nth(f, i)[k].width = f[k].width /\ f[k].width # 0
    <3>1. /\ [f[k] EXCEPT !.nth = i].member = f[k].member
          /\ [f[k] EXCEPT !.nth = i].nth = i
      BY <2>1 DEF Field
    <3>2. Nth(f, i)[k] \in Field
      BY <2>1, <2>2
    <3> QED
      BY <2>1, <2>2, <3>1, <3>2
  <2> HIDE DEF c
  <2> QED
    BY <2>5, <2>6, ExtentOf DEF Member
<1>4. \A i \in 1 .. n : At(Nth(f, i), c(i)) = {x(i, k) : k \in 1 .. Len(f)}
  <2> TAKE i \in 1 .. n
  <2>1. i \in Nat
    OBVIOUS
  <2>2. Len(Nth(f, i)) = Len(f)
    BY <2>1, NthFields, Zenon
  <2> QED
    BY <2>2, Zenon DEF At
<1>5. ListAt(f, n, b) = UNION {At(Nth(f, i), c(i)) : i \in 1 .. n}
  BY DEF ListAt
<1> HIDE DEF x, c
<1>6. ASSUME NEW e
      PROVE  e \in ListAt(f, n, b)
               <=> \E i \in 1 .. n : \E k \in 1 .. Len(f) : e = Member(f, b, k, i)
  <2>1. e \in ListAt(f, n, b) <=> \E i \in 1 .. n : e \in At(Nth(f, i), c(i))
    BY <1>5, Zenon
  <2>2. \A i \in 1 .. n : e \in At(Nth(f, i), c(i)) <=> \E k \in 1 .. Len(f) : e = x(i, k)
    BY <1>4
  <2> QED
    BY <1>3, <2>1, <2>2, Zenon
<1>7. ASSUME NEW e
      PROVE  e \in MembersAt(f, n, b)
               <=> \E i \in 1 .. n : \E k \in 1 .. Len(f) : e = Member(f, b, k, i)
  <2>1. ASSUME NEW i \in 1 .. n, NEW k \in 1 .. Len(f)
        PROVE  /\ <<k, i>> \in (1 .. Len(f)) \X (1 .. n)
               /\ <<k, i>>[1] = k /\ <<k, i>>[2] = i
    OBVIOUS
  <2>2. ASSUME NEW ki \in (1 .. Len(f)) \X (1 .. n)
        PROVE  ki[1] \in 1 .. Len(f) /\ ki[2] \in 1 .. n
    OBVIOUS
  <2> DEFINE D == (1 .. Len(f)) \X (1 .. n)
  <2> HIDE DEF D
  <2>3. ASSUME NEW ki \in D, e = Member(f, b, ki[1], ki[2])
        PROVE  \E i \in 1 .. n : \E k \in 1 .. Len(f) : e = Member(f, b, k, i)
    BY <2>2, <2>3 DEF D
  <2>4. ASSUME NEW i \in 1 .. n, NEW k \in 1 .. Len(f), e = Member(f, b, k, i)
        PROVE  \E ki \in D : e = Member(f, b, ki[1], ki[2])
    <3>1. <<k, i>> \in D /\ <<k, i>>[1] = k /\ <<k, i>>[2] = i
      BY <2>1 DEF D
    <3>2. e = Member(f, b, <<k, i>>[1], <<k, i>>[2])
      BY <2>4, <3>1
    <3> QED
      BY <3>1, <3>2, Zenon
  <2>5. e \in MembersAt(f, n, b) <=> \E ki \in D : e = Member(f, b, ki[1], ki[2])
    BY Zenon DEF D, MembersAt
  <2> QED
    BY <2>3, <2>4, <2>5, Zenon
<1>8. \A e : e \in ListAt(f, n, b) <=> e \in MembersAt(f, n, b)
  BY <1>6, <1>7, Zenon
<1> QED
  BY <1>8, Zenon

\* Two layouts of the same members, none of them empty.
SameMembers(f, g) ==
    /\ f \in Seq(Field) /\ g \in Seq(Field) /\ Len(f) = Len(g)
    /\ \A k \in 1 .. Len(f) : /\ f[k].member = g[k].member
                              /\ f[k].width # 0 /\ g[k].width # 0
    /\ \A j, k \in 1 .. Len(f) : f[j].member = f[k].member => j = k

\* The members of n entries, by the number of the member and that of the entry,
\* whose widths or places differ.
Misplaced(f, g, n) ==
    {ki \in (1 .. Len(f)) \X (1 .. n) :
        \/ f[ki[1]].width # g[ki[1]].width
        \/ Place(f, ki[1], ki[2]) # Place(g, ki[1], ki[2])}

\* These members, by their names.
NamesMisplaced(f, g, n) == {<<f[ki[1]].member, ki[2]>> : ki \in Misplaced(f, g, n)}

\* A member of an entry is misread if it is written and read with two widths or
\* at two places, and only then.
LEMMA ListMisread ==
    ASSUME NEW f, NEW g, NEW n \in Nat, NEW b \in Nat, NEW E,
           SameMembers(f, g), \A x \in E : x.nth = 0
    PROVE  Difference(E \cup ListAt(f, n, b), E \cup ListAt(g, n, b))
             = NamesMisplaced(f, g, n)
<1>1. /\ f \in Seq(Field) /\ g \in Seq(Field) /\ Len(f) = Len(g)
      /\ \A k \in 1 .. Len(f) : /\ f[k].member = g[k].member
                                /\ f[k].width # 0 /\ g[k].width # 0
      /\ \A j, k \in 1 .. Len(f) : f[j].member = f[k].member => j = k
  BY DEF SameMembers
<1> USE <1>1
<1> DEFINE D == (1 .. Len(f)) \X (1 .. n)
           F == {Member(f, b, ki[1], ki[2]) : ki \in D}
           G == {Member(g, b, ki[1], ki[2]) : ki \in D}
           bad(ki) == \/ f[ki[1]].width # g[ki[1]].width
                      \/ Place(f, ki[1], ki[2]) # Place(g, ki[1], ki[2])
           mf(ki) == Member(f, b, ki[1], ki[2])
           mg(ki) == Member(g, b, ki[1], ki[2])
           name(e) == <<e.member, e.nth>>
<1>2. ListAt(f, n, b) = F /\ ListAt(g, n, b) = G
  <2>1. NoneEmpty(f)
    BY <1>1, Zenon DEF NoneEmpty
  <2>2. NoneEmpty(g)
    <3>1. \A k \in 1 .. Len(g) : g[k].width # 0
      BY <1>1
    <3> QED
      BY <1>1, <3>1, Zenon DEF NoneEmpty
  <2>3. ListAt(f, n, b) = MembersAt(f, n, b)
    BY <2>1, ListMembers, Zenon
  <2>4. ListAt(g, n, b) = MembersAt(g, n, b)
    BY <2>2, ListMembers, Zenon
  <2>5. MembersAt(g, n, b) = G
    BY <1>1, Zenon DEF MembersAt
  <2> QED
    BY <2>3, <2>4, <2>5, Zenon DEF MembersAt
<1>3. ASSUME NEW ki \in D
      PROVE  /\ ki[1] \in 1 .. Len(f) /\ ki[2] \in 1 .. n
             /\ mf(ki).nth = ki[2] /\ mg(ki).nth = ki[2] /\ ki[2] # 0
             /\ mf(ki).member = f[ki[1]].member /\ mg(ki).member = f[ki[1]].member
             /\ mf(ki) = mg(ki) <=> ~bad(ki)
  <2>1. ki[1] \in 1 .. Len(f) /\ ki[2] \in 1 .. n
    OBVIOUS
  <2>2. /\ mf(ki).nth = ki[2] /\ mg(ki).nth = ki[2]
        /\ mf(ki).member = f[ki[1]].member /\ mg(ki).member = g[ki[1]].member
        /\ mf(ki).width = f[ki[1]].width /\ mg(ki).width = g[ki[1]].width
        /\ mf(ki).from = b + Place(f, ki[1], ki[2]) /\ mg(ki).from = b + Place(g, ki[1], ki[2])
    BY DEF Member
  <2>3. Place(f, ki[1], ki[2]) \in Nat /\ Place(g, ki[1], ki[2]) \in Nat
    <3>1. ki[1] - 1 \in 0 .. Len(f) /\ ki[1] - 1 \in 0 .. Len(g) /\ ki[2] - 1 \in Nat
      BY <2>1
    <3>2. /\ Width(f) \in Nat /\ WidthTo(f, ki[1] - 1) \in Nat
          /\ Width(g) \in Nat /\ WidthTo(g, ki[1] - 1) \in Nat
      BY <3>1, Widths, Zenon
    <3>3. \A x, y, z \in Nat : x * y + z \in Nat
      OBVIOUS
    <3> QED
      BY <3>1, <3>2, <3>3, Zenon DEF Place
  <2>4. g[ki[1]].member = f[ki[1]].member
    BY <2>1
  <2>5. bad(ki) => mf(ki) # mg(ki)
    <3> HIDE DEF mf, mg
    <3> QED
      BY <2>2, <2>3
  <2>6. ~bad(ki) => mf(ki) = mg(ki)
    BY <2>4 DEF Member
  <2> HIDE DEF mf, mg, bad
  <2> QED
    BY <2>1, <2>2, <2>4, <2>5, <2>6
<1>4. ASSUME NEW ki \in D, NEW kj \in D, mf(ki) = mg(kj) \/ mg(ki) = mf(kj)
      PROVE  ki = kj
  <2>1. ki[2] = kj[2] /\ f[ki[1]].member = f[kj[1]].member
    <3> HIDE DEF mf, mg, bad, D
    <3> QED
      BY <1>3, <1>4
  <2>2. ki[1] = kj[1]
    BY <1>3, <2>1
  <2> QED
    BY <2>1, <2>2
<1>5. F = {mf(ki) : ki \in D} /\ G = {mg(ki) : ki \in D}
  OBVIOUS
<1> HIDE DEF D, F, G, bad, mf, mg
<1>6. \A ki \in D : mf(ki) \notin E /\ mg(ki) \notin E
  BY <1>3
<1>7. ((E \cup F) \ (E \cup G)) \cup ((E \cup G) \ (E \cup F))
        = {mf(ki) : ki \in {ki \in D : bad(ki)}} \cup {mg(ki) : ki \in {ki \in D : bad(ki)}}
  <2>1. ASSUME NEW e, e \in F \ G PROVE \E ki \in D : bad(ki) /\ e = mf(ki) /\ e \notin E
    BY <1>3, <1>5, <1>6, <2>1
  <2>2. ASSUME NEW e, e \in G \ F PROVE \E ki \in D : bad(ki) /\ e = mg(ki) /\ e \notin E
    BY <1>3, <1>5, <1>6, <2>2
  <2>3. ASSUME NEW ki \in D, bad(ki)
        PROVE  /\ mf(ki) \in F /\ mf(ki) \notin G /\ mf(ki) \notin E
               /\ mg(ki) \in G /\ mg(ki) \notin F /\ mg(ki) \notin E
    BY <1>3, <1>4, <1>5, <1>6, <2>3
  <2> QED
    BY <2>1, <2>2, <2>3
<1>8. \A ki \in D : /\ name(mf(ki)) = <<f[ki[1]].member, ki[2]>>
                    /\ name(mg(ki)) = <<f[ki[1]].member, ki[2]>>
  BY <1>3
<1>9. Difference(E \cup F, E \cup G)
        = {name(e) : e \in {mf(ki) : ki \in {ki \in D : bad(ki)}}
                             \cup {mg(ki) : ki \in {ki \in D : bad(ki)}}}
  BY <1>7 DEF Difference
<1> HIDE DEF name
<1>10. Difference(E \cup F, E \cup G)
        = {<<f[ki[1]].member, ki[2]>> : ki \in {ki \in D : bad(ki)}}
  <2> DEFINE B == {ki \in D : bad(ki)}
             pair(ki) == <<f[ki[1]].member, ki[2]>>
  <2>1. \A ki \in B : name(mf(ki)) = pair(ki) /\ name(mg(ki)) = pair(ki)
    BY <1>8
  <2> HIDE DEF B, pair
  <2> DEFINE X == {mf(ki) : ki \in B} \cup {mg(ki) : ki \in B}
  <2>2. ASSUME NEW e \in X PROVE \E ki \in B : name(e) = pair(ki)
    BY <2>1, Zenon
  <2>3. ASSUME NEW ki \in B PROVE mf(ki) \in X /\ name(mf(ki)) = pair(ki)
    BY <2>1, Zenon
  <2> HIDE DEF X
  <2>4. {name(e) : e \in X} = {pair(ki) : ki \in B}
    BY <2>2, <2>3, ZenonT(30)
  <2> QED
    BY <1>9, <2>4 DEF B, pair, X
<1>11. {ki \in D : bad(ki)} = Misplaced(f, g, n)
  BY DEF Misplaced, D, bad
<1> QED
  BY <1>2, <1>10, <1>11, Zenon DEF NamesMisplaced

-----------------------------------------------------------------------------
(* The layouts of the two servers *)

\* The members that the packets have.
LEMMA Known ==
    /\ "packet_length" \in MemberNames /\ "operate_code" \in MemberNames
    /\ "data_length" \in MemberNames /\ "current_time" \in MemberNames
    /\ "msg_type" \in MemberNames /\ "is_zip" \in MemberNames /\ "msg_id" \in MemberNames
    /\ "reserverd" \in MemberNames /\ "platform_id" \in MemberNames
    /\ "user_id" \in MemberNames /\ "net_type" \in MemberNames
    /\ "user_type" \in MemberNames /\ "device" \in MemberNames /\ "token" \in MemberNames
    /\ "nick_number" \in MemberNames /\ "nickname" \in MemberNames
    /\ "head_url" \in MemberNames /\ "session" \in MemberNames
    /\ "oppostion_id" \in MemberNames /\ "type" \in MemberNames
    /\ "send_user_id" \in MemberNames /\ "recv_user_id" \in MemberNames
    /\ "session_id" \in MemberNames /\ "private_msg_id" \in MemberNames
    /\ "oppo_id" \in MemberNames /\ "oppo_nick_number" \in MemberNames
    /\ "oppo_type" \in MemberNames /\ "oppo_nickname" \in MemberNames
    /\ "oppo_user_head" \in MemberNames /\ "group_id" \in MemberNames
    /\ "user_nicknumber" \in MemberNames /\ "user_head" \in MemberNames
    /\ "multi_id" \in MemberNames /\ "send_nickname" \in MemberNames
    /\ "multi_type" \in MemberNames /\ "error_msg" \in MemberNames
    /\ "content" \in MemberNames /\ "sound_path" \in MemberNames /\ "uid" \in MemberNames
    /\ "latitude" \in MemberNames /\ "longitude" \in MemberNames
    /\ "songid" \in MemberNames /\ "type_id" \in MemberNames /\ "robot_id" \in MemberNames
    /\ "song_id" \in MemberNames /\ "typid" \in MemberNames /\ "mode" \in MemberNames
    /\ "name" \in MemberNames /\ "singer" \in MemberNames /\ "assistant_id" \in MemberNames
    /\ "share_plat" \in MemberNames /\ "prize" \in MemberNames
    /\ "machine_id" \in MemberNames /\ "message" \in MemberNames
  BY DEF MemberNames

\* Numbers of one width, and of a text.
LEMMA Ints ==
    /\ \A w \in Nat :
         /\ \A a \in MemberNames : Wide(Fields(<<a>>, w), 1 * w)
         /\ \A a, b \in MemberNames : Wide(Fields(<<a, b>>, w), 2 * w)
         /\ \A a, b, c \in MemberNames : Wide(Fields(<<a, b, c>>, w), 3 * w)
         /\ \A a, b, c, d \in MemberNames : Wide(Fields(<<a, b, c, d>>, w), 4 * w)
         /\ \A a, b, c, d, e \in MemberNames : Wide(Fields(<<a, b, c, d, e>>, w), 5 * w)
<1>1. ASSUME NEW w \in Nat, NEW a \in MemberNames
      PROVE  Wide(Fields(<<a>>, w), 1 * w)
  <2>1. <<a>> \in Seq(MemberNames) /\ Len(<<a>>) = 1
    OBVIOUS
  <2> QED
    BY <2>1, WideFields

<1>2. ASSUME NEW w \in Nat, NEW a \in MemberNames, NEW b \in MemberNames
      PROVE  Wide(Fields(<<a, b>>, w), 2 * w)
  <2>1. <<a, b>> \in Seq(MemberNames) /\ Len(<<a, b>>) = 2
    OBVIOUS
  <2> QED
    BY <2>1, WideFields

<1>3. ASSUME NEW w \in Nat, NEW a \in MemberNames, NEW b \in MemberNames, NEW c \in MemberNames
      PROVE  Wide(Fields(<<a, b, c>>, w), 3 * w)
  <2>1. <<a, b, c>> \in Seq(MemberNames) /\ Len(<<a, b, c>>) = 3
    OBVIOUS
  <2> QED
    BY <2>1, WideFields

<1>4. ASSUME NEW w \in Nat, NEW a \in MemberNames, NEW b \in MemberNames, NEW c \in MemberNames,
             NEW d \in MemberNames
      PROVE  Wide(Fields(<<a, b, c, d>>, w), 4 * w)
  <2>1. <<a, b, c, d>> \in Seq(MemberNames) /\ Len(<<a, b, c, d>>) = 4
    OBVIOUS
  <2> QED
    BY <2>1, WideFields

<1>5. ASSUME NEW w \in Nat, NEW a \in MemberNames, NEW b \in MemberNames, NEW c \in MemberNames,
             NEW d \in MemberNames, NEW e \in MemberNames
      PROVE  Wide(Fields(<<a, b, c, d, e>>, w), 5 * w)
  <2>1. <<a, b, c, d, e>> \in Seq(MemberNames) /\ Len(<<a, b, c, d, e>>) = 5
    OBVIOUS
  <2> QED
    BY <2>1, WideFields

<1> QED
  BY <1>1, <1>2, <1>3, <1>4, <1>5

\* The same as the chat's packets have them.
LEMMA ChatWide ==
    /\ \A a, b, c, d, e \in MemberNames : Wide(Chat!Int64s(<<a, b, c, d, e>>), 5 * 8)
    /\ \A a, b, c, d \in MemberNames : Wide(Chat!Int64s(<<a, b, c, d>>), 4 * 8)
    /\ \A a, b, c \in MemberNames : Wide(Chat!Int64s(<<a, b, c>>), 3 * 8)
    /\ \A a, b \in MemberNames : Wide(Chat!Int64s(<<a, b>>), 2 * 8)
    /\ \A a \in MemberNames : Wide(Chat!Int64s(<<a>>), 1 * 8)
    /\ \A a \in MemberNames : Wide(Chat!Int16s(<<a>>), 1 * 2)
    /\ \A a, b, c \in MemberNames : Wide(Chat!Int8s(<<a, b, c>>), 3 * 1)
    /\ \A a \in MemberNames : \A w \in Nat : Wide(Chat!Data(a, w), w)
<1>1. /\ \A m : Chat!Int8s(m) = Fields(m, 1) /\ Chat!Int16s(m) = Fields(m, 2)
      /\ \A m : Chat!Int64s(m) = Fields(m, 8)
      /\ \A m, w : Chat!Data(m, w) = Data(m, w)
  BY DEF Chat!Int8s, Chat!Int16s, Chat!Int64s,
         Chat!Fields, Fields, Chat!Data, Data
<1>2. 1 \in Nat /\ 2 \in Nat /\ 4 \in Nat /\ 8 \in Nat
  OBVIOUS
<1> QED
  BY <1>1, <1>2, Ints, WideData, Zenon

\* The same as the robot's packets have them.
LEMMA RobotWide ==
    /\ \A a, b, c, d \in MemberNames : Wide(Robot!Int64s(<<a, b, c, d>>), 4 * 8)
    /\ \A a, b, c \in MemberNames : Wide(Robot!Int64s(<<a, b, c>>), 3 * 8)
    /\ \A a, b \in MemberNames : Wide(Robot!Int64s(<<a, b>>), 2 * 8)
    /\ \A a \in MemberNames : Wide(Robot!Int64s(<<a>>), 1 * 8)
    /\ \A a, b \in MemberNames : Wide(Robot!Int32s(<<a, b>>), 2 * 4)
    /\ \A a \in MemberNames : Wide(Robot!Int32s(<<a>>), 1 * 4)
    /\ \A a \in MemberNames : Wide(Robot!Int8s(<<a>>), 1 * 1)
    /\ \A a \in MemberNames : \A w \in Nat : Wide(Robot!Data(a, w), w)
<1>1. /\ \A m : Robot!Int8s(m) = Fields(m, 1) /\ Robot!Int32s(m) = Fields(m, 4)
      /\ \A m : Robot!Int64s(m) = Fields(m, 8)
      /\ \A m, w : Robot!Data(m, w) = Data(m, w)
  BY DEF Robot!Int8s, Robot!Int32s, Robot!Int64s,
         Robot!Fields, Fields, Robot!Data, Data
<1>2. 1 \in Nat /\ 2 \in Nat /\ 4 \in Nat /\ 8 \in Nat
  OBVIOUS
<1> QED
  BY <1>1, <1>2, Ints, WideData, Zenon

\* Several kinds of members, one after another.
LEMMA WideThree ==
    ASSUME NEW x1, NEW x2, NEW x3,
           NEW w1, NEW w2, NEW w3,
           Wide(x1, w1), Wide(x2, w2), Wide(x3, w3)
    PROVE  Wide(x1 \o x2 \o x3, w1 + w2 + w3)
<1>1. Wide(x1 \o x2, w1 + w2)
  BY WideBoth, Zenon
<1> QED
  BY <1>1, WideBoth, Zenon

\* The texts of fixed length.
LEMMA TextWidths ==
    /\ Chat!TOKEN_LEN \in Nat /\ Chat!NICKNAME_LEN \in Nat /\ Chat!HEAD_URL_LEN \in Nat
    /\ Robot!NICKNAME_LEN \in Nat /\ Robot!MODE_LEN \in Nat /\ Robot!NAME_LEN \in Nat
    /\ Robot!SINGER_LEN \in Nat /\ Robot!MESSAGE_LEN \in Nat
  BY DEF Chat!TOKEN_LEN, Chat!NICKNAME_LEN, Chat!HEAD_URL_LEN, Robot!NICKNAME_LEN,
         Robot!MODE_LEN, Robot!NAME_LEN, Robot!SINGER_LEN, Robot!MESSAGE_LEN

\* The bytes that the chat's sign-in packets are written to, of each type.
LEMMA ChatSignInWide ==
    /\ Wide(Chat!SignInWritten["USER_LOGIN"], 2 * 8 + 3 * 1 + Chat!TOKEN_LEN)
    /\ Wide(Chat!SignInWritten["USER_LOGIN_SUCESS"],
            3 * 8 + Chat!TOKEN_LEN + Chat!NICKNAME_LEN + Chat!HEAD_URL_LEN)
    /\ Wide(Chat!SignInWritten["USER_LOGIN_FAILED"], 1 * 8)
    /\ Wide(Chat!SignInWritten["USER_QUIT"], 3 * 8 + Chat!TOKEN_LEN)
    /\ Wide(Chat!SignInWritten["USER_NOTIFICATION_QUIT"], 2 * 8)
    /\ Wide(Chat!SignInWritten["REQ_OPPOSITION_INFO"], 3 * 8 + 1 * 2 + Chat!TOKEN_LEN)
<1>1. Wide(Chat!SignInWritten["USER_LOGIN"],
           2 * 8 + 3 * 1 + Chat!TOKEN_LEN)
  <2>1. /\ Wide(Chat!Int64s(<<"platform_id", "user_id">>), 2 * 8)
        /\ Wide(Chat!Int8s(<<"net_type", "user_type", "device">>), 3 * 1)
        /\ Wide(Chat!Data("token", Chat!TOKEN_LEN), Chat!TOKEN_LEN)
    BY Known, ChatWide, TextWidths, Zenon
  <2> QED
    BY <2>1, WideThree, Zenon DEF Chat!SignInWritten
<1>2. Wide(Chat!SignInWritten["USER_LOGIN_SUCESS"],
           3 * 8 + Chat!TOKEN_LEN + Chat!NICKNAME_LEN + Chat!HEAD_URL_LEN)
  <2>1. /\ Wide(Chat!Int64s(<<"platform_id", "user_id", "nick_number">>), 3 * 8)
        /\ Wide(Chat!Data("token", Chat!TOKEN_LEN), Chat!TOKEN_LEN)
        /\ Wide(Chat!Data("nickname", Chat!NICKNAME_LEN), Chat!NICKNAME_LEN)
        /\ Wide(Chat!Data("head_url", Chat!HEAD_URL_LEN), Chat!HEAD_URL_LEN)
    BY Known, ChatWide, TextWidths, Zenon
  <2>2. Wide(Chat!Int64s(<<"platform_id", "user_id", "nick_number">>)
               \o Chat!Data("token", Chat!TOKEN_LEN)
               \o Chat!Data("nickname", Chat!NICKNAME_LEN),
             3 * 8 + Chat!TOKEN_LEN + Chat!NICKNAME_LEN)
    BY <2>1, WideThree, Zenon
  <2> QED
    BY <2>1, <2>2, WideBoth, Zenon DEF Chat!SignInWritten
<1>3. Wide(Chat!SignInWritten["USER_LOGIN_FAILED"],
           1 * 8)
  BY Known, ChatWide, Zenon DEF Chat!SignInWritten
<1>4. Wide(Chat!SignInWritten["USER_QUIT"],
           3 * 8 + Chat!TOKEN_LEN)
  <2>1. /\ Wide(Chat!Int64s(<<"platform_id", "user_id", "session">>), 3 * 8)
        /\ Wide(Chat!Data("token", Chat!TOKEN_LEN), Chat!TOKEN_LEN)
    BY Known, ChatWide, TextWidths, Zenon
  <2> QED
    BY <2>1, WideBoth, Zenon DEF Chat!SignInWritten
<1>5. Wide(Chat!SignInWritten["USER_NOTIFICATION_QUIT"],
           2 * 8)
  BY Known, ChatWide, Zenon DEF Chat!SignInWritten
<1>6. Wide(Chat!SignInWritten["REQ_OPPOSITION_INFO"],
           3 * 8 + 1 * 2 + Chat!TOKEN_LEN)
  <2>1. /\ Wide(Chat!Int64s(<<"platform_id", "user_id", "oppostion_id">>), 3 * 8)
        /\ Wide(Chat!Int16s(<<"type">>), 1 * 2)
        /\ Wide(Chat!Data("token", Chat!TOKEN_LEN), Chat!TOKEN_LEN)
    BY Known, ChatWide, TextWidths, Zenon
  <2> QED
    BY <2>1, WideThree, Zenon DEF Chat!SignInWritten
<1> QED
  BY <1>1, <1>2, <1>3, <1>4, <1>5, <1>6

\* The same for its messages between two users.
LEMMA ChatPrivateWide ==
    /\ Wide(Chat!PrivateWritten["TEXT_CHAT_PRIVATE_SEND"], 4 * 8 + Chat!TOKEN_LEN)
    /\ Wide(Chat!PrivateWritten["TEXT_CHAT_PRIVATE_RECV"], 3 * 8)
    /\ Wide(Chat!PrivateWritten["PACKET_CONFIRM"], 5 * 8 + Chat!TOKEN_LEN)
<1>1. Wide(Chat!PrivateWritten["TEXT_CHAT_PRIVATE_SEND"],
           4 * 8 + Chat!TOKEN_LEN)
  <2>1. /\ Wide(Chat!Int64s(<<"platform_id", "send_user_id", "recv_user_id", "session">>), 4 * 8)
        /\ Wide(Chat!Data("token", Chat!TOKEN_LEN), Chat!TOKEN_LEN)
    BY Known, ChatWide, TextWidths, Zenon
  <2> QED
    BY <2>1, WideBoth, Zenon DEF Chat!PrivateWritten
<1>2. Wide(Chat!PrivateWritten["TEXT_CHAT_PRIVATE_RECV"],
           3 * 8)
  BY Known, ChatWide, Zenon DEF Chat!PrivateWritten
<1>3. Wide(Chat!PrivateWritten["PACKET_CONFIRM"],
           5 * 8 + Chat!TOKEN_LEN)
  <2>1. /\ Wide(Chat!Int64s(<<"platform_id", "send_user_id", "recv_user_id", "session_id",
                            "private_msg_id">>), 5 * 8)
        /\ Wide(Chat!Data("token", Chat!TOKEN_LEN), Chat!TOKEN_LEN)
    BY Known, ChatWide, TextWidths, Zenon
  <2> QED
    BY <2>1, WideBoth, Zenon DEF Chat!PrivateWritten
<1> QED
  BY <1>1, <1>2, <1>3

\* The same for its messages to groups.
LEMMA ChatGroupWide ==
    /\ Wide(Chat!GroupWritten["GET_OPPOSITION_INFO"],
            4 * 8 + 1 * 2 + Chat!NICKNAME_LEN + Chat!HEAD_URL_LEN)
    /\ Wide(Chat!GroupWritten["USER_ONLINE_REQ"], 3 * 8 + Chat!TOKEN_LEN)
    /\ Wide(Chat!GroupWritten["USER_ONLINE_RSP"],
            4 * 8 + Chat!NICKNAME_LEN + Chat!HEAD_URL_LEN)
    /\ Wide(Chat!GroupWritten["MULTI_CHAT_SEND"], 4 * 8 + Chat!TOKEN_LEN)
    /\ Wide(Chat!GroupWritten["MULTI_CHAT_RECV"], 3 * 8 + Chat!NICKNAME_LEN)
    /\ Wide(Chat!GroupWritten["MULTI_SOUND_SEND"], 2 * 8 + 1 * 2 + 2 * 8 + Chat!TOKEN_LEN)
    /\ Wide(Chat!GroupWritten["MULTI_SOUND_RECV"], 3 * 8)
<1>1. Wide(Chat!GroupWritten["GET_OPPOSITION_INFO"],
           4 * 8 + 1 * 2 + Chat!NICKNAME_LEN + Chat!HEAD_URL_LEN)
  <2>1. /\ Wide(Chat!Int64s(<<"platform_id", "oppo_id", "oppo_nick_number", "session">>), 4 * 8)
        /\ Wide(Chat!Int16s(<<"oppo_type">>), 1 * 2)
        /\ Wide(Chat!Data("oppo_nickname", Chat!NICKNAME_LEN), Chat!NICKNAME_LEN)
        /\ Wide(Chat!Data("oppo_user_head", Chat!HEAD_URL_LEN), Chat!HEAD_URL_LEN)
    BY Known, ChatWide, TextWidths, Zenon
  <2>2. Wide(Chat!Int64s(<<"platform_id", "oppo_id", "oppo_nick_number", "session">>)
               \o Chat!Int16s(<<"oppo_type">>)
               \o Chat!Data("oppo_nickname", Chat!NICKNAME_LEN),
             4 * 8 + 1 * 2 + Chat!NICKNAME_LEN)
    BY <2>1, WideThree, Zenon
  <2> QED
    BY <2>1, <2>2, WideBoth, Zenon DEF Chat!GroupWritten
<1>2. Wide(Chat!GroupWritten["USER_ONLINE_REQ"],
           3 * 8 + Chat!TOKEN_LEN)
  <2>1. /\ Wide(Chat!Int64s(<<"platform_id", "group_id", "user_id">>), 3 * 8)
        /\ Wide(Chat!Data("token", Chat!TOKEN_LEN), Chat!TOKEN_LEN)
    BY Known, ChatWide, TextWidths, Zenon
  <2> QED
    BY <2>1, WideBoth, Zenon DEF Chat!GroupWritten
<1>3. Wide(Chat!GroupWritten["USER_ONLINE_RSP"],
           4 * 8 + Chat!NICKNAME_LEN + Chat!HEAD_URL_LEN)
  <2>1. /\ Wide(Chat!Int64s(<<"platform_id", "group_id", "user_id", "user_nicknumber">>), 4 * 8)
        /\ Wide(Chat!Data("nickname", Chat!NICKNAME_LEN), Chat!NICKNAME_LEN)
        /\ Wide(Chat!Data("user_head", Chat!HEAD_URL_LEN), Chat!HEAD_URL_LEN)
    BY Known, ChatWide, TextWidths, Zenon
  <2> QED
    BY <2>1, WideThree, Zenon DEF Chat!GroupWritten
<1>4. Wide(Chat!GroupWritten["MULTI_CHAT_SEND"],
           4 * 8 + Chat!TOKEN_LEN)
  <2>1. /\ Wide(Chat!Int64s(<<"platform_id", "multi_id", "send_user_id", "session">>), 4 * 8)
        /\ Wide(Chat!Data("token", Chat!TOKEN_LEN), Chat!TOKEN_LEN)
    BY Known, ChatWide, TextWidths, Zenon
  <2> QED
    BY <2>1, WideBoth, Zenon DEF Chat!GroupWritten
<1>5. Wide(Chat!GroupWritten["MULTI_CHAT_RECV"],
           3 * 8 + Chat!NICKNAME_LEN)
  <2>1. /\ Wide(Chat!Int64s(<<"platform_id", "multi_id", "send_user_id">>), 3 * 8)
        /\ Wide(Chat!Data("send_nickname", Chat!NICKNAME_LEN), Chat!NICKNAME_LEN)
    BY Known, ChatWide, TextWidths, Zenon
  <2> QED
    BY <2>1, WideBoth, Zenon DEF Chat!GroupWritten
<1>6. Wide(Chat!GroupWritten["MULTI_SOUND_SEND"],
           2 * 8 + 1 * 2 + 2 * 8 + Chat!TOKEN_LEN)
  <2>1. /\ Wide(Chat!Int64s(<<"platform_id", "multi_id">>), 2 * 8)
        /\ Wide(Chat!Int16s(<<"multi_type">>), 1 * 2)
        /\ Wide(Chat!Int64s(<<"send_user_id", "session">>), 2 * 8)
        /\ Wide(Chat!Data("token", Chat!TOKEN_LEN), Chat!TOKEN_LEN)
    BY Known, ChatWide, TextWidths, Zenon
  <2>2. Wide(Chat!Int64s(<<"platform_id", "multi_id">>)
               \o Chat!Int16s(<<"multi_type">>)
               \o Chat!Int64s(<<"send_user_id", "session">>),
             2 * 8 + 1 * 2 + 2 * 8)
    BY <2>1, WideThree, Zenon
  <2> QED
    BY <2>1, <2>2, WideBoth, Zenon DEF Chat!GroupWritten
<1>7. Wide(Chat!GroupWritten["MULTI_SOUND_RECV"],
           3 * 8)
  BY Known, ChatWide, Zenon DEF Chat!GroupWritten
<1> QED
  BY <1>1, <1>2, <1>3, <1>4, <1>5, <1>6, <1>7

\* The same for the robot server's packets of logins and current songs.
LEMMA RobotLoginWide ==
    /\ Wide(Robot!LoginWritten["NOTICE_USER_LOGIN"], 2 * 8 + 2 * 4)
    /\ Wide(Robot!LoginWritten["NOTICE_USER_DEFAULT_SONG"], 3 * 8 + 1 * 4)
    /\ Wide(Robot!LoginWritten["NOTICE_USER_CURRENT_SONG"], 3 * 8 + 1 * 4)
    /\ Wide(Robot!LoginWritten["NOTICE_USER_ROBOT_LOGIN"], 1 * 8)
    /\ Wide(Robot!LoginWritten["SCHEDULER_LOGIN"], 1 * 8)
    /\ Wide(Robot!LoginWritten["ROBOT_LOGIN"], 3 * 8)
<1>1. Wide(Robot!LoginWritten["NOTICE_USER_LOGIN"],
           2 * 8 + 2 * 4)
  <2>1. /\ Wide(Robot!Int64s(<<"platform_id", "uid">>), 2 * 8)
        /\ Wide(Robot!Int32s(<<"latitude", "longitude">>), 2 * 4)
    BY Known, RobotWide, TextWidths, Zenon
  <2> QED
    BY <2>1, WideBoth, Zenon DEF Robot!LoginWritten
<1>2. Wide(Robot!LoginWritten["NOTICE_USER_DEFAULT_SONG"],
           3 * 8 + 1 * 4)
  <2>1. /\ Wide(Robot!Int64s(<<"platform_id", "uid", "songid">>), 3 * 8)
        /\ Wide(Robot!Int32s(<<"type_id">>), 1 * 4)
    BY Known, RobotWide, TextWidths, Zenon
  <2> QED
    BY <2>1, WideBoth, Zenon DEF Robot!LoginWritten
<1>3. Wide(Robot!LoginWritten["NOTICE_USER_CURRENT_SONG"],
           3 * 8 + 1 * 4)
  <2>1. /\ Wide(Robot!Int64s(<<"platform_id", "uid", "songid">>), 3 * 8)
        /\ Wide(Robot!Int32s(<<"type_id">>), 1 * 4)
    BY Known, RobotWide, TextWidths, Zenon
  <2> QED
    BY <2>1, WideBoth, Zenon DEF Robot!LoginWritten
<1>4. Wide(Robot!LoginWritten["NOTICE_USER_ROBOT_LOGIN"],
           1 * 8)
  BY Known, RobotWide, Zenon DEF Robot!LoginWritten
<1>5. Wide(Robot!LoginWritten["SCHEDULER_LOGIN"],
           1 * 8)
  BY Known, RobotWide, Zenon DEF Robot!LoginWritten
<1>6. Wide(Robot!LoginWritten["ROBOT_LOGIN"],
           3 * 8)
  BY Known, RobotWide, Zenon DEF Robot!LoginWritten
<1> QED
  BY <1>1, <1>2, <1>3, <1>4, <1>5, <1>6

\* The same for its packets of robots and assistants.
LEMMA RobotSongWide ==
    /\ Wide(Robot!SongWritten["NOTICE_USER_ROBOT_HANDSEL_SONG"], 4 * 8)
    /\ Wide(Robot!SongWritten["NOTICE_USER_ROBOT_LISTEN_SONG"],
            2 * 8 + 1 * 4 + Robot!MODE_LEN + Robot!NAME_LEN + Robot!SINGER_LEN)
    /\ Wide(Robot!SongWritten["NOTICE_ASSISTANT_LOGIN"], 2 * 8 + Robot!NICKNAME_LEN)
    /\ Wide(Robot!SongWritten["ASSISTANT_LOGIN_SUCCESS"], 2 * 8)
    /\ Wide(Robot!SongWritten["NOTICE_USER_ROBOT_CHAT_LOGIN"], 3 * 8)
    /\ Wide(Robot!SongWritten["NOTICE_USER_ROBOT_SCHEDULER_CHAT_LOGIN"], 3 * 8)
    /\ Wide(Robot!SongWritten["NOTICE_USER_ROBOT_GIFT_LUCK"],
            2 * 8 + 2 * 4 + Robot!NAME_LEN + Robot!SINGER_LEN)
    /\ Wide(Robot!SongWritten["NOTICE_USER_READY_GIFT_LUCK"], 3 * 8 + 1 * 4)
    /\ Wide(Robot!SongWritten["NOTICE_ASSISTANT_HANDSEL_SONG"], 2 * 8)
    /\ Wide(Robot!SongWritten["HEART_PACKET"], 0)
<1>1. Wide(Robot!SongWritten["NOTICE_USER_ROBOT_HANDSEL_SONG"],
           4 * 8)
  BY Known, RobotWide, Zenon DEF Robot!SongWritten
<1>2. Wide(Robot!SongWritten["NOTICE_USER_ROBOT_LISTEN_SONG"],
           2 * 8 + 1 * 4 + Robot!MODE_LEN + Robot!NAME_LEN + Robot!SINGER_LEN)
  <2>1. /\ Wide(Robot!Int64s(<<"platform_id", "songid">>), 2 * 8)
        /\ Wide(Robot!Int32s(<<"typid">>), 1 * 4)
        /\ Wide(Robot!Data("mode", Robot!MODE_LEN), Robot!MODE_LEN)
        /\ Wide(Robot!Data("name", Robot!NAME_LEN), Robot!NAME_LEN)
        /\ Wide(Robot!Data("singer", Robot!SINGER_LEN), Robot!SINGER_LEN)
    BY Known, RobotWide, TextWidths, Zenon
  <2>2. Wide(Robot!Int64s(<<"platform_id", "songid">>) \o Robot!Int32s(<<"typid">>)
               \o Robot!Data("mode", Robot!MODE_LEN),
             2 * 8 + 1 * 4 + Robot!MODE_LEN)
    BY <2>1, WideThree, Zenon
  <2>3. Wide(Robot!Int64s(<<"platform_id", "songid">>) \o Robot!Int32s(<<"typid">>)
               \o Robot!Data("mode", Robot!MODE_LEN)
               \o Robot!Data("name", Robot!NAME_LEN),
             2 * 8 + 1 * 4 + Robot!MODE_LEN + Robot!NAME_LEN)
    BY <2>1, <2>2, WideBoth, Zenon
  <2> QED
    BY <2>1, <2>3, WideBoth, Zenon DEF Robot!SongWritten
<1>3. Wide(Robot!SongWritten["NOTICE_ASSISTANT_LOGIN"],
           2 * 8 + Robot!NICKNAME_LEN)
  <2>1. /\ Wide(Robot!Int64s(<<"platform_id", "assistant_id">>), 2 * 8)
        /\ Wide(Robot!Data("nickname", Robot!NICKNAME_LEN), Robot!NICKNAME_LEN)
    BY Known, RobotWide, TextWidths, Zenon
  <2> QED
    BY <2>1, WideBoth, Zenon DEF Robot!SongWritten
<1>4. Wide(Robot!SongWritten["ASSISTANT_LOGIN_SUCCESS"],
           2 * 8)
  BY Known, RobotWide, Zenon DEF Robot!SongWritten
<1>5. Wide(Robot!SongWritten["NOTICE_USER_ROBOT_CHAT_LOGIN"],
           3 * 8)
  BY Known, RobotWide, Zenon DEF Robot!SongWritten
<1>6. Wide(Robot!SongWritten["NOTICE_USER_ROBOT_SCHEDULER_CHAT_LOGIN"],
           3 * 8)
  BY Known, RobotWide, Zenon DEF Robot!SongWritten
<1>7. Wide(Robot!SongWritten["NOTICE_USER_ROBOT_GIFT_LUCK"],
           2 * 8 + 2 * 4 + Robot!NAME_LEN + Robot!SINGER_LEN)
  <2>1. /\ Wide(Robot!Int64s(<<"platform_id", "uid">>), 2 * 8)
        /\ Wide(Robot!Int32s(<<"share_plat", "prize">>), 2 * 4)
        /\ Wide(Robot!Data("name", Robot!NAME_LEN), Robot!NAME_LEN)
        /\ Wide(Robot!Data("singer", Robot!SINGER_LEN), Robot!SINGER_LEN)
    BY Known, RobotWide, TextWidths, Zenon
  <2>2. Wide(Robot!Int64s(<<"platform_id", "uid">>)
               \o Robot!Int32s(<<"share_plat", "prize">>)
               \o Robot!Data("name", Robot!NAME_LEN),
             2 * 8 + 2 * 4 + Robot!NAME_LEN)
    BY <2>1, WideThree, Zenon
  <2> QED
    BY <2>1, <2>2, WideBoth, Zenon DEF Robot!SongWritten
<1>8. Wide(Robot!SongWritten["NOTICE_USER_READY_GIFT_LUCK"],
           3 * 8 + 1 * 4)
  <2>1. /\ Wide(Robot!Int64s(<<"platform_id", "uid", "songid">>), 3 * 8)
        /\ Wide(Robot!Int32s(<<"share_plat">>), 1 * 4)
    BY Known, RobotWide, TextWidths, Zenon
  <2> QED
    BY <2>1, WideBoth, Zenon DEF Robot!SongWritten
<1>9. Wide(Robot!SongWritten["NOTICE_ASSISTANT_HANDSEL_SONG"],
           2 * 8)
  BY Known, RobotWide, Zenon DEF Robot!SongWritten
<1>10. Wide(Robot!SongWritten["HEART_PACKET"],
           0)
  BY WideNone, Zenon DEF Robot!SongWritten
<1> QED
  BY <1>1, <1>2, <1>3, <1>4, <1>5, <1>6, <1>7, <1>8, <1>9, <1>10

\* The bytes of a packet that are not written: behind the position of a user that
\* logs in, which is written as 8 bytes and counted as 16.
Unfilled(code) == IF code = "NOTICE_USER_LOGIN" THEN 8 ELSE 0

\* The chat's groups of packets have different codes.
LEMMA ChatGroups ==
    /\ \A code \in DOMAIN Chat!SignInWritten : Chat!Written[code] = Chat!SignInWritten[code]
    /\ \A code \in DOMAIN Chat!PrivateWritten : Chat!Written[code] = Chat!PrivateWritten[code]
    /\ \A code \in DOMAIN Chat!GroupWritten : Chat!Written[code] = Chat!GroupWritten[code]
    /\ \A code \in DOMAIN Chat!SignInRead : Chat!ReadFields[code] = Chat!SignInRead[code]
    /\ \A code \in DOMAIN Chat!PrivateRead : Chat!ReadFields[code] = Chat!PrivateRead[code]
    /\ \A code \in DOMAIN Chat!GroupRead : Chat!ReadFields[code] = Chat!GroupRead[code]
    /\ DOMAIN Chat!Written = DOMAIN Chat!SignInWritten
         \cup DOMAIN Chat!PrivateWritten \cup DOMAIN Chat!GroupWritten
    /\ DOMAIN Chat!Size = DOMAIN Chat!Written
<1>1. /\ DOMAIN Chat!SignInWritten =
           {"USER_LOGIN", "USER_LOGIN_SUCESS", "USER_LOGIN_FAILED", "USER_QUIT",
            "USER_NOTIFICATION_QUIT", "REQ_OPPOSITION_INFO"}
      /\ DOMAIN Chat!PrivateWritten =
           {"TEXT_CHAT_PRIVATE_SEND", "TEXT_CHAT_PRIVATE_RECV", "PACKET_CONFIRM"}
      /\ DOMAIN Chat!GroupWritten =
           {"GET_OPPOSITION_INFO", "USER_ONLINE_REQ", "USER_ONLINE_RSP",
            "MULTI_CHAT_SEND", "MULTI_CHAT_RECV", "MULTI_SOUND_SEND",
            "MULTI_SOUND_RECV"}
      /\ DOMAIN Chat!SignInRead =
           {"USER_LOGIN", "USER_LOGIN_SUCESS", "USER_LOGIN_FAILED", "USER_QUIT",
            "USER_NOTIFICATION_QUIT", "REQ_OPPOSITION_INFO"}
      /\ DOMAIN Chat!PrivateRead =
           {"USER_ONLINE_REQ", "USER_ONLINE_RSP", "TEXT_CHAT_PRIVATE_RECV",
            "TEXT_CHAT_PRIVATE_SEND", "PACKET_CONFIRM"}
      /\ DOMAIN Chat!GroupRead =
           {"GET_OPPOSITION_INFO", "MULTI_CHAT_SEND", "MULTI_CHAT_RECV",
            "MULTI_SOUND_SEND", "MULTI_SOUND_RECV"}
  BY DEF Chat!SignInWritten, Chat!PrivateWritten, Chat!GroupWritten,
         Chat!SignInRead, Chat!PrivateRead, Chat!GroupRead
<1>2. /\ \A code \in DOMAIN Chat!SignInWritten : Chat!Written[code] = Chat!SignInWritten[code]
      /\ \A code \in DOMAIN Chat!PrivateWritten : Chat!Written[code] = Chat!PrivateWritten[code]
      /\ \A code \in DOMAIN Chat!GroupWritten : Chat!Written[code] = Chat!GroupWritten[code]
      /\ DOMAIN Chat!Written = DOMAIN Chat!SignInWritten
           \cup DOMAIN Chat!PrivateWritten \cup DOMAIN Chat!GroupWritten
  <2>1. /\ DOMAIN Chat!SignInWritten \cap DOMAIN Chat!PrivateWritten = {}
        /\ DOMAIN Chat!SignInWritten \cap DOMAIN Chat!GroupWritten = {}
        /\ DOMAIN Chat!PrivateWritten \cap DOMAIN Chat!GroupWritten = {}
    BY <1>1
  <2>2. Chat!Written = Chat!Either(Chat!SignInWritten,
           Chat!Either(Chat!PrivateWritten, Chat!GroupWritten))
    BY DEF Chat!Written
  <2> QED
    BY <2>1, <2>2 DEF Chat!Either
<1>3. /\ \A code \in DOMAIN Chat!SignInRead : Chat!ReadFields[code] = Chat!SignInRead[code]
      /\ \A code \in DOMAIN Chat!PrivateRead : Chat!ReadFields[code] = Chat!PrivateRead[code]
      /\ \A code \in DOMAIN Chat!GroupRead : Chat!ReadFields[code] = Chat!GroupRead[code]
  <2>1. /\ DOMAIN Chat!SignInRead \cap DOMAIN Chat!PrivateRead = {}
        /\ DOMAIN Chat!SignInRead \cap DOMAIN Chat!GroupRead = {}
        /\ DOMAIN Chat!PrivateRead \cap DOMAIN Chat!GroupRead = {}
    BY <1>1
  <2>2. Chat!ReadFields = Chat!Either(Chat!SignInRead,
           Chat!Either(Chat!PrivateRead, Chat!GroupRead))
    BY DEF Chat!ReadFields
  <2> QED
    BY <2>1, <2>2 DEF Chat!Either
<1> QED
  BY <1>1, <1>2, <1>3 DEF Chat!Size

\* The robot's groups of packets have different codes.
LEMMA RobotGroups ==
    /\ \A code \in DOMAIN Robot!LoginWritten : Robot!Written[code] = Robot!LoginWritten[code]
    /\ \A code \in DOMAIN Robot!SongWritten : Robot!Written[code] = Robot!SongWritten[code]
    /\ \A code \in DOMAIN Robot!LoginRead : Robot!ReadFields[code] = Robot!LoginRead[code]
    /\ \A code \in DOMAIN Robot!SongRead : Robot!ReadFields[code] = Robot!SongRead[code]
    /\ DOMAIN Robot!Written = DOMAIN Robot!LoginWritten \cup DOMAIN Robot!SongWritten
    /\ DOMAIN Robot!Size = DOMAIN Robot!Written
<1>1. /\ DOMAIN Robot!LoginWritten =
           {"NOTICE_USER_LOGIN", "NOTICE_USER_DEFAULT_SONG",
            "NOTICE_USER_CURRENT_SONG", "NOTICE_USER_ROBOT_LOGIN",
            "SCHEDULER_LOGIN", "ROBOT_LOGIN"}
      /\ DOMAIN Robot!SongWritten =
           {"NOTICE_USER_ROBOT_HANDSEL_SONG", "NOTICE_USER_ROBOT_LISTEN_SONG",
            "NOTICE_ASSISTANT_LOGIN", "ASSISTANT_LOGIN_SUCCESS",
            "NOTICE_USER_ROBOT_CHAT_LOGIN",
            "NOTICE_USER_ROBOT_SCHEDULER_CHAT_LOGIN", "NOTICE_USER_ROBOT_GIFT_LUCK",
            "NOTICE_USER_READY_GIFT_LUCK", "NOTICE_ASSISTANT_HANDSEL_SONG",
            "HEART_PACKET"}
      /\ DOMAIN Robot!LoginRead =
           {"NOTICE_USER_LOGIN", "NOTICE_USER_DEFAULT_SONG",
            "NOTICE_USER_CURRENT_SONG", "NOTICE_USER_ROBOT_LOGIN",
            "SCHEDULER_LOGIN", "ROBOT_LOGIN"}
      /\ DOMAIN Robot!SongRead =
           {"NOTICE_USER_ROBOT_HANDSEL_SONG", "NOTICE_USER_ROBOT_LISTEN_SONG",
            "NOTICE_ASSISTANT_LOGIN", "ASSISTANT_LOGIN_SUCCESS",
            "NOTICE_USER_ROBOT_CHAT_LOGIN",
            "NOTICE_USER_ROBOT_SCHEDULER_CHAT_LOGIN", "NOTICE_USER_ROBOT_GIFT_LUCK",
            "NOTICE_USER_READY_GIFT_LUCK", "NOTICE_ASSISTANT_HANDSEL_SONG",
            "HEART_PACKET"}
  BY DEF Robot!LoginWritten, Robot!SongWritten, Robot!LoginRead, Robot!SongRead
<1>2. /\ \A code \in DOMAIN Robot!LoginWritten : Robot!Written[code] = Robot!LoginWritten[code]
      /\ \A code \in DOMAIN Robot!SongWritten : Robot!Written[code] = Robot!SongWritten[code]
      /\ DOMAIN Robot!Written = DOMAIN Robot!LoginWritten \cup DOMAIN Robot!SongWritten
  <2>1. DOMAIN Robot!LoginWritten \cap DOMAIN Robot!SongWritten = {}
    BY <1>1
  <2>2. Robot!Written = Robot!Either(Robot!LoginWritten, Robot!SongWritten)
    BY DEF Robot!Written
  <2> QED
    BY <2>1, <2>2 DEF Robot!Either
<1>3. /\ \A code \in DOMAIN Robot!LoginRead : Robot!ReadFields[code] = Robot!LoginRead[code]
      /\ \A code \in DOMAIN Robot!SongRead : Robot!ReadFields[code] = Robot!SongRead[code]
  <2>1. DOMAIN Robot!LoginRead \cap DOMAIN Robot!SongRead = {}
    BY <1>1
  <2>2. Robot!ReadFields = Robot!Either(Robot!LoginRead, Robot!SongRead)
    BY DEF Robot!ReadFields
  <2> QED
    BY <2>1, <2>2 DEF Robot!Either
<1> QED
  BY <1>1, <1>2, <1>3 DEF Robot!Size

\* Every packet of the chat server is as wide as its data_length says.
LEMMA ChatWritten ==
    /\ DOMAIN Chat!Written = DOMAIN Chat!Size
    /\ \A code \in DOMAIN Chat!Size :
         Wide(Chat!Written[code], Chat!Size[code] - Unfilled(code))
<1>1. DOMAIN Chat!SignInWritten =
        {"USER_LOGIN", "USER_LOGIN_SUCESS", "USER_LOGIN_FAILED", "USER_QUIT",
        "USER_NOTIFICATION_QUIT", "REQ_OPPOSITION_INFO"}
  BY DEF Chat!SignInWritten
<1>2. DOMAIN Chat!PrivateWritten =
        {"TEXT_CHAT_PRIVATE_SEND", "TEXT_CHAT_PRIVATE_RECV", "PACKET_CONFIRM"}
  BY DEF Chat!PrivateWritten
<1>3. DOMAIN Chat!GroupWritten =
        {"GET_OPPOSITION_INFO", "USER_ONLINE_REQ", "USER_ONLINE_RSP",
        "MULTI_CHAT_SEND", "MULTI_CHAT_RECV", "MULTI_SOUND_SEND",
        "MULTI_SOUND_RECV"}
  BY DEF Chat!GroupWritten
<1>4. \A code \in DOMAIN Chat!SignInWritten :
        Wide(Chat!SignInWritten[code], Chat!Size[code] - Unfilled(code))
  <2>1. /\ Chat!Size["USER_LOGIN"] - Unfilled("USER_LOGIN")
             = 2 * 8 + 3 * 1 + Chat!TOKEN_LEN
        /\ Chat!Size["USER_LOGIN_SUCESS"] - Unfilled("USER_LOGIN_SUCESS")
             = 3 * 8 + Chat!TOKEN_LEN + Chat!NICKNAME_LEN + Chat!HEAD_URL_LEN
        /\ Chat!Size["USER_LOGIN_FAILED"] - Unfilled("USER_LOGIN_FAILED")
             = 1 * 8
        /\ Chat!Size["USER_QUIT"] - Unfilled("USER_QUIT")
             = 3 * 8 + Chat!TOKEN_LEN
        /\ Chat!Size["USER_NOTIFICATION_QUIT"] - Unfilled("USER_NOTIFICATION_QUIT")
             = 2 * 8
        /\ Chat!Size["REQ_OPPOSITION_INFO"] - Unfilled("REQ_OPPOSITION_INFO")
             = 3 * 8 + 1 * 2 + Chat!TOKEN_LEN
    BY DEF Chat!Size, Unfilled, Chat!TOKEN_LEN, Chat!NICKNAME_LEN, Chat!HEAD_URL_LEN
  <2> QED
    BY <2>1, <1>1, ChatSignInWide, Zenon
<1>5. \A code \in DOMAIN Chat!PrivateWritten :
        Wide(Chat!PrivateWritten[code], Chat!Size[code] - Unfilled(code))
  <2>1. /\ Chat!Size["TEXT_CHAT_PRIVATE_SEND"] - Unfilled("TEXT_CHAT_PRIVATE_SEND")
             = 4 * 8 + Chat!TOKEN_LEN
        /\ Chat!Size["TEXT_CHAT_PRIVATE_RECV"] - Unfilled("TEXT_CHAT_PRIVATE_RECV")
             = 3 * 8
        /\ Chat!Size["PACKET_CONFIRM"] - Unfilled("PACKET_CONFIRM")
             = 5 * 8 + Chat!TOKEN_LEN
    BY DEF Chat!Size, Unfilled, Chat!TOKEN_LEN, Chat!NICKNAME_LEN, Chat!HEAD_URL_LEN
  <2> QED
    BY <2>1, <1>2, ChatPrivateWide, Zenon
<1>6. \A code \in DOMAIN Chat!GroupWritten :
        Wide(Chat!GroupWritten[code], Chat!Size[code] - Unfilled(code))
  <2>1. /\ Chat!Size["GET_OPPOSITION_INFO"] - Unfilled("GET_OPPOSITION_INFO")
             = 4 * 8 + 1 * 2 + Chat!NICKNAME_LEN + Chat!HEAD_URL_LEN
        /\ Chat!Size["USER_ONLINE_REQ"] - Unfilled("USER_ONLINE_REQ")
             = 3 * 8 + Chat!TOKEN_LEN
        /\ Chat!Size["USER_ONLINE_RSP"] - Unfilled("USER_ONLINE_RSP")
             = 4 * 8 + Chat!NICKNAME_LEN + Chat!HEAD_URL_LEN
        /\ Chat!Size["MULTI_CHAT_SEND"] - Unfilled("MULTI_CHAT_SEND")
             = 4 * 8 + Chat!TOKEN_LEN
        /\ Chat!Size["MULTI_CHAT_RECV"] - Unfilled("MULTI_CHAT_RECV")
             = 3 * 8 + Chat!NICKNAME_LEN
        /\ Chat!Size["MULTI_SOUND_SEND"] - Unfilled("MULTI_SOUND_SEND")
             = 2 * 8 + 1 * 2 + 2 * 8 + Chat!TOKEN_LEN
        /\ Chat!Size["MULTI_SOUND_RECV"] - Unfilled("MULTI_SOUND_RECV")
             = 3 * 8
    BY DEF Chat!Size, Unfilled, Chat!TOKEN_LEN, Chat!NICKNAME_LEN, Chat!HEAD_URL_LEN
  <2> QED
    BY <2>1, <1>3, ChatGroupWide, Zenon
<1> QED
  BY <1>4, <1>5, <1>6, ChatGroups, Zenon

\* Every packet of the robot server is as wide as its data_length says, but
\* for the position of a user that logs in.
LEMMA RobotWritten ==
    /\ DOMAIN Robot!Written = DOMAIN Robot!Size
    /\ \A code \in DOMAIN Robot!Size :
         Wide(Robot!Written[code], Robot!Size[code] - Unfilled(code))
<1>1. DOMAIN Robot!LoginWritten =
        {"NOTICE_USER_LOGIN", "NOTICE_USER_DEFAULT_SONG",
        "NOTICE_USER_CURRENT_SONG", "NOTICE_USER_ROBOT_LOGIN",
        "SCHEDULER_LOGIN", "ROBOT_LOGIN"}
  BY DEF Robot!LoginWritten
<1>2. DOMAIN Robot!SongWritten =
        {"NOTICE_USER_ROBOT_HANDSEL_SONG", "NOTICE_USER_ROBOT_LISTEN_SONG",
        "NOTICE_ASSISTANT_LOGIN", "ASSISTANT_LOGIN_SUCCESS",
        "NOTICE_USER_ROBOT_CHAT_LOGIN",
        "NOTICE_USER_ROBOT_SCHEDULER_CHAT_LOGIN",
        "NOTICE_USER_ROBOT_GIFT_LUCK", "NOTICE_USER_READY_GIFT_LUCK",
        "NOTICE_ASSISTANT_HANDSEL_SONG", "HEART_PACKET"}
  BY DEF Robot!SongWritten
<1>3. \A code \in DOMAIN Robot!LoginWritten :
        Wide(Robot!LoginWritten[code], Robot!Size[code] - Unfilled(code))
  <2>1. /\ Robot!Size["NOTICE_USER_LOGIN"] - Unfilled("NOTICE_USER_LOGIN")
             = 2 * 8 + 2 * 4
        /\ Robot!Size["NOTICE_USER_DEFAULT_SONG"] - Unfilled("NOTICE_USER_DEFAULT_SONG")
             = 3 * 8 + 1 * 4
        /\ Robot!Size["NOTICE_USER_CURRENT_SONG"] - Unfilled("NOTICE_USER_CURRENT_SONG")
             = 3 * 8 + 1 * 4
        /\ Robot!Size["NOTICE_USER_ROBOT_LOGIN"] - Unfilled("NOTICE_USER_ROBOT_LOGIN")
             = 1 * 8
        /\ Robot!Size["SCHEDULER_LOGIN"] - Unfilled("SCHEDULER_LOGIN")
             = 1 * 8
        /\ Robot!Size["ROBOT_LOGIN"] - Unfilled("ROBOT_LOGIN")
             = 3 * 8
    BY DEF Robot!Size, Unfilled, Robot!NICKNAME_LEN, Robot!MODE_LEN, Robot!NAME_LEN,
           Robot!SINGER_LEN
  <2> QED
    BY <2>1, <1>1, RobotLoginWide, ZenonT(30)
<1>4. \A code \in DOMAIN Robot!SongWritten :
        Wide(Robot!SongWritten[code], Robot!Size[code] - Unfilled(code))
  <2>1. /\ Robot!Size["NOTICE_USER_ROBOT_HANDSEL_SONG"] - Unfilled("NOTICE_USER_ROBOT_HANDSEL_SONG")
             = 4 * 8
        /\ Robot!Size["NOTICE_USER_ROBOT_LISTEN_SONG"] - Unfilled("NOTICE_USER_ROBOT_LISTEN_SONG")
             = 2 * 8 + 1 * 4 + Robot!MODE_LEN + Robot!NAME_LEN + Robot!SINGER_LEN
        /\ Robot!Size["NOTICE_ASSISTANT_LOGIN"] - Unfilled("NOTICE_ASSISTANT_LOGIN")
             = 2 * 8 + Robot!NICKNAME_LEN
        /\ Robot!Size["ASSISTANT_LOGIN_SUCCESS"] - Unfilled("ASSISTANT_LOGIN_SUCCESS")
             = 2 * 8
        /\ Robot!Size["NOTICE_USER_ROBOT_CHAT_LOGIN"] - Unfilled("NOTICE_USER_ROBOT_CHAT_LOGIN")
             = 3 * 8
        /\ Robot!Size["NOTICE_USER_ROBOT_SCHEDULER_CHAT_LOGIN"]
               - Unfilled("NOTICE_USER_ROBOT_SCHEDULER_CHAT_LOGIN") = 3 * 8
        /\ Robot!Size["NOTICE_USER_ROBOT_GIFT_LUCK"] - Unfilled("NOTICE_USER_ROBOT_GIFT_LUCK")
             = 2 * 8 + 2 * 4 + Robot!NAME_LEN + Robot!SINGER_LEN
        /\ Robot!Size["NOTICE_USER_READY_GIFT_LUCK"] - Unfilled("NOTICE_USER_READY_GIFT_LUCK")
             = 3 * 8 + 1 * 4
        /\ Robot!Size["NOTICE_ASSISTANT_HANDSEL_SONG"] - Unfilled("NOTICE_ASSISTANT_HANDSEL_SONG")
             = 2 * 8
        /\ Robot!Size["HEART_PACKET"] - Unfilled("HEART_PACKET")
             = 0
    BY DEF Robot!Size, Unfilled, Robot!NICKNAME_LEN, Robot!MODE_LEN, Robot!NAME_LEN,
           Robot!SINGER_LEN
  <2> QED
    BY <2>1, <1>2, RobotSongWide, ZenonT(30)
<1> QED
  BY <1>3, <1>4, RobotGroups, Zenon

-----------------------------------------------------------------------------
(* Packets as a whole *)

\* The data_length of a packet is a number: BUILDHEAD's argument has a macro for
\* every operate code, and one for every list.
LEMMA ChatSizes ==
    /\ \A code \in DOMAIN Chat!Size : Chat!Size[code] \in Nat
    /\ \A code \in DOMAIN Chat!EntryWritten : Chat!EntrySize[code] \in Nat
  BY DEF Chat!Size, Chat!EntryWritten, Chat!EntrySize, Chat!OPPSITIONINFO_SIZE,
         Chat!TOKEN_LEN, Chat!NICKNAME_LEN, Chat!HEAD_URL_LEN

\* The same of the robot's packets.
LEMMA RobotSizes ==
    /\ \A code \in DOMAIN Robot!Size : Robot!Size[code] \in Nat
    /\ \A code \in DOMAIN Robot!EntryWritten : Robot!EntrySize[code] \in Nat
  BY DEF Robot!Size, Robot!EntryWritten, Robot!EntrySize, Robot!ROBOTINFO_SIZE,
         Robot!HANDLESONG_SIZE, Robot!MODE_LEN, Robot!NAME_LEN, Robot!SINGER_LEN,
         Robot!MESSAGE_LEN, Robot!NICKNAME_LEN

\* The two servers' layouts.
LEMMA Layouts ==
    /\ Layout["chat"].written = Chat!Written /\ Layout["robot"].written = Robot!Written
    /\ Layout["chat"].text = Chat!Text /\ Layout["robot"].text = Robot!Text
    /\ Layout["chat"].entry = Chat!EntryWritten /\ Layout["robot"].entry = Robot!EntryWritten
    /\ Layout["chat"].size = Chat!Size /\ Layout["robot"].size = Robot!Size
    /\ Layout["chat"].entry_size = Chat!EntrySize /\ Layout["robot"].entry_size = Robot!EntrySize
    /\ Layout["chat"].read = Chat!ReadFields /\ Layout["robot"].read = Robot!ReadFields
    /\ Layout["chat"].entry_read = Chat!EntryRead /\ Layout["robot"].entry_read = Robot!EntryRead
    /\ Layout["chat"].text_takes = Chat!TextTakes /\ Layout["robot"].text_takes = Robot!TextTakes
    /\ Layout["chat"].list_takes = Chat!ListTakes /\ Layout["robot"].list_takes = Robot!ListTakes
  BY DEF Layout

\* The head is as wide as PACKET_HEAD_LENGTH says.
LEMMA HeadWide ==
    Wide(PacketHead, PACKET_HEAD_LENGTH)
<1>1. /\ Wide(Int32s(<<"packet_length", "operate_code", "data_length", "current_time">>), 4 * 4)
      /\ Wide(Int16s(<<"msg_type">>), 1 * 2) /\ Wide(Int8s(<<"is_zip">>), 1 * 1)
      /\ Wide(Int64s(<<"msg_id">>), 1 * 8) /\ Wide(Int32s(<<"reserverd">>), 1 * 4)
  <2>1. 1 \in Nat /\ 2 \in Nat /\ 4 \in Nat /\ 8 \in Nat
    OBVIOUS
  <2> QED
    BY <2>1, Known, Ints, Zenon DEF Int8s, Int16s, Int32s, Int64s
<1>2. Wide(Int32s(<<"packet_length", "operate_code", "data_length", "current_time">>)
           \o Int16s(<<"msg_type">>) \o Int8s(<<"is_zip">>), 4 * 4 + 1 * 2 + 1 * 1)
  BY <1>1, WideThree, Zenon
<1>3. Wide(PacketHead, 4 * 4 + 1 * 2 + 1 * 1 + 1 * 8 + 1 * 4)
  BY <1>1, <1>2, WideThree, Zenon DEF PacketHead
<1> QED
  BY <1>3 DEF PACKET_HEAD_LENGTH

\* The members of texts have names, and data_length counts an entry of a list as
\* wide as it is written.
LEMMA Parts ==
    ASSUME NEW s \in {"chat", "robot"}
    PROVE  /\ \A code \in DOMAIN Layout[s].text : Layout[s].text[code] \in MemberNames
           /\ \A code \in DOMAIN Layout[s].entry :
                Wide(Layout[s].entry[code], Layout[s].entry_size[code])
<1>1. CASE s = "chat"
  <2>1. \A code \in DOMAIN Chat!Text : Chat!Text[code] \in MemberNames
    BY Known DEF Chat!Text
  <2>2. Wide(Chat!EntryWritten["GET_OPPOSITION_INFO"],
             2 * 8 + Chat!NICKNAME_LEN + Chat!HEAD_URL_LEN)
    <3>1. /\ Wide(Chat!Int64s(<<"user_id", "user_nicknumber">>), 2 * 8)
          /\ Wide(Chat!Data("nickname", Chat!NICKNAME_LEN), Chat!NICKNAME_LEN)
          /\ Wide(Chat!Data("user_head", Chat!HEAD_URL_LEN), Chat!HEAD_URL_LEN)
      BY Known, ChatWide, TextWidths, Zenon
    <3> QED
      BY <3>1, WideThree, Zenon DEF Chat!EntryWritten
  <2>3. /\ DOMAIN Chat!EntryWritten = {"GET_OPPOSITION_INFO"}
        /\ Chat!EntrySize["GET_OPPOSITION_INFO"]
             = 2 * 8 + Chat!NICKNAME_LEN + Chat!HEAD_URL_LEN
    BY DEF Chat!EntryWritten, Chat!EntrySize, Chat!OPPSITIONINFO_SIZE
  <2> QED
    BY <1>1, <2>1, <2>2, <2>3, Layouts
<1>2. CASE s = "robot"
  <2>1. \A code \in DOMAIN Robot!Text : Robot!Text[code] \in MemberNames
    BY Known DEF Robot!Text
  <2>2. Wide(Robot!EntryWritten["NOTICE_USER_ROBOT_LOGIN"], 3 * 8 + Robot!NICKNAME_LEN)
    <3>1. /\ Wide(Robot!Int64s(<<"uid", "latitude", "longitude">>), 3 * 8)
          /\ Wide(Robot!Data("nickname", Robot!NICKNAME_LEN), Robot!NICKNAME_LEN)
      BY Known, RobotWide, TextWidths, Zenon
    <3> QED
      BY <3>1, WideBoth, Zenon DEF Robot!EntryWritten
  <2>3. Wide(Robot!EntryWritten["NOTICE_ASSISTANT_HANDSEL_SONG"], 2 * 8 + Robot!MESSAGE_LEN)
    <3>1. /\ Wide(Robot!Int64s(<<"uid", "songid">>), 2 * 8)
          /\ Wide(Robot!Data("message", Robot!MESSAGE_LEN), Robot!MESSAGE_LEN)
      BY Known, RobotWide, TextWidths, Zenon
    <3> QED
      BY <3>1, WideBoth, Zenon DEF Robot!EntryWritten
  <2>4. /\ DOMAIN Robot!EntryWritten
             = {"NOTICE_USER_ROBOT_LOGIN", "NOTICE_ASSISTANT_HANDSEL_SONG"}
        /\ Robot!EntrySize["NOTICE_USER_ROBOT_LOGIN"] = 3 * 8 + Robot!NICKNAME_LEN
        /\ Robot!EntrySize["NOTICE_ASSISTANT_HANDSEL_SONG"] = 2 * 8 + Robot!MESSAGE_LEN
    BY DEF Robot!EntryWritten, Robot!EntrySize, Robot!ROBOTINFO_SIZE, Robot!HANDLESONG_SIZE,
           Robot!NICKNAME_LEN, Robot!MESSAGE_LEN
  <2> QED
    BY <1>2, <2>1, <2>2, <2>3, <2>4, Layouts
<1> QED
  BY <1>1, <1>2

\* A packet has a code that its server knows, and a text and a list only if its
\* layout has.
LEMMA PacketType ==
    ASSUME NEW s \in {"chat", "robot"}, NEW p \in Packets(s)
    PROVE  /\ p.server = s /\ p.code \in DOMAIN Layout[s].size
           /\ p.text \in Nat /\ p.entries \in Nat
           /\ ~HasText(p) => p.text = 0
           /\ p.code = "USER_LOGIN_FAILED" => p.text > 0
<1>1. p \in [server : {s}, code : DOMAIN Layout[s].size,
             text : TextLengths \cup {0}, entries : EntryCounts \cup {0}]
  BY DEF Packets
<1>2. /\ p.text \in TextLengths \cup {0} /\ p.entries \in EntryCounts \cup {0}
      /\ p.server = s /\ p.code \in DOMAIN Layout[s].size
  BY <1>1
<1>3. TextLengths \cup {0} \subseteq Nat /\ EntryCounts \cup {0} \subseteq Nat
  BY WireAssumption DEF WireAssumption
<1>4. p.text \in Nat /\ p.entries \in Nat
  BY <1>2, <1>3
<1>5. (~HasText(p) => p.text = 0) /\ (p.code = "USER_LOGIN_FAILED" => p.text > 0)
  BY Zenon DEF Packets
<1> QED
  BY <1>2, <1>4, <1>5

\* A packet has a head, so it is never empty.
LEMMA PacketNotEmpty ==
    ASSUME NEW s \in {"chat", "robot"}, NEW p \in Packets(s)
    PROVE  PacketLength(p) \in Nat /\ PacketLength(p) > 0
<1>1. /\ p.server = s /\ p.code \in DOMAIN Layout[s].size
      /\ p.text \in Nat /\ p.entries \in Nat
  BY PacketType, Zenon
<1>2. /\ Layout[s].size[p.code] \in Nat
      /\ HasList(p) => Layout[s].entry_size[p.code] \in Nat
  BY <1>1, Layouts, ChatSizes, RobotSizes DEF HasList
<1>3. \A m, n \in Nat : m * n \in Nat
  OBVIOUS
<1>4. HasList(p) => p.entries * Layout[s].entry_size[p.code] \in Nat
  BY <1>1, <1>2, <1>3
<1>5. DataLength(p) \in Nat
  BY <1>1, <1>2, <1>4 DEF DataLength
<1> QED
  BY <1>5 DEF PacketLength, PACKET_HEAD_LENGTH

\* What is written of a packet, and what its lengths are.
LEMMA WrittenWide ==
    ASSUME NEW s \in {"chat", "robot"}, NEW p \in Packets(s)
    PROVE  Wide(WrittenFields(p), PacketLength(p) - Unfilled(p.code))
<1> DEFINE text == IF HasText(p) THEN Data(Layout[p.server].text[p.code], p.text) ELSE <<>>
           list == IF HasList(p) THEN Entries(Layout[p.server].entry[p.code], p.entries) ELSE <<>>
           written == Layout[p.server].written[p.code]
           m == Layout[p.server].size[p.code] - Unfilled(p.code)
           n == IF HasList(p) THEN p.entries * Layout[p.server].entry_size[p.code] ELSE 0
<1>1. p.server = s /\ p.code \in DOMAIN Layout[s].size /\ p.text \in Nat /\ p.entries \in Nat
      /\ (~HasText(p) => p.text = 0)
  BY PacketType, Zenon
<1>2. Wide(written, m)
  BY <1>1, Layouts, ChatWritten, RobotWritten
<1>3. Wide(text, p.text)
  <2>1. CASE HasText(p)
    <3>1. Layout[p.server].text[p.code] \in MemberNames
      BY <1>1, <2>1, Parts DEF HasText
    <3> QED
      BY <1>1, <2>1, <3>1, WideData
  <2>2. CASE ~HasText(p)
    BY <1>1, <2>2, WideNone, Zenon
  <2> QED
    BY <2>1, <2>2
<1>4. Wide(list, n)
  <2>1. CASE HasList(p)
    <3> DEFINE e == Layout[p.server].entry[p.code]
    <3>1. Wide(e, Layout[p.server].entry_size[p.code])
      BY <1>1, <2>1, Parts DEF HasList
    <3> HIDE DEF e
    <3>2. Wide(Entries(e, p.entries), p.entries * Width(e))
      BY <1>1, <3>1, EntriesAt DEF Wide
    <3>3. Width(e) = Layout[p.server].entry_size[p.code]
      BY <3>1 DEF Wide
    <3>4. n = p.entries * Width(e) /\ list = Entries(e, p.entries)
      BY <2>1, <3>3 DEF e
    <3> QED
      BY <3>2, <3>4, Zenon
  <2>2. CASE ~HasList(p)
    BY <2>2, WideNone, Zenon
  <2> QED
    BY <2>1, <2>2
<1>5. WrittenFields(p) = PacketHead \o written \o text \o list
  BY DEF WrittenFields
<1>6. PacketLength(p) = PACKET_HEAD_LENGTH + (Layout[p.server].size[p.code] + p.text + n)
  BY DEF PacketLength, DataLength
<1>7. Layout[p.server].size[p.code] \in Nat /\ n \in Nat /\ Unfilled(p.code) \in Nat
  <2>1. /\ Layout[p.server].size[p.code] \in Nat
        /\ HasList(p) => Layout[p.server].entry_size[p.code] \in Nat
    BY <1>1, Layouts, ChatSizes, RobotSizes DEF HasList
  <2>2. \A x, y \in Nat : x * y \in Nat
    OBVIOUS
  <2> QED
    BY <1>1, <2>1, <2>2 DEF Unfilled
<1> HIDE DEF written, text, list, m, n
<1>8. Wide(PacketHead \o written \o text, PACKET_HEAD_LENGTH + m + p.text)
  BY <1>2, <1>3, HeadWide, WideThree, Zenon
<1>9. Wide(WrittenFields(p), PACKET_HEAD_LENGTH + m + p.text + n)
  BY <1>4, <1>5, <1>8, WideBoth, Zenon
<1>10. PACKET_HEAD_LENGTH + m + p.text + n = PacketLength(p) - Unfilled(p.code)
  BY <1>1, <1>6, <1>7 DEF m, PACKET_HEAD_LENGTH
<1> QED
  BY <1>9, <1>10, Zenon

-----------------------------------------------------------------------------
(* What is read of a packet *)

\* The chat server reads the members that it writes.
LEMMA ChatRead ==
    \A code \in DOMAIN Chat!Size : Chat!ReadFields[code] = Chat!Written[code]
<1>1. Chat!SignInRead = Chat!SignInWritten
  BY DEF Chat!SignInRead, Chat!SignInWritten
<1>2. ASSUME NEW code \in DOMAIN Chat!PrivateWritten
      PROVE  code \in DOMAIN Chat!PrivateRead /\ Chat!PrivateRead[code] = Chat!PrivateWritten[code]
  <2>1. /\ Chat!PrivateRead["TEXT_CHAT_PRIVATE_SEND"]
             = Chat!PrivateWritten["TEXT_CHAT_PRIVATE_SEND"]
        /\ Chat!PrivateRead["TEXT_CHAT_PRIVATE_RECV"]
             = Chat!PrivateWritten["TEXT_CHAT_PRIVATE_RECV"]
        /\ Chat!PrivateRead["PACKET_CONFIRM"]
             = Chat!PrivateWritten["PACKET_CONFIRM"]
    BY DEF Chat!PrivateRead, Chat!PrivateWritten
  <2>2. /\ DOMAIN Chat!PrivateRead =
             {"USER_ONLINE_REQ", "USER_ONLINE_RSP", "TEXT_CHAT_PRIVATE_RECV",
              "TEXT_CHAT_PRIVATE_SEND", "PACKET_CONFIRM"}
        /\ DOMAIN Chat!PrivateWritten =
             {"TEXT_CHAT_PRIVATE_SEND", "TEXT_CHAT_PRIVATE_RECV", "PACKET_CONFIRM"}
    BY DEF Chat!PrivateRead, Chat!PrivateWritten
  <2> QED
    BY <2>1, <2>2, Zenon
<1>3. ASSUME NEW code \in DOMAIN Chat!GroupWritten
      PROVE  \/ code \in DOMAIN Chat!GroupRead /\ Chat!GroupRead[code] = Chat!GroupWritten[code]
             \/ code \in DOMAIN Chat!PrivateRead /\ Chat!PrivateRead[code] = Chat!GroupWritten[code]
  <2>1. /\ Chat!GroupRead["GET_OPPOSITION_INFO"]
             = Chat!GroupWritten["GET_OPPOSITION_INFO"]
        /\ Chat!PrivateRead["USER_ONLINE_REQ"]
             = Chat!GroupWritten["USER_ONLINE_REQ"]
        /\ Chat!PrivateRead["USER_ONLINE_RSP"]
             = Chat!GroupWritten["USER_ONLINE_RSP"]
        /\ Chat!GroupRead["MULTI_CHAT_SEND"]
             = Chat!GroupWritten["MULTI_CHAT_SEND"]
        /\ Chat!GroupRead["MULTI_CHAT_RECV"]
             = Chat!GroupWritten["MULTI_CHAT_RECV"]
        /\ Chat!GroupRead["MULTI_SOUND_SEND"]
             = Chat!GroupWritten["MULTI_SOUND_SEND"]
        /\ Chat!GroupRead["MULTI_SOUND_RECV"]
             = Chat!GroupWritten["MULTI_SOUND_RECV"]
    BY DEF Chat!GroupRead, Chat!GroupWritten, Chat!PrivateRead
  <2>2. /\ DOMAIN Chat!PrivateRead =
             {"USER_ONLINE_REQ", "USER_ONLINE_RSP", "TEXT_CHAT_PRIVATE_RECV",
              "TEXT_CHAT_PRIVATE_SEND", "PACKET_CONFIRM"}
        /\ DOMAIN Chat!GroupRead =
             {"GET_OPPOSITION_INFO", "MULTI_CHAT_SEND", "MULTI_CHAT_RECV",
              "MULTI_SOUND_SEND", "MULTI_SOUND_RECV"}
        /\ DOMAIN Chat!GroupWritten =
             {"GET_OPPOSITION_INFO", "USER_ONLINE_REQ", "USER_ONLINE_RSP",
              "MULTI_CHAT_SEND", "MULTI_CHAT_RECV", "MULTI_SOUND_SEND",
              "MULTI_SOUND_RECV"}
    BY DEF Chat!PrivateRead, Chat!GroupRead, Chat!GroupWritten
  <2> QED
    BY <2>1, <2>2, Zenon
<1> QED
  BY <1>1, <1>2, <1>3, ChatGroups, ZenonT(30)

\* The robot server does, too, but for the song that a robot gives.
LEMMA RobotRead ==
    /\ \A code \in DOMAIN Robot!Size :
         code # "NOTICE_USER_ROBOT_HANDSEL_SONG" => Robot!ReadFields[code] = Robot!Written[code]
    /\ Robot!Written["NOTICE_USER_ROBOT_HANDSEL_SONG"]
         = Robot!Int64s(<<"platform_id", "uid", "robot_id", "song_id">>)
    /\ Robot!ReadFields["NOTICE_USER_ROBOT_HANDSEL_SONG"]
         = Robot!Int64s(<<"platform_id", "uid", "robot_id", "robot_id">>)
<1>1. Robot!LoginRead = Robot!LoginWritten
  BY DEF Robot!LoginRead, Robot!LoginWritten
<1>2. ASSUME NEW code \in DOMAIN Robot!SongWritten, code # "NOTICE_USER_ROBOT_HANDSEL_SONG"
      PROVE  code \in DOMAIN Robot!SongRead /\ Robot!SongRead[code] = Robot!SongWritten[code]
  <2>1. /\ Robot!SongRead["NOTICE_USER_ROBOT_LISTEN_SONG"]
             = Robot!SongWritten["NOTICE_USER_ROBOT_LISTEN_SONG"]
        /\ Robot!SongRead["NOTICE_ASSISTANT_LOGIN"]
             = Robot!SongWritten["NOTICE_ASSISTANT_LOGIN"]
        /\ Robot!SongRead["ASSISTANT_LOGIN_SUCCESS"]
             = Robot!SongWritten["ASSISTANT_LOGIN_SUCCESS"]
        /\ Robot!SongRead["NOTICE_USER_ROBOT_CHAT_LOGIN"]
             = Robot!SongWritten["NOTICE_USER_ROBOT_CHAT_LOGIN"]
        /\ Robot!SongRead["NOTICE_USER_ROBOT_SCHEDULER_CHAT_LOGIN"]
             = Robot!SongWritten["NOTICE_USER_ROBOT_SCHEDULER_CHAT_LOGIN"]
        /\ Robot!SongRead["NOTICE_USER_ROBOT_GIFT_LUCK"]
             = Robot!SongWritten["NOTICE_USER_ROBOT_GIFT_LUCK"]
        /\ Robot!SongRead["NOTICE_USER_READY_GIFT_LUCK"]
             = Robot!SongWritten["NOTICE_USER_READY_GIFT_LUCK"]
        /\ Robot!SongRead["NOTICE_ASSISTANT_HANDSEL_SONG"]
             = Robot!SongWritten["NOTICE_ASSISTANT_HANDSEL_SONG"]
        /\ Robot!SongRead["HEART_PACKET"]
             = Robot!SongWritten["HEART_PACKET"]
    BY DEF Robot!SongRead, Robot!SongWritten
  <2>2. /\ DOMAIN Robot!SongRead =
             {"NOTICE_USER_ROBOT_HANDSEL_SONG", "NOTICE_USER_ROBOT_LISTEN_SONG",
              "NOTICE_ASSISTANT_LOGIN", "ASSISTANT_LOGIN_SUCCESS",
              "NOTICE_USER_ROBOT_CHAT_LOGIN",
              "NOTICE_USER_ROBOT_SCHEDULER_CHAT_LOGIN",
              "NOTICE_USER_ROBOT_GIFT_LUCK", "NOTICE_USER_READY_GIFT_LUCK",
              "NOTICE_ASSISTANT_HANDSEL_SONG", "HEART_PACKET"}
        /\ DOMAIN Robot!SongWritten =
             {"NOTICE_USER_ROBOT_HANDSEL_SONG", "NOTICE_USER_ROBOT_LISTEN_SONG",
              "NOTICE_ASSISTANT_LOGIN", "ASSISTANT_LOGIN_SUCCESS",
              "NOTICE_USER_ROBOT_CHAT_LOGIN",
              "NOTICE_USER_ROBOT_SCHEDULER_CHAT_LOGIN",
              "NOTICE_USER_ROBOT_GIFT_LUCK", "NOTICE_USER_READY_GIFT_LUCK",
              "NOTICE_ASSISTANT_HANDSEL_SONG", "HEART_PACKET"}
    BY DEF Robot!SongRead, Robot!SongWritten
  <2> QED
    BY <1>2, <2>1, <2>2, Zenon
<1>3. /\ "NOTICE_USER_ROBOT_HANDSEL_SONG" \in DOMAIN Robot!SongRead
      /\ "NOTICE_USER_ROBOT_HANDSEL_SONG" \in DOMAIN Robot!SongWritten
      /\ Robot!SongWritten["NOTICE_USER_ROBOT_HANDSEL_SONG"]
           = Robot!Int64s(<<"platform_id", "uid", "robot_id", "song_id">>)
      /\ Robot!SongRead["NOTICE_USER_ROBOT_HANDSEL_SONG"]
           = Robot!Int64s(<<"platform_id", "uid", "robot_id", "robot_id">>)
  BY DEF Robot!SongRead, Robot!SongWritten
<1> QED
  BY <1>1, <1>2, <1>3, RobotGroups, Zenon

-----------------------------------------------------------------------------
(* Packets that are read as they were written *)

\* The packets with exceptions.
Exceptions ==
    {"USER_LOGIN_FAILED", "TEXT_CHAT_PRIVATE_RECV", "NOTICE_USER_ROBOT_HANDSEL_SONG",
     "NOTICE_USER_ROBOT_LOGIN", "NOTICE_ASSISTANT_HANDSEL_SONG"}

\* What is taken off data_length for a text is what was written before it, but
\* for the two texts that are taken too long.
LEMMA Takes ==
    /\ \A code \in DOMAIN Chat!Text :
         code \notin Exceptions => Chat!TextTakes[code] = Chat!Size[code]
    /\ \A code \in DOMAIN Robot!Text : Robot!TextTakes[code] = Robot!Size[code]
    /\ \A code \in DOMAIN Chat!Text : code \notin DOMAIN Chat!EntryWritten
    /\ \A code \in DOMAIN Robot!Text : code \notin DOMAIN Robot!EntryWritten
  BY DEF Exceptions, Chat!Text, Chat!TextTakes, Chat!Size, Robot!Text, Robot!TextTakes, Robot!Size,
         Chat!EntryWritten, Robot!EntryWritten, Chat!TOKEN_LEN, Chat!NICKNAME_LEN

\* What is taken off data_length for the list of a user or group is less than what
\* was written before it. What is left too much is less than an entry, so the
\* entries that were written are read.
LEMMA EntriesTaken ==
    /\ DOMAIN Chat!EntryWritten = {"GET_OPPOSITION_INFO"}
    /\ Chat!EntryRead = Chat!EntryWritten
    /\ Chat!Size["GET_OPPOSITION_INFO"] = 338 /\ Chat!EntrySize["GET_OPPOSITION_INFO"] = 320
    /\ Chat!ListTakes["GET_OPPOSITION_INFO"] = 104
    /\ \A n \in Nat : (338 + n * 320 - 104) \div 320 = n
<1>1. /\ DOMAIN Chat!EntryWritten = {"GET_OPPOSITION_INFO"}
      /\ Chat!EntryRead = Chat!EntryWritten
  BY DEF Chat!EntryWritten, Chat!EntryRead
<1>2. /\ Chat!Size["GET_OPPOSITION_INFO"] = 338 /\ Chat!EntrySize["GET_OPPOSITION_INFO"] = 320
      /\ Chat!ListTakes["GET_OPPOSITION_INFO"] = 104
  BY DEF Chat!Size, Chat!EntrySize, Chat!ListTakes, Chat!OPPSITIONINFO_SIZE, Chat!TOKEN_LEN,
         Chat!NICKNAME_LEN, Chat!HEAD_URL_LEN
<1>3. \A n \in Nat : (338 + n * 320 - 104) \div 320 = n
  OBVIOUS
<1> QED
  BY <1>1, <1>2, <1>3

\* The fields that are read of other packets are those that were written.
LEMMA OrdinaryFields ==
    ASSUME NEW s \in {"chat", "robot"}, NEW p \in Packets(s), p.code \notin Exceptions
    PROVE  FieldsRead(p.server, p.code, DataLength(p)) = WrittenFields(p)
<1>1. p.server = s /\ p.code \in DOMAIN Layout[s].size /\ p.text \in Nat /\ p.entries \in Nat
      /\ (~HasText(p) => p.text = 0)
  BY PacketType, Zenon
<1>2. Layout[p.server].read[p.code] = Layout[p.server].written[p.code]
  <2>1. p.code # "NOTICE_USER_ROBOT_HANDSEL_SONG"
    BY DEF Exceptions
  <2> QED
    BY <1>1, <2>1, Layouts, ChatRead, RobotRead
<1>3. Layout[p.server].size[p.code] \in Nat
  BY <1>1, Layouts, ChatSizes, RobotSizes
<1>4. HasText(p) => DataLength(p) - Layout[p.server].text_takes[p.code] = p.text
  <2>1. SUFFICES ASSUME HasText(p)
                 PROVE  DataLength(p) - Layout[p.server].text_takes[p.code] = p.text
    OBVIOUS
  <2>2. /\ ~HasList(p)
        /\ Layout[p.server].text_takes[p.code] = Layout[p.server].size[p.code]
    BY <1>1, <2>1, Layouts, Takes DEF HasText, HasList
  <2> QED
    BY <1>1, <1>3, <2>2 DEF DataLength
<1>5. HasList(p) =>
        /\ Layout[p.server].entry_read[p.code] = Layout[p.server].entry[p.code]
        /\ (DataLength(p) - Layout[p.server].list_takes[p.code])
             \div Layout[p.server].entry_size[p.code] = p.entries
  <2>1. SUFFICES ASSUME HasList(p)
                 PROVE  /\ Layout[p.server].entry_read[p.code] = Layout[p.server].entry[p.code]
                        /\ (DataLength(p) - Layout[p.server].list_takes[p.code])
                             \div Layout[p.server].entry_size[p.code] = p.entries
    OBVIOUS
  <2>2. p.server = "chat" /\ p.code = "GET_OPPOSITION_INFO"
    <3>1. DOMAIN Robot!EntryWritten \subseteq Exceptions
      BY DEF Robot!EntryWritten, Exceptions
    <3>2. DOMAIN Chat!EntryWritten = {"GET_OPPOSITION_INFO"}
      BY EntriesTaken, Zenon
    <3> QED
      BY <1>1, <2>1, <3>1, <3>2, Layouts DEF HasList
  <2>3. p.text = 0
    <3>1. ~HasText(p)
      BY <2>1, <2>2, Layouts, Takes DEF HasText, HasList
    <3> QED
      BY <1>1, <3>1
  <2>4. DataLength(p) = 338 + p.entries * 320
    <3>1. /\ Layout[p.server].size[p.code] = 338
          /\ Layout[p.server].entry_size[p.code] = 320
      BY <2>2, EntriesTaken, Layouts
    <3> QED
      BY <1>1, <2>1, <2>3, <3>1 DEF DataLength
  <2>5. (DataLength(p) - Layout[p.server].list_takes[p.code])
           \div Layout[p.server].entry_size[p.code] = p.entries
    <3>1. /\ Layout[p.server].list_takes[p.code] = 104
          /\ Layout[p.server].entry_size[p.code] = 320
      BY <2>2, EntriesTaken, Layouts
    <3>2. (338 + p.entries * 320 - 104) \div 320 = p.entries
      BY <1>1
    <3> QED
      BY <1>1, <2>4, <3>1, <3>2
  <2>6. Chat!EntryRead = Chat!EntryWritten
    BY EntriesTaken, Zenon
  <2> QED
    BY <2>2, <2>5, <2>6, Layouts, Zenon
<1>6. /\ p.code \in DOMAIN Layout[p.server].text <=> HasText(p)
      /\ p.code \in DOMAIN Layout[p.server].entry <=> HasList(p)
  BY Zenon DEF HasText, HasList
<1>7. (IF p.code \in DOMAIN Layout[p.server].text
       THEN Data(Layout[p.server].text[p.code],
                 DataLength(p) - Layout[p.server].text_takes[p.code])
       ELSE <<>>)
      = (IF HasText(p) THEN Data(Layout[p.server].text[p.code], p.text) ELSE <<>>)
  BY <1>4, <1>6, Zenon
<1>8. (IF p.code \in DOMAIN Layout[p.server].entry
       THEN Entries(Layout[p.server].entry_read[p.code],
                    (DataLength(p) - Layout[p.server].list_takes[p.code])
                      \div Layout[p.server].entry_size[p.code])
       ELSE <<>>)
      = (IF HasList(p) THEN Entries(Layout[p.server].entry[p.code], p.entries) ELSE <<>>)
  BY <1>5, <1>6, Zenon
<1> QED
  BY <1>2, <1>7, <1>8, Zenon DEF FieldsRead, WrittenFields

\* Fields that are no longer than the packet are read where they would be written.
LEMMA ReadAsWritten ==
    ASSUME NEW q, NEW w, NEW length \in Nat, Wide(q, w), w <= length
    PROVE  Read(q, length).extents = At(q, 0)
<1>1. q \in Seq(Field) /\ Width(q) <= length
  BY DEF Wide
<1>2. Read(q, length) = Write(q)
  BY <1>1, ReadPlaced, Zenon
<1> QED
  BY <1>1, <1>2, WrittenAt, Zenon

\* The same of a packet.
LEMMA PacketRead ==
    ASSUME NEW s \in {"chat", "robot"}, NEW p \in Packets(s)
    PROVE  /\ PacketLength(p) \in Nat /\ PacketLength(p) - Unfilled(p.code) <= PacketLength(p)
           /\ PackStream(p) = At(WrittenFields(p), 0)
           /\ p.code \notin Exceptions => UnpackStream(p) = PackStream(p)
<1>1. PacketLength(p) \in Nat /\ PacketLength(p) - Unfilled(p.code) <= PacketLength(p)
  BY PacketNotEmpty DEF Unfilled
<1>2. Wide(WrittenFields(p), PacketLength(p) - Unfilled(p.code))
  BY WrittenWide, Zenon
<1>3. PackStream(p) = At(WrittenFields(p), 0)
  BY <1>2, WrittenAt, Zenon DEF PackStream, Wide
<1>4. ASSUME p.code \notin Exceptions PROVE UnpackStream(p) = PackStream(p)
  <2>1. FieldsRead(p.server, p.code, DataLength(p)) = WrittenFields(p)
    BY <1>4, OrdinaryFields, Zenon
  <2>2. Read(WrittenFields(p), PacketLength(p)).extents = At(WrittenFields(p), 0)
    BY <1>1, <1>2, ReadAsWritten, Zenon
  <2> QED
    BY <1>3, <2>1, <2>2, Zenon DEF UnpackStream
<1> QED
  BY <1>1, <1>3, <1>4, Zenon

-----------------------------------------------------------------------------
(* Packets that are not read as they were written *)

\* Members of the packet itself, none of them of this name.
Plain(q, name) == q \in Seq(Field) /\ \A x \in NamesOf(q) : x[2] = 0 /\ x[1] # name

\* Together.
LEMMA PlainBoth ==
    ASSUME NEW q, NEW r, NEW name, Plain(q, name), Plain(r, name)
    PROVE  Plain(q \o r, name)
<1>1. q \in Seq(Field) /\ r \in Seq(Field)
  BY DEF Plain
<1>2. q \o r \in Seq(Field)
  BY <1>1
<1>3. NamesOf(q \o r) = NamesOf(q) \cup NamesOf(r)
  BY <1>1, NamesBoth, Zenon
<1> QED
  BY <1>2, <1>3 DEF Plain

\* None.
LEMMA PlainNone ==
    ASSUME NEW name
    PROVE  Plain(<<>>, name)
<1>1. <<>> \in Seq(Field) /\ 1 .. Len(<<>>) = {}
  OBVIOUS
<1> QED
  BY <1>1 DEF Plain, NamesOf

\* Numbers.
LEMMA PlainFields ==
    ASSUME NEW m \in Seq(MemberNames), NEW w \in Nat, NEW name,
           \A i \in 1 .. Len(m) : m[i] # name
    PROVE  Plain(Fields(m, w), name)
<1>1. Fields(m, w) \in Seq(Field)
  BY FieldsAll, Zenon
<1>2. NamesOf(Fields(m, w)) = {<<m[i], 0>> : i \in 1 .. Len(m)}
  BY NamesFields, Zenon
<1> QED
  BY <1>1, <1>2 DEF Plain

\* One to four of them.
LEMMA PlainInts ==
    ASSUME NEW w \in Nat, NEW name
    PROVE  /\ \A a \in MemberNames : a # name => Plain(Fields(<<a>>, w), name)
           /\ \A a, b \in MemberNames : a # name /\ b # name => Plain(Fields(<<a, b>>, w), name)
           /\ \A a, b, c \in MemberNames :
                a # name /\ b # name /\ c # name => Plain(Fields(<<a, b, c>>, w), name)
           /\ \A a, b, c, d \in MemberNames :
                a # name /\ b # name /\ c # name /\ d # name
                  => Plain(Fields(<<a, b, c, d>>, w), name)
<1>1. ASSUME NEW a \in MemberNames, a # name
      PROVE  Plain(Fields(<<a>>, w), name)
  <2>1. <<a>> \in Seq(MemberNames) /\ \A i \in 1 .. Len(<<a>>) : <<a>>[i] # name
    BY <1>1
  <2> QED
    BY <2>1, PlainFields, Zenon
<1>2. ASSUME NEW a \in MemberNames, NEW b \in MemberNames, a # name, b # name
      PROVE  Plain(Fields(<<a, b>>, w), name)
  <2>1. <<a, b>> \in Seq(MemberNames) /\ \A i \in 1 .. Len(<<a, b>>) : <<a, b>>[i] # name
    BY <1>2
  <2> QED
    BY <2>1, PlainFields, Zenon
<1>3. ASSUME NEW a \in MemberNames, NEW b \in MemberNames, NEW c \in MemberNames,
             a # name, b # name, c # name
      PROVE  Plain(Fields(<<a, b, c>>, w), name)
  <2>1. /\ <<a, b, c>> \in Seq(MemberNames)
        /\ \A i \in 1 .. Len(<<a, b, c>>) : <<a, b, c>>[i] # name
    BY <1>3
  <2> QED
    BY <2>1, PlainFields, Zenon
<1>4. ASSUME NEW a \in MemberNames, NEW b \in MemberNames, NEW c \in MemberNames,
             NEW d \in MemberNames, a # name, b # name, c # name, d # name
      PROVE  Plain(Fields(<<a, b, c, d>>, w), name)
  <2>1. /\ <<a, b, c, d>> \in Seq(MemberNames)
        /\ \A i \in 1 .. Len(<<a, b, c, d>>) : <<a, b, c, d>>[i] # name
    BY <1>4
  <2> QED
    BY <2>1, PlainFields, Zenon
<1> QED
  BY <1>1, <1>2, <1>3, <1>4

\* The head.
LEMMA PlainHead ==
    ASSUME NEW name,
           name \notin {"packet_length", "operate_code", "data_length", "current_time",
                        "msg_type", "is_zip", "msg_id", "reserverd"}
    PROVE  Plain(PacketHead, name)
<1>1. /\ "packet_length" # name /\ "operate_code" # name /\ "data_length" # name
      /\ "current_time" # name /\ "msg_type" # name /\ "is_zip" # name /\ "msg_id" # name
      /\ "reserverd" # name
  OBVIOUS
<1>2. 1 \in Nat /\ 2 \in Nat /\ 4 \in Nat /\ 8 \in Nat
  OBVIOUS
<1>3. Plain(Int32s(<<"packet_length", "operate_code", "data_length", "current_time">>), name)
  <2>1. \A a, b, c, d \in MemberNames :
          a # name /\ b # name /\ c # name /\ d # name
            => Plain(Fields(<<a, b, c, d>>, 4), name)
    BY <1>2, PlainInts, Zenon
  <2>2. /\ "packet_length" \in MemberNames /\ "operate_code" \in MemberNames
        /\ "data_length" \in MemberNames /\ "current_time" \in MemberNames
    BY Known
  <2> QED
    BY <1>1, <2>1, <2>2, Zenon DEF Int32s
<1>4. /\ Plain(Int16s(<<"msg_type">>), name) /\ Plain(Int8s(<<"is_zip">>), name)
      /\ Plain(Int64s(<<"msg_id">>), name) /\ Plain(Int32s(<<"reserverd">>), name)
  <2>1. \A w \in Nat : \A a \in MemberNames : a # name => Plain(Fields(<<a>>, w), name)
    BY PlainInts, Zenon
  <2>2. /\ "msg_type" \in MemberNames /\ "is_zip" \in MemberNames
        /\ "msg_id" \in MemberNames /\ "reserverd" \in MemberNames
    BY Known
  <2> QED
    BY <1>1, <1>2, <2>1, <2>2, Zenon DEF Int8s, Int16s, Int32s, Int64s
<1>5. Plain(Int32s(<<"packet_length", "operate_code", "data_length", "current_time">>)
            \o Int16s(<<"msg_type">>), name)
  BY <1>3, <1>4, PlainBoth, Zenon
<1>6. Plain(Int32s(<<"packet_length", "operate_code", "data_length", "current_time">>)
            \o Int16s(<<"msg_type">>) \o Int8s(<<"is_zip">>), name)
  BY <1>4, <1>5, PlainBoth, Zenon
<1>7. Plain(Int32s(<<"packet_length", "operate_code", "data_length", "current_time">>)
            \o Int16s(<<"msg_type">>) \o Int8s(<<"is_zip">>) \o Int64s(<<"msg_id">>), name)
  BY <1>4, <1>6, PlainBoth, Zenon
<1> QED
  BY <1>4, <1>7, PlainBoth, Zenon DEF PacketHead

\* Nothing behind.
LEMMA NothingBehind ==
    ASSUME NEW q \in Seq(Field)
    PROVE  q \o <<>> = q
  OBVIOUS

\* What is misread of a packet that has arrived.
MisreadOf(p) == Difference(PackStream(p), UnpackStream(p))

\* A text that is read with another length than it was written.
LEMMA TextMisread ==
    ASSUME NEW q, NEW w, NEW name \in MemberNames, Wide(q, w), Plain(q, name),
           NEW t \in Nat, NEW u \in Nat, t # u, NEW length \in Nat, w <= length
    PROVE  Difference(Write(q \o Data(name, t)).extents,
                      Read(q \o Data(name, u), length).extents) = {<<name, 0>>}
<1> DEFINE d == Data(name, t)
           e == Data(name, u)
<1>1. /\ d \in Seq(Field) /\ Len(d) = 1
      /\ d[1] \in Field
      /\ d[1].member = name /\ d[1].nth = 0
      /\ d[1].width = t /\ d[1].data = TRUE
  BY DataField, Zenon
<1>2. /\ e \in Seq(Field) /\ Len(e) = 1
      /\ e[1] \in Field
      /\ e[1].member = name /\ e[1].nth = 0
      /\ e[1].width = u /\ e[1].data = TRUE
  BY DataField, Zenon
<1>3. q \in Seq(Field) /\ Width(q) <= length
  BY DEF Wide
<1>4. <<name, 0>> \notin NamesOf(q)
  <2>1. <<name, 0>>[1] = name
    OBVIOUS
  <2> QED
    BY <2>1, Zenon DEF Plain
<1> HIDE DEF d, e
<1>5. /\ d[1].member = e[1].member /\ d[1].nth = e[1].nth /\ d[1].width # e[1].width
      /\ <<d[1].member, d[1].nth>> = <<name, 0>>
  BY <1>1, <1>2, Zenon
<1>6. <<d[1].member, d[1].nth>> \notin NamesOf(q)
  BY <1>4, <1>5, Zenon
<1>7. OtherWidth(q, d, e)
  BY <1>1, <1>2, <1>3, <1>5, <1>6 DEF OtherWidth
<1>8. Difference(Write(q \o d).extents, Read(q \o e, length).extents)
        = {<<d[1].member, d[1].nth>>}
  BY <1>3, <1>7, TextTooLong
<1> QED
  BY <1>5, <1>8 DEF d, e

\* What is written and read of a packet with a text: w bytes before it.
LEMMA TextPacket ==
    ASSUME NEW p, NEW w \in Nat, NEW u \in Nat, HasText(p), ~HasList(p), p.text \in Nat,
           Layout[p.server].text[p.code] \in MemberNames,
           Wide(Layout[p.server].written[p.code], w),
           Plain(Layout[p.server].written[p.code], Layout[p.server].text[p.code]),
           Plain(PacketHead, Layout[p.server].text[p.code]),
           Layout[p.server].read[p.code] = Layout[p.server].written[p.code],
           u = DataLength(p) - Layout[p.server].text_takes[p.code], u # p.text,
           PacketLength(p) \in Nat, PACKET_HEAD_LENGTH + w <= PacketLength(p)
    PROVE  MisreadOf(p) = {<<Layout[p.server].text[p.code], 0>>}
<1> DEFINE name == Layout[p.server].text[p.code]
           q == PacketHead \o Layout[p.server].written[p.code]
<1>1. Wide(q, PACKET_HEAD_LENGTH + w)
  BY HeadWide, WideBoth, Zenon
<1>2. Plain(q, name)
  BY PlainBoth, Zenon
<1>3. /\ q \o Data(name, p.text) \in Seq(Field)
      /\ q \o Data(name, u) \in Seq(Field)
  <2>1. /\ q \in Seq(Field) /\ Data(name, p.text) \in Seq(Field)
        /\ Data(name, u) \in Seq(Field)
    BY <1>1, DataField, Zenon DEF Wide
  <2> QED
    BY <2>1, Joined, Zenon
<1>4. WrittenFields(p) = q \o Data(name, p.text) \o <<>>
  BY Zenon DEF WrittenFields
<1>5. FieldsRead(p.server, p.code, DataLength(p)) = q \o Data(name, u) \o <<>>
  BY Zenon DEF FieldsRead, HasText, HasList
<1> HIDE DEF q, name
<1>6. WrittenFields(p) = q \o Data(name, p.text)
  BY <1>3, <1>4, NothingBehind, Zenon
<1>7. FieldsRead(p.server, p.code, DataLength(p)) = q \o Data(name, u)
  BY <1>3, <1>5, NothingBehind, ZenonT(30)
<1>8. Difference(Write(q \o Data(name, p.text)).extents,
                 Read(q \o Data(name, u), PacketLength(p)).extents) = {<<name, 0>>}
  <2>1. name \in MemberNames
    BY DEF name
  <2> QED
    BY <1>1, <1>2, <2>1, TextMisread
<1>9. MisreadOf(p) = {<<name, 0>>}
  BY <1>6, <1>7, <1>8, ZenonT(30) DEF MisreadOf, PackStream, UnpackStream
<1> QED
  BY <1>9 DEF name

\* The reason of a failed log-in and the text of a private message are taken 8
\* bytes too long, by the place that data_length does not give them.
LEMMA LongTexts ==
    ASSUME NEW s \in {"chat", "robot"}, NEW p \in Packets(s),
           p.code \in {"USER_LOGIN_FAILED", "TEXT_CHAT_PRIVATE_RECV"}
    PROVE  MisreadOf(p) = {<<Chat!Text[p.code], 0>>}
<1>1. p.server = s /\ p.code \in DOMAIN Layout[s].size /\ p.text \in Nat /\ p.entries \in Nat
  BY PacketType, Zenon
<1>2. s = "chat" /\ p.code \in DOMAIN Chat!Size
  <2>1. /\ "USER_LOGIN_FAILED" \notin DOMAIN Robot!Size
        /\ "TEXT_CHAT_PRIVATE_RECV" \notin DOMAIN Robot!Size
    BY DEF Robot!Size
  <2> QED
    BY <1>1, <2>1, Layouts
<1> DEFINE w == Chat!Size[p.code]
<1>3. /\ p.code \in DOMAIN Chat!Text /\ p.code \notin DOMAIN Chat!EntryWritten
      /\ Chat!Text[p.code] \in MemberNames
      /\ Chat!Text[p.code] \notin {"packet_length", "operate_code", "data_length", "current_time",
                                   "msg_type", "is_zip", "msg_id", "reserverd"}
      /\ Chat!Text[p.code] \notin {"platform_id", "send_user_id", "recv_user_id"}
      /\ Chat!TextTakes[p.code] = w - 8 /\ w \in Nat
  BY Known DEF Chat!Text, Chat!EntryWritten, Chat!TextTakes, Chat!Size
<1>4. /\ Layout[p.server].text = Chat!Text /\ Layout[p.server].entry = Chat!EntryWritten
      /\ Layout[p.server].written = Chat!Written /\ Layout[p.server].read = Chat!ReadFields
      /\ Layout[p.server].text_takes = Chat!TextTakes /\ Layout[p.server].size = Chat!Size
  BY <1>1, <1>2, Layouts, Zenon
<1>5. Wide(Chat!Written[p.code], w) /\ Chat!ReadFields[p.code] = Chat!Written[p.code]
  <2>1. Wide(Chat!Written[p.code], w - Unfilled(p.code))
    BY <1>2, ChatWritten, Zenon
  <2>2. w - Unfilled(p.code) = w
    BY <1>3 DEF Unfilled
  <2>3. Chat!ReadFields[p.code] = Chat!Written[p.code]
    BY <1>2, ChatRead, Zenon
  <2> HIDE DEF w
  <2> QED
    BY <2>1, <2>2, <2>3, Zenon
<1>6. Plain(Chat!Written[p.code], Chat!Text[p.code])
  <2> DEFINE name == Chat!Text[p.code]
  <2>1. \A m : Chat!Int64s(m) = Fields(m, 8)
    BY DEF Chat!Int64s, Chat!Fields, Fields
  <2>2. /\ "platform_id" # name /\ "send_user_id" # name /\ "recv_user_id" # name
        /\ "platform_id" \in MemberNames /\ "send_user_id" \in MemberNames
        /\ "recv_user_id" \in MemberNames /\ 8 \in Nat
    BY <1>3, Known
  <2> HIDE DEF name
  <2>3. /\ Plain(Fields(<<"platform_id">>, 8), name)
        /\ Plain(Fields(<<"platform_id", "send_user_id", "recv_user_id">>, 8), name)
    BY <2>2, PlainInts, Zenon
  <2>4. /\ "USER_LOGIN_FAILED" \in DOMAIN Chat!SignInWritten
        /\ Chat!SignInWritten["USER_LOGIN_FAILED"] = Chat!Int64s(<<"platform_id">>)
        /\ "TEXT_CHAT_PRIVATE_RECV" \in DOMAIN Chat!PrivateWritten
        /\ Chat!PrivateWritten["TEXT_CHAT_PRIVATE_RECV"]
             = Chat!Int64s(<<"platform_id", "send_user_id", "recv_user_id">>)
    BY DEF Chat!SignInWritten, Chat!PrivateWritten
  <2>5. /\ Chat!Written["USER_LOGIN_FAILED"] = Chat!SignInWritten["USER_LOGIN_FAILED"]
        /\ Chat!Written["TEXT_CHAT_PRIVATE_RECV"] = Chat!PrivateWritten["TEXT_CHAT_PRIVATE_RECV"]
    BY <2>4, ChatGroups, Zenon
  <2>6. Plain(Chat!Written["USER_LOGIN_FAILED"], name)
    BY <2>1, <2>3, <2>4, <2>5, Zenon
  <2>7. Plain(Chat!Written["TEXT_CHAT_PRIVATE_RECV"], name)
    BY <2>1, <2>3, <2>4, <2>5, Zenon
  <2>8. Plain(Chat!Written[p.code], name)
    BY <2>6, <2>7
  <2> QED
    BY <2>8 DEF name
<1>7. Plain(PacketHead, Chat!Text[p.code])
  BY <1>3, PlainHead
<1>8. HasText(p) /\ ~HasList(p)
  BY <1>3, <1>4, Zenon DEF HasText, HasList
<1>9. /\ DataLength(p) = w + p.text /\ PacketLength(p) = PACKET_HEAD_LENGTH + (w + p.text)
      /\ PacketLength(p) \in Nat /\ PACKET_HEAD_LENGTH + w <= PacketLength(p)
  <2>1. DataLength(p) = w + p.text
    BY <1>1, <1>3, <1>4, <1>8 DEF DataLength
  <2> HIDE DEF w
  <2> QED
    BY <1>1, <1>3, <2>1 DEF PacketLength, PACKET_HEAD_LENGTH
<1> DEFINE u == p.text + 8
<1>10. u = DataLength(p) - Layout[p.server].text_takes[p.code] /\ u # p.text /\ u \in Nat
  <2> HIDE DEF w
  <2> QED
    BY <1>1, <1>3, <1>4, <1>9
<1> HIDE DEF u, w
<1>11. /\ Layout[p.server].text[p.code] = Chat!Text[p.code]
       /\ Layout[p.server].written[p.code] = Chat!Written[p.code]
       /\ Layout[p.server].read[p.code] = Layout[p.server].written[p.code]
  BY <1>4, <1>5, Zenon
<1> QED
  BY <1>1, <1>3, <1>5, <1>6, <1>7, <1>8, <1>9, <1>10, <1>11, TextPacket

\* A number of 8 bytes.
Number(name, from) == [member |-> name, nth |-> 0, from |-> from, width |-> 8]

\* Where four of them are.
LEMMA NumbersAt ==
    ASSUME NEW a \in MemberNames, NEW b \in MemberNames, NEW c \in MemberNames,
           NEW d \in MemberNames, NEW from \in Nat
    PROVE  At(Fields(<<a, b, c, d>>, 8), from)
             = {Number(a, from), Number(b, from + 8), Number(c, from + 16)}
                 \cup {Number(d, from + 24)}
<1> DEFINE m == <<a, b, c, d>>
           q == Fields(m, 8)
<1>1. m \in Seq(MemberNames) /\ Len(m) = 4 /\ m[1] = a /\ m[2] = b /\ m[3] = c /\ m[4] = d
  OBVIOUS
<1> HIDE DEF m
<1>2. /\ q \in Seq(Field) /\ Len(q) = Len(m)
      /\ \A i \in 1 .. Len(m) : q[i] = [member |-> m[i], nth |-> 0, width |-> 8, data |-> FALSE]
  BY <1>1, FieldsAll
<1> HIDE DEF q
<1>3. /\ WidthTo(q, 0) = 0
      /\ \A k \in 1 .. Len(q) : WidthTo(q, k) = WidthTo(q, k - 1) + q[k].width
  BY <1>2, Widths
<1>4. \A i \in 1 .. 4 : q[i].width = 8 /\ q[i].member = m[i] /\ q[i].nth = 0 /\ q[i] \in Field
  <2> TAKE i \in 1 .. 4
  <2>1. i \in 1 .. Len(m) /\ i \in 1 .. Len(q)
    BY <1>1, <1>2
  <2>2. q[i] = [member |-> m[i], nth |-> 0, width |-> 8, data |-> FALSE]
    BY <1>2, <2>1
  <2>3. q[i] \in Field
    BY <1>2, <2>1
  <2> QED
    BY <2>2, <2>3
<1>5. WidthTo(q, 0) = 0 /\ WidthTo(q, 1) = 8 /\ WidthTo(q, 2) = 16 /\ WidthTo(q, 3) = 24
  <2>1. Len(q) = 4
    BY <1>1, <1>2
  <2>2. WidthTo(q, 1) = 8
    BY <1>3, <1>4, <2>1
  <2>3. WidthTo(q, 2) = 16
    BY <1>3, <1>4, <2>1, <2>2
  <2>4. WidthTo(q, 3) = 24
    BY <1>3, <1>4, <2>1, <2>3
  <2> QED
    BY <1>3, <2>2, <2>3, <2>4
<1> DEFINE x(j) == Extent(q[j], from + WidthTo(q, j - 1))
<1>6. \A j \in 1 .. 4 : x(j) = Number(m[j], from + WidthTo(q, j - 1))
  <2> TAKE j \in 1 .. 4
  <2>1. from + WidthTo(q, j - 1) \in Nat
    BY <1>5
  <2>2. Extent(q[j], from + WidthTo(q, j - 1))
          = [member |-> q[j].member, nth |-> q[j].nth,
             from |-> IF q[j].width = 0 THEN -1 ELSE from + WidthTo(q, j - 1), width |-> q[j].width]
    BY <1>4, <2>1, ExtentOf
  <2> QED
    BY <1>4, <2>2 DEF Number
<1>7. At(q, from) = {x(j) : j \in 1 .. 4}
  <2>1. Len(q) = 4
    BY <1>1, <1>2
  <2> QED
    BY <2>1 DEF At
<1> HIDE DEF x
<1>8. {x(j) : j \in 1 .. 4} = {x(1), x(2), x(3)} \cup {x(4)}
  OBVIOUS
<1>9. /\ x(1) = Number(a, from) /\ x(2) = Number(b, from + 8) /\ x(3) = Number(c, from + 16)
      /\ x(4) = Number(d, from + 24)
  BY <1>1, <1>5, <1>6
<1> QED
  BY <1>7, <1>8, <1>9 DEF q, m

\* The song that a robot gives is read into the robot's number, behind the number
\* that was written for it.
LEMMA GiftMisread ==
    ASSUME NEW s \in {"chat", "robot"}, NEW p \in Packets(s),
           p.code = "NOTICE_USER_ROBOT_HANDSEL_SONG"
    PROVE  MisreadOf(p) = {<<"robot_id", 0>>, <<"song_id", 0>>}
<1> DEFINE f == Fields(<<"platform_id", "uid", "robot_id", "song_id">>, 8)
           g == Fields(<<"platform_id", "uid", "robot_id", "robot_id">>, 8)
           b == PACKET_HEAD_LENGTH
           E == At(PacketHead, 0)
                  \cup {Number("platform_id", b), Number("uid", b + 8), Number("robot_id", b + 16)}
           x == Number("song_id", b + 24)
           y == Number("robot_id", b + 24)
<1>1. p.server = s /\ p.code \in DOMAIN Layout[s].size /\ p.text \in Nat /\ p.entries \in Nat
      /\ (~HasText(p) => p.text = 0)
  BY PacketType, Zenon
<1>2. /\ s = "robot" /\ p.code \notin DOMAIN Robot!Text /\ p.code \notin DOMAIN Robot!EntryWritten
      /\ Robot!Size[p.code] = 32
  <2>1. /\ "NOTICE_USER_ROBOT_HANDSEL_SONG" \notin DOMAIN Chat!Size
        /\ "NOTICE_USER_ROBOT_HANDSEL_SONG" \notin DOMAIN Robot!Text
        /\ "NOTICE_USER_ROBOT_HANDSEL_SONG" \notin DOMAIN Robot!EntryWritten
        /\ Robot!Size["NOTICE_USER_ROBOT_HANDSEL_SONG"] = 32
    BY DEF Chat!Size, Robot!Text, Robot!EntryWritten, Robot!Size
  <2> QED
    BY <1>1, <2>1, Layouts
<1>3. ~HasText(p) /\ ~HasList(p)
  BY <1>1, <1>2, Layouts DEF HasText, HasList
<1>4. PacketLength(p) = PACKET_HEAD_LENGTH + 32
  BY <1>1, <1>2, <1>3, Layouts DEF PacketLength, DataLength, PACKET_HEAD_LENGTH
<1>5. /\ "platform_id" \in MemberNames /\ "uid" \in MemberNames /\ "robot_id" \in MemberNames
      /\ "song_id" \in MemberNames
  BY Known
<1>6. Layout[p.server].written[p.code] = f /\ Layout[p.server].read[p.code] = g
  <2>1. \A m : Robot!Int64s(m) = Fields(m, 8)
    BY DEF Robot!Int64s, Robot!Fields, Fields
  <2>2. Robot!Written[p.code] = f /\ Robot!ReadFields[p.code] = g
    BY <2>1, RobotRead
  <2> HIDE DEF f, g
  <2> QED
    BY <1>1, <1>2, <2>2, Layouts
<1>7. Wide(f, 4 * 8) /\ Wide(g, 4 * 8)
  <2>1. 8 \in Nat
    OBVIOUS
  <2> QED
    BY <1>5, <2>1, Ints, Zenon
<1>8. Wide(PacketHead \o f, b + 4 * 8) /\ Wide(PacketHead \o g, b + 4 * 8)
  BY <1>7, HeadWide, WideBoth, Zenon
<1>9. /\ At(f, b) = {Number("platform_id", b), Number("uid", b + 8),
                     Number("robot_id", b + 16)} \cup {x}
      /\ At(g, b) = {Number("platform_id", b), Number("uid", b + 8),
                     Number("robot_id", b + 16)} \cup {y}
  <2>1. b \in Nat
    BY DEF PACKET_HEAD_LENGTH
  <2> HIDE DEF b
  <2> QED
    BY <1>5, <2>1, NumbersAt
<1>10. /\ WrittenFields(p) = PacketHead \o f \o <<>> \o <<>>
       /\ FieldsRead(p.server, p.code, DataLength(p)) = PacketHead \o g \o <<>> \o <<>>
  <2> HIDE DEF f, g
  <2>1. WrittenFields(p) = PacketHead \o f \o <<>> \o <<>>
    BY <1>3, <1>6, Zenon DEF WrittenFields
  <2>2. FieldsRead(p.server, p.code, DataLength(p)) = PacketHead \o g \o <<>> \o <<>>
    BY <1>3, <1>6, Zenon DEF FieldsRead, HasText, HasList
  <2> QED
    BY <2>1, <2>2
<1> HIDE DEF f, g
<1>11. /\ WrittenFields(p) = PacketHead \o f
       /\ FieldsRead(p.server, p.code, DataLength(p)) = PacketHead \o g
  <2>1. PacketHead \o f \in Seq(Field) /\ PacketHead \o g \in Seq(Field)
    BY <1>8 DEF Wide
  <2>2. /\ PacketHead \o f \o <<>> = PacketHead \o f
        /\ PacketHead \o g \o <<>> = PacketHead \o g
    BY <2>1, NothingBehind, Zenon
  <2> QED
    BY <1>10, <2>2, Zenon
<1>12. ASSUME NEW h, Wide(h, 4 * 8), Wide(PacketHead \o h, b + 4 * 8)
       PROVE  Read(PacketHead \o h, PacketLength(p)).extents = At(PacketHead, 0) \cup At(h, b)
  <2>1. b + 4 * 8 <= PacketLength(p) /\ PacketLength(p) \in Nat
    BY <1>4 DEF PACKET_HEAD_LENGTH
  <2>2. Read(PacketHead \o h, PacketLength(p)).extents = At(PacketHead \o h, 0)
    BY <1>12, <2>1, ReadAsWritten, Zenon
  <2>3. /\ PacketHead \in Seq(Field) /\ h \in Seq(Field) /\ Width(PacketHead) = b
    BY <1>12, HeadWide, Zenon DEF Wide
  <2>4. 0 \in Nat /\ 0 + b = b
    BY DEF PACKET_HEAD_LENGTH
  <2>5. At(PacketHead \o h, 0) = At(PacketHead, 0) \cup At(h, 0 + Width(PacketHead))
    BY <2>3, <2>4, AtBoth, Zenon
  <2> HIDE DEF b
  <2> QED
    BY <2>2, <2>3, <2>4, <2>5, Zenon
<1>13. /\ PackStream(p) = At(PacketHead, 0) \cup At(f, b)
       /\ UnpackStream(p) = At(PacketHead, 0) \cup At(g, b)
  <2>1. UnpackStream(p) = At(PacketHead, 0) \cup At(g, b)
    BY <1>7, <1>8, <1>11, <1>12, Zenon DEF UnpackStream
  <2>2. PackStream(p) = At(PacketHead, 0) \cup At(f, b)
    <3>1. PackStream(p) = At(PacketHead \o f, 0)
      BY <1>11, PacketRead, Zenon
    <3>2. PacketHead \in Seq(Field) /\ f \in Seq(Field) /\ Width(PacketHead) = b
      BY <1>7, HeadWide, Zenon DEF Wide
    <3>3. 0 \in Nat /\ 0 + b = b
      BY DEF PACKET_HEAD_LENGTH
    <3>4. At(PacketHead \o f, 0) = At(PacketHead, 0) \cup At(f, 0 + Width(PacketHead))
      BY <3>2, <3>3, AtBoth, Zenon
    <3> HIDE DEF b
    <3> QED
      BY <3>1, <3>2, <3>3, <3>4, Zenon
  <2> QED
    BY <2>1, <2>2
<1>14. /\ x.member = "song_id" /\ x.nth = 0 /\ y.member = "robot_id" /\ y.nth = 0
  BY DEF Number
<1>15. x \notin At(PacketHead, 0) /\ y \notin At(PacketHead, 0)
  <2>1. Plain(PacketHead, "song_id") /\ Plain(PacketHead, "robot_id")
    BY PlainHead
  <2>2. PacketHead \in Seq(Field) /\ 0 \in Nat
    BY HeadWide DEF Wide
  <2>3. \A z \in At(PacketHead, 0) : <<z.member, z.nth>> \in NamesOf(PacketHead)
    BY <2>2, NamesAt, Zenon
  <2>4. \A z \in At(PacketHead, 0) : z.member # "song_id" /\ z.member # "robot_id"
    BY <2>1, <2>3 DEF Plain
  <2> HIDE DEF x, y
  <2> QED
    BY <1>14, <2>4
<1>16. /\ x \notin {Number("platform_id", b), Number("uid", b + 8), Number("robot_id", b + 16)}
       /\ y \notin {Number("platform_id", b), Number("uid", b + 8), Number("robot_id", b + 16)}
       /\ x # y
  BY DEF Number, PACKET_HEAD_LENGTH
<1> DEFINE three == {Number("platform_id", b), Number("uid", b + 8), Number("robot_id", b + 16)}
<1>17. E = At(PacketHead, 0) \cup three
  OBVIOUS
<1> HIDE DEF x, y, E, b, three
<1>18. PackStream(p) = E \cup {x} /\ UnpackStream(p) = E \cup {y}
  <2>1. At(f, b) = three \cup {x} /\ At(g, b) = three \cup {y}
    BY <1>9 DEF three
  <2> QED
    BY <1>13, <1>17, <2>1
<1>19. x \notin E /\ y \notin E /\ x # y
  BY <1>15, <1>16, <1>17 DEF three
<1>20. Difference(E \cup {x}, E \cup {y}) = {<<x.member, x.nth>>, <<y.member, y.nth>>}
  BY <1>19, OneMisread
<1>21. MisreadOf(p) = {<<x.member, x.nth>>, <<y.member, y.nth>>}
  BY <1>18, <1>20, Zenon DEF MisreadOf
<1> QED
  BY <1>14, <1>21

-----------------------------------------------------------------------------
(* Lists *)

\* Members of the packet itself.
OfPacket(E) == \A x \in E : x.nth = 0

\* Two layouts of an entry by which only the first member of a list begins at the
\* same place.
FirstInPlace(f, g) ==
    /\ SameMembers(f, g) /\ Len(f) > 0
    /\ \A k \in 1 .. Len(f) : \A i \in Nat \ {0} :
         (f[k].width # g[k].width \/ Place(f, k, i) # Place(g, k, i)) <=> (k # 1 \/ i # 1)

\* The members of an entry.
MembersOf(f) == {f[k].member : k \in 1 .. Len(f)}

\* All members of n entries but the first.
AllBut(f, n) == (MembersOf(f) \X (1 .. n)) \ {<<f[1].member, 1>>}

\* n such entries that begin at b, behind members of the packet.
BehindOthers(f, g, n, b, E) ==
    n \in Nat /\ b \in Nat /\ FirstInPlace(f, g) /\ OfPacket(E)

\* Then all others are misread.
LEMMA AllButFirst ==
    ASSUME NEW f, NEW g, NEW n, NEW b, NEW E, BehindOthers(f, g, n, b, E)
    PROVE  Difference(E \cup ListAt(f, n, b), E \cup ListAt(g, n, b))
             = AllBut(f, n)
<1> DEFINE D == (1 .. Len(f)) \X (1 .. n)
           B == Misplaced(f, g, n)
           M == MembersOf(f)
           W == {<<f[ki[1]].member, ki[2]>> : ki \in B}
<1> n \in Nat /\ b \in Nat /\ FirstInPlace(f, g) /\ OfPacket(E)
  BY Zenon DEF BehindOthers
<1>1. SameMembers(f, g)
  BY Zenon DEF FirstInPlace
<1>2. /\ f \in Seq(Field) /\ Len(f) > 0
      /\ \A j, k \in 1 .. Len(f) : f[j].member = f[k].member => j = k
  BY Zenon DEF FirstInPlace, SameMembers
<1>3. M = {f[k].member : k \in 1 .. Len(f)}
  BY DEF MembersOf
<1> HIDE DEF M
<1>4. \A x \in E : x.nth = 0
  BY Zenon DEF OfPacket
<1>5. Difference(E \cup ListAt(f, n, b), E \cup ListAt(g, n, b)) = W
  <2>1. Difference(E \cup ListAt(f, n, b), E \cup ListAt(g, n, b)) = NamesMisplaced(f, g, n)
    BY <1>1, <1>4, ListMisread
  <2> QED
    BY <2>1, Zenon DEF NamesMisplaced
<1>6. \A ki \in D : ki \in B <=> (ki[1] # 1 \/ ki[2] # 1)
  <2> TAKE ki \in D
  <2>1. ki[1] \in 1 .. Len(f) /\ ki[2] \in 1 .. n /\ ki[2] \in Nat \ {0}
    OBVIOUS
  <2> QED
    BY <2>1, Zenon DEF Misplaced, FirstInPlace
<1>7. ASSUME NEW e \in W PROVE e \in (M \X (1 .. n)) \ {<<f[1].member, 1>>}
  <2>1. PICK ki \in B : e = <<f[ki[1]].member, ki[2]>>
    OBVIOUS
  <2>2. ki \in D /\ (ki[1] # 1 \/ ki[2] # 1)
    BY <1>6 DEF Misplaced
  <2>3. ki[1] \in 1 .. Len(f) /\ ki[2] \in 1 .. n
    BY <2>2
  <2>4. 1 \in 1 .. Len(f)
    BY <1>2
  <2>5. f[ki[1]].member \in M /\ (f[ki[1]].member = f[1].member => ki[1] = 1)
    BY <1>2, <1>3, <2>3, <2>4, Zenon
  <2> HIDE DEF M, B, D, W
  <2> QED
    BY <2>1, <2>2, <2>3, <2>5
<1>8. ASSUME NEW e \in (M \X (1 .. n)) \ {<<f[1].member, 1>>} PROVE e \in W
  <2>1. e[1] \in M /\ e[2] \in 1 .. n /\ e = <<e[1], e[2]>> /\ e # <<f[1].member, 1>>
    <3> HIDE DEF M
    <3> QED
      OBVIOUS
  <2>2. PICK k \in 1 .. Len(f) : e[1] = f[k].member
    BY <1>3, <2>1
  <2> DEFINE ki == <<k, e[2]>>
  <2>3. ki \in D /\ ki[1] = k /\ ki[2] = e[2]
    BY <2>1
  <2>4. k # 1 \/ e[2] # 1
    BY <2>1, <2>2
  <2> HIDE DEF ki, D
  <2>5. ki \in B
    <3> HIDE DEF B
    <3> QED
      BY <1>6, <2>3, <2>4
  <2>6. e = <<f[ki[1]].member, ki[2]>>
    BY <2>1, <2>2, <2>3
  <2> HIDE DEF B
  <2> QED
    BY <2>5, <2>6
<1> HIDE DEF W, M
<1>9. W = (M \X (1 .. n)) \ {<<f[1].member, 1>>}
  BY <1>7, <1>8
<1> QED
  BY <1>5, <1>9, Zenon DEF M, AllBut

\* What is written and read of a packet with a list: w bytes before it.
LEMMA ListPacket ==
    ASSUME NEW p, NEW w \in Nat, NEW f \in Seq(Field), NEW g \in Seq(Field),
           HasList(p), ~HasText(p), p.entries \in Nat,
           Layout[p.server].entry[p.code] = f, Layout[p.server].entry_read[p.code] = g,
           Wide(Layout[p.server].written[p.code], w),
           Layout[p.server].read[p.code] = Layout[p.server].written[p.code],
           (DataLength(p) - Layout[p.server].list_takes[p.code])
             \div Layout[p.server].entry_size[p.code] = p.entries,
           PacketLength(p) \in Nat,
           PACKET_HEAD_LENGTH + w + p.entries * Width(g) <= PacketLength(p)
    PROVE  LET E == At(PacketHead \o Layout[p.server].written[p.code], 0)
               b == PACKET_HEAD_LENGTH + w
           IN  /\ PackStream(p) = E \cup ListAt(f, p.entries, b)
               /\ UnpackStream(p) = E \cup ListAt(g, p.entries, b)
<1> DEFINE q == PacketHead \o Layout[p.server].written[p.code]
           b == PACKET_HEAD_LENGTH + w
           n == p.entries
<1>1. Wide(q, b)
  BY HeadWide, WideBoth, Zenon
<1>2. WrittenFields(p) = q \o <<>> \o Entries(f, n)
  BY Zenon DEF WrittenFields
<1>3. FieldsRead(p.server, p.code, DataLength(p)) = q \o <<>> \o Entries(g, n)
  BY Zenon DEF FieldsRead, HasText, HasList
<1>4. b \in Nat /\ 0 \in Nat /\ 0 + b = b
  BY DEF PACKET_HEAD_LENGTH
<1>5. Width(g) \in Nat
  BY Widths, Zenon
<1>6. b + n * Width(g) <= PacketLength(p)
  OBVIOUS
<1> HIDE DEF q, b, n
<1>7. q \in Seq(Field) /\ Width(q) = b
  BY <1>1, Zenon DEF Wide
<1>8. q \o <<>> = q
  BY <1>7, NothingBehind, Zenon
<1>9. ASSUME NEW h \in Seq(Field)
      PROVE  /\ Wide(Entries(h, n), n * Width(h))
             /\ At(q \o Entries(h, n), 0) = At(q, 0) \cup ListAt(h, n, b)
             /\ q \o Entries(h, n) \in Seq(Field)
             /\ Wide(q \o Entries(h, n), b + n * Width(h))
  <2>1. n \in Nat
    BY DEF n
  <2>2. /\ Wide(Entries(h, n), n * Width(h))
        /\ \A c \in Nat : At(Entries(h, n), c) = ListAt(h, n, c)
    BY <2>1, EntriesAt, Zenon
  <2>3. Entries(h, n) \in Seq(Field)
    BY <2>2, Zenon DEF Wide
  <2>4. At(q \o Entries(h, n), 0) = At(q, 0) \cup At(Entries(h, n), 0 + Width(q))
    BY <1>4, <1>7, <2>3, AtBoth, Zenon
  <2>5. q \o Entries(h, n) \in Seq(Field)
    BY <1>7, <2>3, Joined, Zenon
  <2>6. Wide(q \o Entries(h, n), b + n * Width(h))
    BY <1>1, <2>2, WideBoth, Zenon
  <2>7. At(Entries(h, n), 0 + Width(q)) = ListAt(h, n, b)
    BY <1>4, <1>7, <2>2, Zenon
  <2> QED
    BY <2>2, <2>4, <2>5, <2>6, <2>7, Zenon
<1>10. PackStream(p) = At(q, 0) \cup ListAt(f, n, b)
  <2>1. WrittenFields(p) = q \o Entries(f, n)
    BY <1>2, <1>8, Zenon
  <2>2. /\ q \o Entries(f, n) \in Seq(Field)
        /\ At(q \o Entries(f, n), 0) = At(q, 0) \cup ListAt(f, n, b)
    BY <1>9, Zenon
  <2>3. Write(q \o Entries(f, n)).extents = At(q \o Entries(f, n), 0)
    BY <2>2, WrittenAt, Zenon
  <2> QED
    BY <2>1, <2>2, <2>3, Zenon DEF PackStream
<1>11. UnpackStream(p) = At(q, 0) \cup ListAt(g, n, b)
  <2>1. FieldsRead(p.server, p.code, DataLength(p)) = q \o Entries(g, n)
    BY <1>3, <1>8, Zenon
  <2>2. /\ Wide(q \o Entries(g, n), b + n * Width(g))
        /\ At(q \o Entries(g, n), 0) = At(q, 0) \cup ListAt(g, n, b)
    BY <1>9, Zenon
  <2>3. Read(q \o Entries(g, n), PacketLength(p)).extents = At(q \o Entries(g, n), 0)
    BY <1>6, <2>2, ReadAsWritten, Zenon
  <2> QED
    BY <2>1, <2>2, <2>3, Zenon DEF UnpackStream
<1> QED
  BY <1>10, <1>11, Zenon DEF q, b, n

\* The extents of members of the packet itself are in no entry.
LEMMA NotInEntries ==
    ASSUME NEW q, NEW name, Plain(q, name)
    PROVE  OfPacket(At(q, 0))
<1>1. q \in Seq(Field) /\ 0 \in Nat
  BY DEF Plain
<1>2. \A x \in At(q, 0) : <<x.member, x.nth>> \in NamesOf(q)
  BY <1>1, NamesAt, Zenon
<1>3. \A x : <<x.member, x.nth>>[2] = x.nth
  OBVIOUS
<1> QED
  BY <1>2, <1>3, Zenon DEF Plain, OfPacket

-----------------------------------------------------------------------------
(* The two lists that are misread *)

\* Fields of these members and widths.
Shape(q, members, widths) ==
    /\ q \in Seq(Field) /\ Len(q) = Len(members)
    /\ \A k \in 1 .. Len(q) : q[k].member = members[k] /\ q[k].width = widths[k]

\* Numbers of one width.
LEMMA ShapeFields ==
    ASSUME NEW w \in Nat, NEW a \in MemberNames, NEW b \in MemberNames, NEW c \in MemberNames
    PROVE  /\ Shape(Fields(<<a>>, w), <<a>>, <<w>>)
           /\ Shape(Fields(<<a, b>>, w), <<a, b>>, <<w, w>>)
           /\ Shape(Fields(<<a, b, c>>, w), <<a, b, c>>, <<w, w, w>>)
<1>1. ASSUME NEW m \in Seq(MemberNames)
      PROVE  /\ Fields(m, w) \in Seq(Field) /\ Len(Fields(m, w)) = Len(m)
             /\ \A i \in 1 .. Len(m) : Fields(m, w)[i].member = m[i] /\ Fields(m, w)[i].width = w
  <2>1. /\ Fields(m, w) \in Seq(Field) /\ Len(Fields(m, w)) = Len(m)
        /\ \A i \in 1 .. Len(m) : Fields(m, w)[i] =
             [member |-> m[i], nth |-> 0, width |-> w, data |-> FALSE]
    BY FieldsAll, Zenon
  <2>2. \A i \in 1 .. Len(m) : Fields(m, w)[i].member = m[i] /\ Fields(m, w)[i].width = w
    <3> TAKE i \in 1 .. Len(m)
    <3>1. Fields(m, w)[i] = [member |-> m[i], nth |-> 0, width |-> w, data |-> FALSE]
      BY <2>1
    <3> QED
      BY <3>1
  <2> QED
    BY <2>1, <2>2
<1>2. Shape(Fields(<<a>>, w), <<a>>, <<w>>)
  <2>1. /\ <<a>> \in Seq(MemberNames) /\ Len(<<a>>) = 1
        /\ \A i \in 1 .. 1 : <<w>>[i] = w
    OBVIOUS
  <2> QED
    BY <1>1, <2>1 DEF Shape
<1>3. Shape(Fields(<<a, b>>, w), <<a, b>>, <<w, w>>)
  <2>1. /\ <<a, b>> \in Seq(MemberNames) /\ Len(<<a, b>>) = 2
        /\ \A i \in 1 .. 2 : <<w, w>>[i] = w
    OBVIOUS
  <2> QED
    BY <1>1, <2>1 DEF Shape
<1>4. Shape(Fields(<<a, b, c>>, w), <<a, b, c>>, <<w, w, w>>)
  <2>1. /\ <<a, b, c>> \in Seq(MemberNames) /\ Len(<<a, b, c>>) = 3
        /\ \A i \in 1 .. 3 : <<w, w, w>>[i] = w
    OBVIOUS
  <2> QED
    BY <1>1, <2>1 DEF Shape
<1> QED
  BY <1>2, <1>3, <1>4

\* A text.
LEMMA ShapeData ==
    ASSUME NEW m \in MemberNames, NEW w \in Nat
    PROVE  Shape(Data(m, w), <<m>>, <<w>>)
<1>1. /\ Data(m, w) \in Seq(Field) /\ Len(Data(m, w)) = 1
      /\ Data(m, w)[1] \in Field
      /\ Data(m, w)[1].member = m /\ Data(m, w)[1].nth = 0
      /\ Data(m, w)[1].width = w /\ Data(m, w)[1].data = TRUE
  BY DataField, Zenon
<1> QED
  BY <1>1 DEF Shape

\* n elements and n1 behind them.
Both(a, n, a1, n1, aa) ==
    /\ n \in Nat /\ n1 \in Nat /\ Len(a) = n /\ Len(a1) = n1 /\ Len(aa) = n + n1
    /\ \A k \in 1 .. n : aa[k] = a[k]
    /\ \A k \in 1 .. n1 : \A j : j = n + k => aa[j] = a1[k]

\* Some members behind others.
LEMMA ShapeBoth ==
    ASSUME NEW q, NEW r, NEW m, NEW w, NEW m1, NEW w1, NEW mm, NEW ww, NEW n, NEW n1,
           Shape(q, m, w), Shape(r, m1, w1), Both(m, n, m1, n1, mm), Both(w, n, w1, n1, ww)
    PROVE  Shape(q \o r, mm, ww)
<1>1. /\ n \in Nat /\ n1 \in Nat /\ Len(m) = n /\ Len(m1) = n1 /\ Len(mm) = n + n1
      /\ \A k \in 1 .. n : mm[k] = m[k] /\ ww[k] = w[k]
      /\ \A k \in 1 .. n1 : \A j : j = n + k => mm[j] = m1[k] /\ ww[j] = w1[k]
  BY Zenon DEF Both
<1> USE <1>1
<1> DEFINE b == q \o r
<1>2. q \in Seq(Field) /\ r \in Seq(Field) /\ Len(r) = n1 /\ Len(q) = n
  BY DEF Shape
<1>3. /\ \A k \in 1 .. n : q[k].member = m[k] /\ q[k].width = w[k]
      /\ \A k \in 1 .. n1 : r[k].member = m1[k] /\ r[k].width = w1[k]
  BY <1>2 DEF Shape
<1>4. /\ b \in Seq(Field) /\ Len(b) = n + n1
      /\ \A k \in 1 .. n : b[k] = q[k]
      /\ \A k \in 1 .. n1 : \A j : j = n + k => b[j] = r[k]
  <2>1. /\ q \o r \in Seq(Field) /\ Len(q \o r) = Len(q) + Len(r)
        /\ \A k \in 1 .. Len(q) : (q \o r)[k] = q[k]
        /\ \A k \in 1 .. Len(r) : (q \o r)[Len(q) + k] = r[k]
    BY <1>2, Joined, Zenon
  <2> QED
    BY <1>2, <2>1, Zenon DEF b
<1> HIDE DEF b
<1>5. \A k \in 1 .. n + n1 : b[k].member = mm[k] /\ b[k].width = ww[k]
  <2> TAKE k \in 1 .. n + n1
  <2>1. CASE k <= n
    <3>1. k \in 1 .. n
      BY <2>1
    <3> QED
      BY <1>3, <1>4, <3>1
  <2>2. CASE k > n
    <3>1. k - n \in 1 .. n1 /\ k = n + (k - n)
      BY <2>2
    <3>2. \A i \in 1 .. n1 : \A j : j = n + i => b[j].member = mm[j] /\ b[j].width = ww[j]
      <4> TAKE i \in 1 .. n1
      <4> TAKE j
      <4> HAVE j = n + i
      <4>1. b[j] = r[i]
        BY <1>4, Zenon
      <4>2. mm[j] = m1[i] /\ ww[j] = w1[i]
        BY <1>1, Zenon
      <4> QED
        BY <1>3, <4>1, <4>2, Zenon
    <3> QED
      BY <3>1, <3>2, Zenon
  <2> QED
    BY <2>1, <2>2
<1> QED
  BY <1>4, <1>5 DEF Shape, b

\* Where the members of an entry begin.
LEMMA ShapeWidths ==
    ASSUME NEW q, NEW members, NEW widths, Shape(q, members, widths)
    PROVE  /\ WidthTo(q, 0) = 0 /\ Width(q) = WidthTo(q, Len(members))
           /\ \A k \in 1 .. Len(members) : WidthTo(q, k) = WidthTo(q, k - 1) + widths[k]
<1>1. /\ q \in Seq(Field) /\ Len(q) = Len(members)
      /\ \A k \in 1 .. Len(q) : q[k].width = widths[k]
  BY DEF Shape
<1>2. /\ WidthTo(q, 0) = 0 /\ Width(q) = WidthTo(q, Len(q))
      /\ \A k \in 1 .. Len(q) : WidthTo(q, k) = WidthTo(q, k - 1) + q[k].width
  BY <1>1, Widths, Zenon
<1> QED
  BY <1>1, <1>2

\* The entries of the list of robots as they are written and read, and those of
\* the list of songs.
LEMMA EntryShapes ==
    /\ Shape(Robot!EntryWritten["NOTICE_USER_ROBOT_LOGIN"],
             <<"uid", "latitude", "longitude", "nickname">>, <<8, 8, 8, 48>>)
    /\ Shape(Robot!EntryRead["NOTICE_USER_ROBOT_LOGIN"],
             <<"uid", "latitude", "longitude", "nickname">>, <<8, 4, 4, 48>>)
    /\ Shape(Robot!EntryWritten["NOTICE_ASSISTANT_HANDSEL_SONG"],
             <<"uid", "songid", "message">>, <<8, 8, 512>>)
    /\ Shape(Robot!EntryRead["NOTICE_ASSISTANT_HANDSEL_SONG"],
             <<"uid", "songid", "message">>, <<8, 1, 512>>)
<1>1. /\ \A m : Robot!Int8s(m) = Fields(m, 1) /\ Robot!Int32s(m) = Fields(m, 4)
      /\ \A m : Robot!Int64s(m) = Fields(m, 8)
      /\ \A m, w : Robot!Data(m, w) = Data(m, w)
  BY DEF Robot!Int8s, Robot!Int32s, Robot!Int64s, Robot!Fields, Fields, Robot!Data, Data
<1>2. /\ "uid" \in MemberNames /\ "latitude" \in MemberNames /\ "longitude" \in MemberNames
      /\ "nickname" \in MemberNames /\ "songid" \in MemberNames /\ "message" \in MemberNames
  BY Known
<1>3. 1 \in Nat /\ 2 \in Nat /\ 3 \in Nat /\ 4 \in Nat /\ 8 \in Nat /\ 48 \in Nat /\ 512 \in Nat
  OBVIOUS
<1>4. /\ Shape(Robot!Int64s(<<"uid">>), <<"uid">>, <<8>>)
      /\ Shape(Robot!Int64s(<<"uid", "songid">>), <<"uid", "songid">>, <<8, 8>>)
      /\ Shape(Robot!Int64s(<<"uid", "latitude", "longitude">>),
               <<"uid", "latitude", "longitude">>, <<8, 8, 8>>)
      /\ Shape(Robot!Int32s(<<"latitude", "longitude">>), <<"latitude", "longitude">>, <<4, 4>>)
      /\ Shape(Robot!Int8s(<<"songid">>), <<"songid">>, <<1>>)
      /\ Shape(Robot!Data("nickname", 48), <<"nickname">>, <<48>>)
      /\ Shape(Robot!Data("message", 512), <<"message">>, <<512>>)
  <2>1. \A w \in Nat : \A a, b, c \in MemberNames :
          /\ Shape(Fields(<<a>>, w), <<a>>, <<w>>)
          /\ Shape(Fields(<<a, b>>, w), <<a, b>>, <<w, w>>)
          /\ Shape(Fields(<<a, b, c>>, w), <<a, b, c>>, <<w, w, w>>)
    BY ShapeFields, Zenon
  <2>2. \A w \in Nat : \A a \in MemberNames : Shape(Data(a, w), <<a>>, <<w>>)
    BY ShapeData, Zenon
  <2>3. /\ Shape(Fields(<<"uid">>, 8), <<"uid">>, <<8>>)
        /\ Shape(Fields(<<"uid", "songid">>, 8), <<"uid", "songid">>, <<8, 8>>)
        /\ Shape(Fields(<<"uid", "latitude", "longitude">>, 8),
                 <<"uid", "latitude", "longitude">>, <<8, 8, 8>>)
    BY <1>2, <1>3, <2>1, ZenonT(30)
  <2>4. /\ Shape(Fields(<<"latitude", "longitude">>, 4), <<"latitude", "longitude">>, <<4, 4>>)
        /\ Shape(Fields(<<"songid">>, 1), <<"songid">>, <<1>>)
    BY <1>2, <1>3, <2>1, Zenon
  <2>5. /\ Shape(Data("nickname", 48), <<"nickname">>, <<48>>)
        /\ Shape(Data("message", 512), <<"message">>, <<512>>)
    BY <1>2, <1>3, <2>2, ZenonT(30)
  <2>6. /\ Robot!Int64s(<<"uid">>) = Fields(<<"uid">>, 8)
        /\ Robot!Int64s(<<"uid", "songid">>) = Fields(<<"uid", "songid">>, 8)
        /\ Robot!Int64s(<<"uid", "latitude", "longitude">>)
             = Fields(<<"uid", "latitude", "longitude">>, 8)
        /\ Robot!Int32s(<<"latitude", "longitude">>) = Fields(<<"latitude", "longitude">>, 4)
        /\ Robot!Int8s(<<"songid">>) = Fields(<<"songid">>, 1)
        /\ Robot!Data("nickname", 48) = Data("nickname", 48)
        /\ Robot!Data("message", 512) = Data("message", 512)
    BY <1>1, Zenon
  <2> QED
    BY <2>3, <2>4, <2>5, <2>6
<1>5. Shape(Robot!Int64s(<<"uid", "latitude", "longitude">>) \o Robot!Data("nickname", 48),
            <<"uid", "latitude", "longitude", "nickname">>, <<8, 8, 8, 48>>)
  <2>1. Both(<<"uid", "latitude", "longitude">>, 3, <<"nickname">>, 1,
             <<"uid", "latitude", "longitude", "nickname">>)
    BY DEF Both
  <2>2. Both(<<8, 8, 8>>, 3, <<48>>, 1, <<8, 8, 8, 48>>)
    BY DEF Both
  <2>3. /\ Shape(Robot!Int64s(<<"uid", "latitude", "longitude">>),
                 <<"uid", "latitude", "longitude">>, <<8, 8, 8>>)
        /\ Shape(Robot!Data("nickname", 48), <<"nickname">>, <<48>>)
    BY <1>4, Zenon
  <2> QED
    BY <2>3, <2>1, <2>2, ShapeBoth, Zenon
<1>6. Shape(Robot!Int64s(<<"uid">>) \o Robot!Int32s(<<"latitude", "longitude">>),
            <<"uid", "latitude", "longitude">>, <<8, 4, 4>>)
  <2>1. Both(<<"uid">>, 1, <<"latitude", "longitude">>, 2, <<"uid", "latitude", "longitude">>)
    BY DEF Both
  <2>2. Both(<<8>>, 1, <<4, 4>>, 2, <<8, 4, 4>>)
    BY DEF Both
  <2> QED
    BY <1>4, <2>1, <2>2, ShapeBoth, ZenonT(30)
<1>7. Shape(Robot!Int64s(<<"uid">>) \o Robot!Int32s(<<"latitude", "longitude">>)
              \o Robot!Data("nickname", 48),
            <<"uid", "latitude", "longitude", "nickname">>, <<8, 4, 4, 48>>)
  <2> DEFINE q == Robot!Int64s(<<"uid">>) \o Robot!Int32s(<<"latitude", "longitude">>)
             r == Robot!Data("nickname", 48)
  <2>1. Both(<<"uid", "latitude", "longitude">>, 3, <<"nickname">>, 1,
             <<"uid", "latitude", "longitude", "nickname">>)
    BY DEF Both
  <2>2. Both(<<8, 4, 4>>, 3, <<48>>, 1, <<8, 4, 4, 48>>)
    BY DEF Both
  <2>3. /\ Shape(q, <<"uid", "latitude", "longitude">>, <<8, 4, 4>>)
        /\ Shape(r, <<"nickname">>, <<48>>)
    BY <1>4, <1>6, Zenon
  <2> HIDE DEF q, r
  <2>4. Shape(q \o r, <<"uid", "latitude", "longitude", "nickname">>, <<8, 4, 4, 48>>)
    BY <2>1, <2>2, <2>3, ShapeBoth
  <2> QED
    BY <2>4, Zenon DEF q, r
<1>8. Shape(Robot!Int64s(<<"uid", "songid">>) \o Robot!Data("message", 512),
            <<"uid", "songid", "message">>, <<8, 8, 512>>)
  <2> DEFINE q == Robot!Int64s(<<"uid", "songid">>)
             r == Robot!Data("message", 512)
  <2>1. Both(<<"uid", "songid">>, 2, <<"message">>, 1, <<"uid", "songid", "message">>)
    BY DEF Both
  <2>2. Both(<<8, 8>>, 2, <<512>>, 1, <<8, 8, 512>>)
    BY DEF Both
  <2>3. /\ Shape(q, <<"uid", "songid">>, <<8, 8>>)
        /\ Shape(r, <<"message">>, <<512>>)
    BY <1>4, Zenon
  <2> HIDE DEF q, r
  <2>4. Shape(q \o r, <<"uid", "songid", "message">>, <<8, 8, 512>>)
    BY <2>1, <2>2, <2>3, ShapeBoth
  <2> QED
    BY <2>4, Zenon DEF q, r
<1>9. Shape(Robot!Int64s(<<"uid">>) \o Robot!Int8s(<<"songid">>),
            <<"uid", "songid">>, <<8, 1>>)
  <2>1. Both(<<"uid">>, 1, <<"songid">>, 1, <<"uid", "songid">>)
    BY DEF Both
  <2>2. Both(<<8>>, 1, <<1>>, 1, <<8, 1>>)
    BY DEF Both
  <2> QED
    BY <1>4, <2>1, <2>2, ShapeBoth, ZenonT(30)
<1>10. Shape(Robot!Int64s(<<"uid">>) \o Robot!Int8s(<<"songid">>) \o Robot!Data("message", 512),
            <<"uid", "songid", "message">>, <<8, 1, 512>>)
  <2> DEFINE q == Robot!Int64s(<<"uid">>) \o Robot!Int8s(<<"songid">>)
             r == Robot!Data("message", 512)
  <2>1. Both(<<"uid", "songid">>, 2, <<"message">>, 1, <<"uid", "songid", "message">>)
    BY DEF Both
  <2>2. Both(<<8, 1>>, 2, <<512>>, 1, <<8, 1, 512>>)
    BY DEF Both
  <2>3. /\ Shape(q, <<"uid", "songid">>, <<8, 1>>)
        /\ Shape(r, <<"message">>, <<512>>)
    BY <1>4, <1>9, Zenon
  <2> HIDE DEF q, r
  <2>4. Shape(q \o r, <<"uid", "songid", "message">>, <<8, 1, 512>>)
    BY <2>1, <2>2, <2>3, ShapeBoth
  <2> QED
    BY <2>4, Zenon DEF q, r
<1> QED
  <2>1. /\ Robot!EntryWritten["NOTICE_USER_ROBOT_LOGIN"]
             = Robot!Int64s(<<"uid", "latitude", "longitude">>) \o Robot!Data("nickname", 48)
        /\ Robot!EntryWritten["NOTICE_ASSISTANT_HANDSEL_SONG"]
             = Robot!Int64s(<<"uid", "songid">>) \o Robot!Data("message", 512)
    BY Zenon DEF Robot!EntryWritten, Robot!NICKNAME_LEN, Robot!MESSAGE_LEN
  <2>2. /\ Robot!EntryRead["NOTICE_USER_ROBOT_LOGIN"]
             = Robot!Int64s(<<"uid">>) \o Robot!Int32s(<<"latitude", "longitude">>)
                 \o Robot!Data("nickname", 48)
        /\ Robot!EntryRead["NOTICE_ASSISTANT_HANDSEL_SONG"]
             = Robot!Int64s(<<"uid">>) \o Robot!Int8s(<<"songid">>) \o Robot!Data("message", 512)
    BY Zenon DEF Robot!EntryRead, Robot!NICKNAME_LEN, Robot!MESSAGE_LEN
  <2>3. Shape(Robot!EntryWritten["NOTICE_USER_ROBOT_LOGIN"],
              <<"uid", "latitude", "longitude", "nickname">>, <<8, 8, 8, 48>>)
    BY <1>5, <2>1, Zenon
  <2>4. Shape(Robot!EntryRead["NOTICE_USER_ROBOT_LOGIN"],
              <<"uid", "latitude", "longitude", "nickname">>, <<8, 4, 4, 48>>)
    BY <1>7, <2>2, Zenon
  <2>5. Shape(Robot!EntryWritten["NOTICE_ASSISTANT_HANDSEL_SONG"],
              <<"uid", "songid", "message">>, <<8, 8, 512>>)
    BY <1>8, <2>1, ZenonT(30)
  <2>6. Shape(Robot!EntryRead["NOTICE_ASSISTANT_HANDSEL_SONG"],
              <<"uid", "songid", "message">>, <<8, 1, 512>>)
    BY <1>10, <2>2, ZenonT(30)
  <2> QED
    BY <2>3, <2>4, <2>5, <2>6

\* Layouts of the same members.
LEMMA ShapesSame ==
    ASSUME NEW f, NEW g, NEW members, NEW w, NEW v, Shape(f, members, w), Shape(g, members, v),
           \A k \in 1 .. Len(members) : w[k] # 0 /\ v[k] # 0,
           \A j, k \in 1 .. Len(members) : members[j] = members[k] => j = k
    PROVE  SameMembers(f, g)
  BY DEF Shape, SameMembers

\* Where the members of the entries begin, in bytes from the first entry, for the
\* robots that are written and read.
LEMMA RobotPlaces ==
    ASSUME NEW f, NEW g,
           Shape(f, <<"uid", "latitude", "longitude", "nickname">>, <<8, 8, 8, 48>>),
           Shape(g, <<"uid", "latitude", "longitude", "nickname">>, <<8, 4, 4, 48>>)
    PROVE  FirstInPlace(f, g) /\ Len(f) = 4 /\ Width(f) = 72 /\ Width(g) = 64
<1> DEFINE m == <<"uid", "latitude", "longitude", "nickname">>
           w == <<8, 8, 8, 48>>
           v == <<8, 4, 4, 48>>
<1>1. /\ Len(m) = 4
      /\ \A k \in 1 .. Len(m) : w[k] # 0 /\ v[k] # 0
      /\ \A j, k \in 1 .. Len(m) : m[j] = m[k] => j = k
  OBVIOUS
<1>2. /\ w[1] = 8 /\ w[2] = 8 /\ w[3] = 8 /\ w[4] = 48
      /\ v[1] = 8 /\ v[2] = 4 /\ v[3] = 4 /\ v[4] = 48
  OBVIOUS
<1>3. Shape(f, m, w) /\ Shape(g, m, v)
  OBVIOUS
<1> HIDE DEF m, w, v
<1>4. SameMembers(f, g)
  BY <1>1, <1>3, ShapesSame
<1>5. Len(f) = 4 /\ Len(g) = 4
  BY <1>1, <1>3 DEF Shape
<1>6. \A k \in 1 .. 4 : f[k].width = w[k] /\ g[k].width = v[k]
  BY <1>3, <1>5 DEF Shape
<1>7. /\ WidthTo(f, 0) = 0 /\ WidthTo(f, 1) = 8 /\ WidthTo(f, 2) = 16 /\ WidthTo(f, 3) = 24
      /\ Width(f) = 72
  <2>1. /\ WidthTo(f, 0) = 0 /\ Width(f) = WidthTo(f, Len(m))
        /\ \A k \in 1 .. Len(m) : WidthTo(f, k) = WidthTo(f, k - 1) + w[k]
    BY <1>3, ShapeWidths
  <2>2. WidthTo(f, 0) = 0 /\ WidthTo(f, 1) = 8
    BY <1>1, <1>2, <2>1
  <2>3. WidthTo(f, 2) = 16
    BY <1>1, <1>2, <2>1, <2>2
  <2>4. WidthTo(f, 3) = 24
    BY <1>1, <1>2, <2>1, <2>3
  <2>5. WidthTo(f, 4) = 72
    BY <1>1, <1>2, <2>1, <2>4
  <2> QED
    BY <1>1, <2>1, <2>2, <2>3, <2>4, <2>5
<1>8. /\ WidthTo(g, 0) = 0 /\ WidthTo(g, 1) = 8 /\ WidthTo(g, 2) = 12 /\ WidthTo(g, 3) = 16
      /\ Width(g) = 64
  <2>1. /\ WidthTo(g, 0) = 0 /\ Width(g) = WidthTo(g, Len(m))
        /\ \A k \in 1 .. Len(m) : WidthTo(g, k) = WidthTo(g, k - 1) + v[k]
    BY <1>3, ShapeWidths
  <2>2. WidthTo(g, 0) = 0 /\ WidthTo(g, 1) = 8
    BY <1>1, <1>2, <2>1
  <2>3. WidthTo(g, 2) = 12
    BY <1>1, <1>2, <2>1, <2>2
  <2>4. WidthTo(g, 3) = 16
    BY <1>1, <1>2, <2>1, <2>3
  <2>5. WidthTo(g, 4) = 64
    BY <1>1, <1>2, <2>1, <2>4
  <2> QED
    BY <1>1, <2>1, <2>2, <2>3, <2>4, <2>5
<1>9. Len(f) > 0
  BY <1>5
<1>10. ASSUME NEW k \in 1 .. Len(f), NEW i \in Nat \ {0}
      PROVE  (f[k].width # g[k].width \/ Place(f, k, i) # Place(g, k, i)) <=> (k # 1 \/ i # 1)
  <2> k \in 1 .. 4
    BY <1>5
  <2>1. /\ Place(f, k, i) = (i - 1) * 72 + WidthTo(f, k - 1)
        /\ Place(g, k, i) = (i - 1) * 64 + WidthTo(g, k - 1)
    BY <1>7, <1>8, Zenon DEF Place
  <2>2. CASE k = 1
    <3>1. f[k].width = g[k].width
      BY <1>2, <1>6, <2>2
    <3>2. Place(f, k, i) = (i - 1) * 72 /\ Place(g, k, i) = (i - 1) * 64
      BY <1>7, <1>8, <2>1, <2>2
    <3> QED
      BY <2>2, <3>1, <3>2
  <2>3. CASE k = 2
    BY <1>2, <1>6, <2>3
  <2>4. CASE k = 3
    BY <1>2, <1>6, <2>4
  <2>5. CASE k = 4
    <3>1. Place(f, k, i) = (i - 1) * 72 + 24 /\ Place(g, k, i) = (i - 1) * 64 + 16
      BY <1>7, <1>8, <2>1, <2>5
    <3> QED
      BY <2>5, <3>1
  <2> QED
    BY <2>2, <2>3, <2>4, <2>5
<1>11. FirstInPlace(f, g)
  BY <1>4, <1>9, <1>10, Zenon DEF FirstInPlace
<1> QED
  BY <1>5, <1>7, <1>8, <1>11

\* The same for the songs.
LEMMA SongPlaces ==
    ASSUME NEW f, NEW g,
           Shape(f, <<"uid", "songid", "message">>, <<8, 8, 512>>),
           Shape(g, <<"uid", "songid", "message">>, <<8, 1, 512>>)
    PROVE  FirstInPlace(f, g) /\ Len(f) = 3 /\ Width(f) = 528 /\ Width(g) = 521
<1> DEFINE m == <<"uid", "songid", "message">>
           w == <<8, 8, 512>>
           v == <<8, 1, 512>>
<1>1. /\ Len(m) = 3
      /\ \A k \in 1 .. Len(m) : w[k] # 0 /\ v[k] # 0
      /\ \A j, k \in 1 .. Len(m) : m[j] = m[k] => j = k
  OBVIOUS
<1>2. w[1] = 8 /\ w[2] = 8 /\ w[3] = 512 /\ v[1] = 8 /\ v[2] = 1 /\ v[3] = 512
  OBVIOUS
<1>3. Shape(f, m, w) /\ Shape(g, m, v)
  OBVIOUS
<1> HIDE DEF m, w, v
<1>4. SameMembers(f, g)
  BY <1>1, <1>3, ShapesSame, ZenonT(30)
<1>5. Len(f) = 3 /\ Len(g) = 3
  BY <1>1, <1>3 DEF Shape
<1>6. \A k \in 1 .. 3 : f[k].width = w[k] /\ g[k].width = v[k]
  BY <1>3, <1>5 DEF Shape
<1>7. WidthTo(f, 0) = 0 /\ WidthTo(f, 1) = 8 /\ WidthTo(f, 2) = 16 /\ Width(f) = 528
  <2>1. /\ WidthTo(f, 0) = 0 /\ Width(f) = WidthTo(f, Len(m))
        /\ \A k \in 1 .. Len(m) : WidthTo(f, k) = WidthTo(f, k - 1) + w[k]
    BY <1>3, ShapeWidths
  <2>2. WidthTo(f, 0) = 0 /\ WidthTo(f, 1) = 8
    BY <1>1, <1>2, <2>1
  <2>3. WidthTo(f, 2) = 16
    BY <1>1, <1>2, <2>1, <2>2
  <2>4. WidthTo(f, 3) = 528
    BY <1>1, <1>2, <2>1, <2>3
  <2> QED
    BY <1>1, <2>1, <2>2, <2>3, <2>4
<1>8. WidthTo(g, 0) = 0 /\ WidthTo(g, 1) = 8 /\ WidthTo(g, 2) = 9 /\ Width(g) = 521
  <2>1. /\ WidthTo(g, 0) = 0 /\ Width(g) = WidthTo(g, Len(m))
        /\ \A k \in 1 .. Len(m) : WidthTo(g, k) = WidthTo(g, k - 1) + v[k]
    BY <1>3, ShapeWidths
  <2>2. WidthTo(g, 0) = 0 /\ WidthTo(g, 1) = 8
    BY <1>1, <1>2, <2>1
  <2>3. WidthTo(g, 2) = 9
    BY <1>1, <1>2, <2>1, <2>2
  <2>4. WidthTo(g, 3) = 521
    BY <1>1, <1>2, <2>1, <2>3
  <2> QED
    BY <1>1, <2>1, <2>2, <2>3, <2>4
<1>9. Len(f) > 0
  BY <1>5
<1>10. ASSUME NEW k \in 1 .. Len(f), NEW i \in Nat \ {0}
      PROVE  (f[k].width # g[k].width \/ Place(f, k, i) # Place(g, k, i)) <=> (k # 1 \/ i # 1)
  <2> k \in 1 .. 3
    BY <1>5
  <2>1. /\ Place(f, k, i) = (i - 1) * 528 + WidthTo(f, k - 1)
        /\ Place(g, k, i) = (i - 1) * 521 + WidthTo(g, k - 1)
    BY <1>7, <1>8, ZenonT(30) DEF Place
  <2>2. CASE k = 1
    <3>1. f[k].width = g[k].width
      BY <1>2, <1>6, <2>2
    <3>2. Place(f, k, i) = (i - 1) * 528 /\ Place(g, k, i) = (i - 1) * 521
      BY <1>7, <1>8, <2>1, <2>2
    <3> QED
      BY <2>2, <3>1, <3>2
  <2>3. CASE k = 2
    BY <1>2, <1>6, <2>3
  <2>4. CASE k = 3
    <3>1. Place(f, k, i) = (i - 1) * 528 + 16 /\ Place(g, k, i) = (i - 1) * 521 + 9
      BY <1>7, <1>8, <2>1, <2>4
    <3> QED
      BY <2>4, <3>1
  <2> QED
    BY <2>2, <2>3, <2>4
<1>11. FirstInPlace(f, g)
  BY <1>4, <1>9, <1>10, Zenon DEF FirstInPlace
<1> QED
  BY <1>5, <1>7, <1>8, <1>11

\* A list whose entries are written as f, with e bytes each, behind w bytes of the
\* packet, and read as g: only the first member of the first entry is where it was.
FirstOnly(p, f, g, w, e) ==
    /\ HasList(p) /\ ~HasText(p)
    /\ Layout[p.server].entry[p.code] = f /\ Layout[p.server].entry_read[p.code] = g
    /\ Layout[p.server].read[p.code] = Layout[p.server].written[p.code]
    /\ Wide(Layout[p.server].written[p.code], w)
    /\ Plain(Layout[p.server].written[p.code], "message")
    /\ Layout[p.server].size[p.code] = w /\ Layout[p.server].list_takes[p.code] = w
    /\ Layout[p.server].entry_size[p.code] = e
    /\ w \in Nat /\ e \in Nat /\ Width(g) \in Nat
    /\ \A n \in Nat : (n * e) \div e = n /\ n * Width(g) <= n * e /\ n * e \in Nat
    /\ FirstInPlace(f, g)

\* All other members of such a list are misread.
LEMMA ListLost ==
    ASSUME NEW s \in {"chat", "robot"}, NEW p \in Packets(s), NEW f, NEW g, NEW w, NEW e,
           FirstOnly(p, f, g, w, e)
    PROVE  MisreadOf(p)
             = AllBut(f, p.entries)
<1> DEFINE n == p.entries
           q == PacketHead \o Layout[p.server].written[p.code]
           E == At(q, 0)
           b == PACKET_HEAD_LENGTH + w
<1>1. n \in Nat /\ p.text = 0
  <2>1. p.entries \in Nat /\ (~HasText(p) => p.text = 0)
    BY PacketType, Zenon
  <2> QED
    BY <2>1, Zenon DEF FirstOnly
<1>2. /\ HasList(p) /\ ~HasText(p)
      /\ Layout[p.server].entry[p.code] = f /\ Layout[p.server].entry_read[p.code] = g
      /\ Layout[p.server].read[p.code] = Layout[p.server].written[p.code]
      /\ Wide(Layout[p.server].written[p.code], w)
      /\ Plain(Layout[p.server].written[p.code], "message")
      /\ w \in Nat /\ f \in Seq(Field) /\ g \in Seq(Field)
  BY Zenon DEF FirstOnly, FirstInPlace, SameMembers
<1>3. DataLength(p) = w + n * e
  <2>1. /\ HasList(p) /\ p.text = 0 /\ Layout[p.server].size[p.code] = w
        /\ Layout[p.server].entry_size[p.code] = e
    BY <1>1, Zenon DEF FirstOnly
  <2>2. DataLength(p) = w + 0 + n * e
    BY <2>1, Zenon DEF DataLength
  <2>3. n * e \in Nat /\ w \in Nat
    BY <1>1, Zenon DEF FirstOnly
  <2> HIDE DEF n
  <2> QED
    BY <2>2, <2>3
<1>4. (DataLength(p) - Layout[p.server].list_takes[p.code])
        \div Layout[p.server].entry_size[p.code] = p.entries
  <2>1. Layout[p.server].list_takes[p.code] = w /\ Layout[p.server].entry_size[p.code] = e
    BY Zenon DEF FirstOnly
  <2> DEFINE N == n * e
  <2>2. N \div e = n /\ N \in Nat /\ w \in Nat
    BY <1>1, Zenon DEF FirstOnly
  <2>3. DataLength(p) = w + N
    BY <1>3, Zenon
  <2> HIDE DEF N, n
  <2>4. DataLength(p) - Layout[p.server].list_takes[p.code] = N
    BY <2>1, <2>2, <2>3
  <2>5. (DataLength(p) - Layout[p.server].list_takes[p.code])
          \div Layout[p.server].entry_size[p.code] = n
    BY <2>1, <2>2, <2>4, Zenon
  <2> QED
    BY <2>5, Zenon DEF n
<1>5. PacketLength(p) \in Nat /\ PACKET_HEAD_LENGTH + w + p.entries * Width(g) <= PacketLength(p)
  <2> DEFINE N == n * e
             V == n * Width(g)
  <2>1. V <= N /\ N \in Nat /\ w \in Nat
    BY <1>1, Zenon DEF FirstOnly
  <2>2. V \in Nat
    <3>1. \A x, y \in Nat : x * y \in Nat
      OBVIOUS
    <3>2. Width(g) \in Nat
      BY Zenon DEF FirstOnly
    <3> QED
      BY <1>1, <3>1, <3>2, Zenon
  <2>3. PacketLength(p) = PACKET_HEAD_LENGTH + (w + N)
    BY <1>3, Zenon DEF PacketLength
  <2> HIDE DEF N, V
  <2>4. PacketLength(p) \in Nat /\ PACKET_HEAD_LENGTH + w + V <= PacketLength(p)
    BY <2>1, <2>2, <2>3 DEF PACKET_HEAD_LENGTH
  <2> QED
    BY <2>4, Zenon DEF V
<1>6. PackStream(p) = E \cup ListAt(f, n, b) /\ UnpackStream(p) = E \cup ListAt(g, n, b)
  BY <1>1, <1>2, <1>4, <1>5, ListPacket, ZenonT(30)
<1>7. OfPacket(E)
  <2>1. Plain(PacketHead, "message")
    BY PlainHead
  <2>2. Plain(q, "message")
    BY <1>2, <2>1, PlainBoth, Zenon
  <2> QED
    BY <2>2, NotInEntries, Zenon
<1> HIDE DEF n, E, q
<1>8. FirstInPlace(f, g) /\ b \in Nat
  <2>1. FirstInPlace(f, g) /\ w \in Nat
    BY Zenon DEF FirstOnly
  <2> QED
    BY <2>1 DEF PACKET_HEAD_LENGTH
<1> HIDE DEF b
<1>9. Difference(E \cup ListAt(f, n, b), E \cup ListAt(g, n, b)) = AllBut(f, n)
  <2>1. BehindOthers(f, g, n, b, E)
    BY <1>1, <1>7, <1>8, Zenon DEF BehindOthers
  <2> QED
    BY <2>1, AllButFirst
<1> QED
  BY <1>6, <1>9, Zenon DEF MisreadOf, n

\* The robots of a user's list.
LEMMA RobotsMisread ==
    ASSUME NEW s \in {"chat", "robot"}, NEW p \in Packets(s), p.code = "NOTICE_USER_ROBOT_LOGIN"
    PROVE  MisreadOf(p)
             = ({"uid", "latitude", "longitude", "nickname"} \X (1 .. p.entries)) \ {<<"uid", 1>>}
<1> DEFINE f == Robot!EntryWritten["NOTICE_USER_ROBOT_LOGIN"]
           g == Robot!EntryRead["NOTICE_USER_ROBOT_LOGIN"]
<1>1. p.server = "robot"
  <2>1. p.server = s /\ p.code \in DOMAIN Layout[s].size
    BY PacketType, Zenon
  <2>2. "NOTICE_USER_ROBOT_LOGIN" \notin DOMAIN Chat!Size
    BY DEF Chat!Size
  <2> QED
    BY <2>1, <2>2, Layouts
<1>2. /\ Shape(f, <<"uid", "latitude", "longitude", "nickname">>, <<8, 8, 8, 48>>)
      /\ Shape(g, <<"uid", "latitude", "longitude", "nickname">>, <<8, 4, 4, 48>>)
  BY EntryShapes, Zenon
<1>3. /\ "NOTICE_USER_ROBOT_LOGIN" \in DOMAIN Robot!EntryWritten
      /\ "NOTICE_USER_ROBOT_LOGIN" \notin DOMAIN Robot!Text
      /\ "NOTICE_USER_ROBOT_LOGIN" \in DOMAIN Robot!Size
      /\ "NOTICE_USER_ROBOT_LOGIN" \in DOMAIN Robot!LoginWritten
      /\ Robot!LoginWritten["NOTICE_USER_ROBOT_LOGIN"] = Robot!Int64s(<<"uid">>)
  BY DEF Robot!EntryWritten, Robot!Text, Robot!Size, Robot!LoginWritten
<1> HIDE DEF f, g
<1>4. FirstInPlace(f, g) /\ Len(f) = 4 /\ Width(f) = 72 /\ Width(g) = 64
  BY <1>2, RobotPlaces
<1>5. /\ Robot!Written["NOTICE_USER_ROBOT_LOGIN"] = Fields(<<"uid">>, 8)
      /\ Robot!ReadFields["NOTICE_USER_ROBOT_LOGIN"] = Robot!Written["NOTICE_USER_ROBOT_LOGIN"]
  <2>1. Robot!Written["NOTICE_USER_ROBOT_LOGIN"] = Robot!Int64s(<<"uid">>)
    BY <1>3, RobotGroups, Zenon
  <2>2. \A m : Robot!Int64s(m) = Fields(m, 8)
    BY DEF Robot!Int64s, Robot!Fields, Fields
  <2>3. "NOTICE_USER_ROBOT_LOGIN" # "NOTICE_USER_ROBOT_HANDSEL_SONG"
    OBVIOUS
  <2>4. Robot!ReadFields["NOTICE_USER_ROBOT_LOGIN"] = Robot!Written["NOTICE_USER_ROBOT_LOGIN"]
    BY <1>3, <2>3, RobotRead, Zenon
  <2> QED
    BY <2>1, <2>2, <2>4, Zenon
<1>6. /\ Wide(Fields(<<"uid">>, 8), 8) /\ Plain(Fields(<<"uid">>, 8), "message")
  <2>1. "uid" \in MemberNames /\ "uid" # "message" /\ 8 \in Nat /\ 1 * 8 = 8
    BY Known
  <2>2. Wide(Fields(<<"uid">>, 8), 1 * 8)
    BY <2>1, Ints, Zenon
  <2>3. Plain(Fields(<<"uid">>, 8), "message")
    BY <2>1, PlainInts, Zenon
  <2> QED
    BY <2>1, <2>2, <2>3, Zenon
<1> DEFINE w == 8
           e == 72
           code == "NOTICE_USER_ROBOT_LOGIN"
<1>7. Robot!Size[code] = w /\ Robot!ListTakes[code] = w /\ Robot!EntrySize[code] = e
  BY DEF Robot!Size, Robot!ListTakes, Robot!EntrySize, Robot!ROBOTINFO_SIZE,
         Robot!HANDLESONG_SIZE, Robot!NICKNAME_LEN, Robot!MESSAGE_LEN
<1>8. FirstOnly(p, f, g, w, e)
  <2>1. /\ Layout["robot"].entry = Robot!EntryWritten
        /\ Layout["robot"].entry_read = Robot!EntryRead
        /\ Layout["robot"].text = Robot!Text /\ Layout["robot"].size = Robot!Size
        /\ Layout["robot"].read = Robot!ReadFields /\ Layout["robot"].written = Robot!Written
        /\ Layout["robot"].list_takes = Robot!ListTakes
        /\ Layout["robot"].entry_size = Robot!EntrySize
    BY Layouts, Zenon
  <2>2. /\ HasList(p) /\ ~HasText(p)
        /\ Layout[p.server].entry[p.code] = f /\ Layout[p.server].entry_read[p.code] = g
    BY <1>1, <1>3, <2>1, Zenon DEF HasList, HasText, f, g
  <2>3. /\ Layout[p.server].read[p.code] = Layout[p.server].written[p.code]
        /\ Wide(Layout[p.server].written[p.code], 8)
        /\ Plain(Layout[p.server].written[p.code], "message")
    BY <1>1, <1>5, <1>6, <2>1, Zenon
  <2>4. /\ Layout[p.server].size[p.code] = w /\ Layout[p.server].list_takes[p.code] = w
        /\ Layout[p.server].entry_size[p.code] = e
    <3> HIDE DEF w, e
    <3> QED
      BY <1>1, <1>7, <2>1, Zenon
  <2>5. /\ w \in Nat /\ e \in Nat /\ Width(g) \in Nat
        /\ \A n \in Nat : (n * e) \div e = n /\ n * Width(g) <= n * e /\ n * e \in Nat
    BY <1>4
  <2>6. Wide(Layout[p.server].written[p.code], w)
    BY <2>3, Zenon
  <2> HIDE DEF w, e
  <2> QED
    BY <1>4, <2>2, <2>3, <2>4, <2>5, <2>6, Zenon DEF FirstOnly
<1> HIDE DEF w, e
<1>9. MisreadOf(p) = AllBut(f, p.entries)
  BY <1>8, ListLost
<1>10. /\ MembersOf(f) = {"uid", "latitude", "longitude", "nickname"}
      /\ f[1].member = "uid"
  BY <1>2, <1>4 DEF Shape, MembersOf
<1> QED
  BY <1>9, <1>10, Zenon DEF AllBut

\* The songs of an assistant's list.
LEMMA SongsMisread ==
    ASSUME NEW s \in {"chat", "robot"}, NEW p \in Packets(s),
           p.code = "NOTICE_ASSISTANT_HANDSEL_SONG"
    PROVE  MisreadOf(p)
             = ({"uid", "songid", "message"} \X (1 .. p.entries)) \ {<<"uid", 1>>}
<1> DEFINE f == Robot!EntryWritten["NOTICE_ASSISTANT_HANDSEL_SONG"]
           g == Robot!EntryRead["NOTICE_ASSISTANT_HANDSEL_SONG"]
<1>1. p.server = "robot"
  <2>1. p.server = s /\ p.code \in DOMAIN Layout[s].size
    BY PacketType, Zenon
  <2>2. "NOTICE_ASSISTANT_HANDSEL_SONG" \notin DOMAIN Chat!Size
    BY DEF Chat!Size
  <2> QED
    BY <2>1, <2>2, Layouts
<1>2. /\ Shape(f, <<"uid", "songid", "message">>, <<8, 8, 512>>)
      /\ Shape(g, <<"uid", "songid", "message">>, <<8, 1, 512>>)
  BY EntryShapes, Zenon
<1>3. /\ "NOTICE_ASSISTANT_HANDSEL_SONG" \in DOMAIN Robot!EntryWritten
      /\ "NOTICE_ASSISTANT_HANDSEL_SONG" \notin DOMAIN Robot!Text
      /\ "NOTICE_ASSISTANT_HANDSEL_SONG" \in DOMAIN Robot!Size
      /\ "NOTICE_ASSISTANT_HANDSEL_SONG" \in DOMAIN Robot!SongWritten
      /\ Robot!SongWritten["NOTICE_ASSISTANT_HANDSEL_SONG"]
           = Robot!Int64s(<<"platform_id", "assistant_id">>)
  BY DEF Robot!EntryWritten, Robot!Text, Robot!Size, Robot!SongWritten
<1> HIDE DEF f, g
<1>4. FirstInPlace(f, g) /\ Len(f) = 3 /\ Width(f) = 528 /\ Width(g) = 521
  BY <1>2, SongPlaces
<1>5. /\ Robot!Written["NOTICE_ASSISTANT_HANDSEL_SONG"]
           = Fields(<<"platform_id", "assistant_id">>, 8)
      /\ Robot!ReadFields["NOTICE_ASSISTANT_HANDSEL_SONG"]
           = Robot!Written["NOTICE_ASSISTANT_HANDSEL_SONG"]
  <2>1. Robot!Written["NOTICE_ASSISTANT_HANDSEL_SONG"]
          = Robot!Int64s(<<"platform_id", "assistant_id">>)
    BY <1>3, RobotGroups, Zenon
  <2>2. \A m : Robot!Int64s(m) = Fields(m, 8)
    BY DEF Robot!Int64s, Robot!Fields, Fields
  <2>3. "NOTICE_ASSISTANT_HANDSEL_SONG" # "NOTICE_USER_ROBOT_HANDSEL_SONG"
    OBVIOUS
  <2>4. Robot!ReadFields["NOTICE_ASSISTANT_HANDSEL_SONG"]
          = Robot!Written["NOTICE_ASSISTANT_HANDSEL_SONG"]
    BY <1>3, <2>3, RobotRead, Zenon
  <2> QED
    BY <2>1, <2>2, <2>4, Zenon
<1>6. /\ Wide(Fields(<<"platform_id", "assistant_id">>, 8), 16)
      /\ Plain(Fields(<<"platform_id", "assistant_id">>, 8), "message")
  <2>1. /\ "platform_id" \in MemberNames /\ "assistant_id" \in MemberNames
        /\ "platform_id" # "message" /\ "assistant_id" # "message"
        /\ 8 \in Nat /\ 2 * 8 = 16
    BY Known
  <2>2. Wide(Fields(<<"platform_id", "assistant_id">>, 8), 2 * 8)
    BY <2>1, Ints, Zenon
  <2>3. Plain(Fields(<<"platform_id", "assistant_id">>, 8), "message")
    BY <2>1, PlainInts, Zenon
  <2> QED
    BY <2>1, <2>2, <2>3, Zenon
<1> DEFINE w == 16
           e == 528
           code == "NOTICE_ASSISTANT_HANDSEL_SONG"
<1>7. Robot!Size[code] = w /\ Robot!ListTakes[code] = w /\ Robot!EntrySize[code] = e
  BY DEF Robot!Size, Robot!ListTakes, Robot!EntrySize, Robot!ROBOTINFO_SIZE,
         Robot!HANDLESONG_SIZE, Robot!NICKNAME_LEN, Robot!MESSAGE_LEN
<1>8. FirstOnly(p, f, g, w, e)
  <2>1. /\ Layout["robot"].entry = Robot!EntryWritten
        /\ Layout["robot"].entry_read = Robot!EntryRead
        /\ Layout["robot"].text = Robot!Text /\ Layout["robot"].size = Robot!Size
        /\ Layout["robot"].read = Robot!ReadFields /\ Layout["robot"].written = Robot!Written
        /\ Layout["robot"].list_takes = Robot!ListTakes
        /\ Layout["robot"].entry_size = Robot!EntrySize
    BY Layouts, Zenon
  <2>2. /\ HasList(p) /\ ~HasText(p)
        /\ Layout[p.server].entry[p.code] = f /\ Layout[p.server].entry_read[p.code] = g
    BY <1>1, <1>3, <2>1, Zenon DEF HasList, HasText, f, g
  <2>3. /\ Layout[p.server].read[p.code] = Layout[p.server].written[p.code]
        /\ Wide(Layout[p.server].written[p.code], 16)
        /\ Plain(Layout[p.server].written[p.code], "message")
    BY <1>1, <1>5, <1>6, <2>1, Zenon
  <2>4. /\ Layout[p.server].size[p.code] = w /\ Layout[p.server].list_takes[p.code] = w
        /\ Layout[p.server].entry_size[p.code] = e
    <3> HIDE DEF w, e
    <3> QED
      BY <1>1, <1>7, <2>1, Zenon
  <2>5. /\ w \in Nat /\ e \in Nat /\ Width(g) \in Nat
        /\ \A n \in Nat : (n * e) \div e = n /\ n * Width(g) <= n * e /\ n * e \in Nat
    BY <1>4
  <2>6. Wide(Layout[p.server].written[p.code], w)
    BY <2>3, Zenon
  <2> HIDE DEF w, e
  <2> QED
    BY <1>4, <2>2, <2>3, <2>4, <2>5, <2>6, Zenon DEF FirstOnly
<1> HIDE DEF w, e
<1>9. MisreadOf(p) = AllBut(f, p.entries)
  BY <1>8, ListLost
<1>10. /\ MembersOf(f) = {"uid", "songid", "message"}
      /\ f[1].member = "uid"
  BY <1>2, <1>4 DEF Shape, MembersOf
<1> QED
  BY <1>9, <1>10, Zenon DEF AllBut

-----------------------------------------------------------------------------
(* What is misread of a packet *)

\* What is misread of a packet does not depend on its server's other packets.
LEMMA MisreadIs ==
    ASSUME NEW s \in {"chat", "robot"}, NEW p \in Packets(s)
    PROVE  MisreadOf(p) = MisreadMembers(p)
<1>1. CASE p.code \notin Exceptions
  <2>1. UnpackStream(p) = PackStream(p)
    BY <1>1, PacketRead, Zenon
  <2>2. MisreadOf(p) = {}
    <3>1. \A a : Difference(a, a) = {}
      BY DEF Difference
    <3> QED
      BY <2>1, <3>1, Zenon DEF MisreadOf
  <2>3. MisreadMembers(p) = {}
    BY <1>1 DEF MisreadMembers, Exceptions
  <2> QED
    BY <2>2, <2>3
<1>2. CASE p.code \in {"USER_LOGIN_FAILED", "TEXT_CHAT_PRIVATE_RECV"}
  <2>1. MisreadOf(p) = {<<Chat!Text[p.code], 0>>}
    BY <1>2, LongTexts, Zenon
  <2>2. /\ Chat!Text["USER_LOGIN_FAILED"] = "error_msg"
        /\ Chat!Text["TEXT_CHAT_PRIVATE_RECV"] = "content"
    BY DEF Chat!Text
  <2>3. MisreadMembers(p) = {<<Chat!Text[p.code], 0>>}
    BY <1>2, <2>2 DEF MisreadMembers
  <2> QED
    BY <2>1, <2>3, Zenon
<1>3. CASE p.code = "NOTICE_USER_ROBOT_HANDSEL_SONG"
  <2>1. MisreadOf(p) = {<<"robot_id", 0>>, <<"song_id", 0>>}
    BY <1>3, GiftMisread, Zenon
  <2>2. MisreadMembers(p) = {<<"robot_id", 0>>, <<"song_id", 0>>}
    BY <1>3 DEF MisreadMembers
  <2> QED
    BY <2>1, <2>2, Zenon
<1>4. CASE p.code = "NOTICE_USER_ROBOT_LOGIN"
  <2> DEFINE bad == ({"uid", "latitude", "longitude", "nickname"} \X (1 .. p.entries))
                      \ {<<"uid", 1>>}
  <2>1. MisreadOf(p) = bad
    BY <1>4, RobotsMisread, Zenon
  <2>2. MisreadMembers(p) = bad
    BY <1>4 DEF MisreadMembers
  <2> QED
    BY <2>1, <2>2, Zenon
<1>5. CASE p.code = "NOTICE_ASSISTANT_HANDSEL_SONG"
  <2> DEFINE bad == ({"uid", "songid", "message"} \X (1 .. p.entries)) \ {<<"uid", 1>>}
  <2>1. MisreadOf(p) = bad
    BY <1>5, SongsMisread, Zenon
  <2>2. MisreadMembers(p) = bad
    BY <1>5 DEF MisreadMembers
  <2> QED
    BY <2>1, <2>2, Zenon
<1> QED
  BY <1>1, <1>2, <1>3, <1>4, <1>5 DEF Exceptions

\* data_length counts what is written.
LEMMA FilledIs ==
    ASSUME NEW s \in {"chat", "robot"}, NEW p \in Packets(s)
    PROVE  PacketLength(p) - Width(WrittenFields(p))
             = IF p.code = "NOTICE_USER_LOGIN" THEN 8 ELSE 0
<1>1. PacketLength(p) \in Nat
  BY PacketRead, Zenon
<1>2. Width(WrittenFields(p)) = PacketLength(p) - Unfilled(p.code)
  BY WrittenWide, Zenon DEF Wide
<1> QED
  BY <1>1, <1>2 DEF Unfilled

\* Misread as MisreadOf has it.
LEMMA MisreadDiffers ==
    unpacked.members = UnpackStream(sent[unpacked.id])
      => Misread = MisreadOf(sent[unpacked.id])
  BY Zenon DEF Misread, MisreadOf, Difference

-----------------------------------------------------------------------------
(* Invariants *)

Length(i) == PacketLength(sent[i])

Send  == [id : Nat, from : Nat]
Piece == [id : Nat, from : Nat, to : Nat]

WireType ==
    /\ TypeOK
    /\ sent \in Seq(Packets(server))
    /\ sending \in [Workers -> Send]
    /\ \A w \in Workers : sending[w].id = 0 => sending[w].from = 0
    /\ stream \in Seq(Piece)

\* Some of the worker's packet was taken, and not all.
Partial(w) == sending[w].from > 0

LastPiece == stream[Len(stream)]

\* All pieces are whole packets but the last, which is what was taken of the
\* only packet that is being sent, if some was.
Orderly ==
    /\ \A v, w \in Workers : Partial(w) /\ v # w => sending[v] = NoPacket
    /\ \A i \in 1 .. Len(stream) :
         /\ stream[i].from = 0
         /\ i # Len(stream) => stream[i].to = Length(stream[i].id)
    /\ \A w \in Workers : Partial(w) =>
         /\ stream # <<>>
         /\ LastPiece.id = sending[w].id /\ LastPiece.to = sending[w].from
    /\ (stream # <<>> /\ \A w \in Workers : ~Partial(w))
         => LastPiece.to = Length(LastPiece.id)

WInv == WireType /\ (~refused /\ ~overlapped => ~lost /\ Orderly)

-----------------------------------------------------------------------------

\* The packets sent before keep their numbers.
LEMMA SentStays ==
    ASSUME WireType, [Next]_vars
    PROVE  /\ Len(sent) \in Nat /\ Len(sent') \in Nat /\ Len(sent) <= Len(sent')
           /\ Len(sent') <= MaxPackets
           /\ sent' \in Seq(Packets(server)) /\ server' = server
           /\ \A i \in 1 .. Len(sent) : sent'[i] = sent[i] /\ Length(i)' = Length(i)
<1> MaxPackets \in Nat
  BY WireAssumption DEF WireAssumption
<1>1. sent \in Seq(Packets(server)) /\ Len(sent) \in Nat /\ Len(sent) <= MaxPackets
  BY DEF WireType, TypeOK
<1>2. CASE sent' = sent /\ server' = server
  BY <1>1, <1>2 DEF Length
<1>3. ASSUME NEW w \in Workers, NEW p \in Packets(server), SendMessage(w, p)
      PROVE  /\ Len(sent') = Len(sent) + 1 /\ Len(sent') <= MaxPackets
             /\ sent' \in Seq(Packets(server)) /\ server' = server
             /\ \A i \in 1 .. Len(sent) : sent'[i] = sent[i]
  <2>1. sent' = Append(sent, p) /\ Len(sent) < MaxPackets /\ server' = server
    BY <1>3 DEF SendMessage
  <2> QED
    BY <1>1, <2>1
<1>4. \/ sent' = sent /\ server' = server
      \/ \E w \in Workers : \E p \in Packets(server) : SendMessage(w, p)
  BY DEF Next, vars, SendAll, SendShort, SendRefused, Receive, Lose
<1> QED
  BY <1>1, <1>2, <1>3, <1>4 DEF Length

\* Lengths of the packets that were sent.
LEMMA Lengths ==
    ASSUME WireType, NEW i \in 1 .. Len(sent)
    PROVE  Length(i) \in Nat /\ Length(i) > 0
<1>1. sent[i] \in Packets(server) /\ server \in {"chat", "robot"}
  BY DEF WireType, TypeOK
<1> QED
  BY <1>1, PacketNotEmpty DEF Length

\* What is known of a packet that is being sent.
LEMMA UnderWay ==
    ASSUME WireType, NEW w \in Workers, sending[w] # NoPacket
    PROVE  /\ sending[w].id \in 1 .. Len(sent) /\ sending[w].from \in Nat
           /\ sending[w].from < Length(sending[w].id)
           /\ Left(w) = Length(sending[w].id) - sending[w].from
           /\ Left(w) \in Nat /\ Left(w) > 0
<1>1. sending[w] \in Send /\ sending[w].id \in 0 .. Len(sent)
  BY DEF WireType, TypeOK
<1>2. sending[w].id # 0
  BY <1>1 DEF WireType, NoPacket, Send
<1>3. sending[w].id \in 1 .. Len(sent)
  BY <1>1, <1>2
<1>4. sending[w].from \in 0 .. Length(sending[w].id) - 1
  BY <1>2 DEF WireType, TypeOK, Length
<1>5. Length(sending[w].id) \in Nat
  BY <1>3, Lengths
<1> QED
  BY <1>3, <1>4, <1>5 DEF Left, Length

\* Bytes that are taken make a piece, or lengthen the last one.
LEMMA AcceptPiece ==
    ASSUME WireType, NEW w \in Workers, sending[w] # NoPacket, NEW n \in Nat, Accept(w, n)
    PROVE  /\ stream' \in Seq(Piece)
           /\ \/ /\ stream # <<>> /\ Len(stream) \in Nat /\ Len(stream) > 0
                 /\ LastPiece.id = sending[w].id /\ LastPiece.to = sending[w].from
                 /\ Len(stream') = Len(stream)
                 /\ \A i \in 1 .. Len(stream) : i # Len(stream) => stream'[i] = stream[i]
                 /\ stream'[Len(stream)] =
                      [id |-> LastPiece.id, from |-> LastPiece.from, to |-> sending[w].from + n]
              \/ /\ ~(/\ stream # <<>>
                      /\ LastPiece.id = sending[w].id /\ LastPiece.to = sending[w].from)
                 /\ Len(stream) \in Nat /\ Len(stream') = Len(stream) + 1
                 /\ \A i \in 1 .. Len(stream) : stream'[i] = stream[i]
                 /\ stream'[Len(stream) + 1] =
                      [id |-> sending[w].id, from |-> sending[w].from, to |-> sending[w].from + n]
<1> DEFINE piece == [id |-> sending[w].id, from |-> sending[w].from, to |-> sending[w].from + n]
<1>1. stream \in Seq(Piece) /\ Len(stream) \in Nat
  BY DEF WireType
<1>2. sending[w] \in Send
  BY DEF WireType
<1>3. piece \in Piece
  BY <1>2 DEF Send, Piece
<1>4. CASE stream # <<>> /\ LastPiece.id = piece.id /\ LastPiece.to = piece.from
  <2>1. Len(stream) > 0 /\ LastPiece \in Piece
    BY <1>1, <1>4 DEF LastPiece
  <2>2. stream' = [stream EXCEPT ![Len(stream)].to = piece.to]
    BY <1>4 DEF Accept, Last, LastPiece
  <2>3. stream' = [stream EXCEPT ![Len(stream)] = [LastPiece EXCEPT !.to = piece.to]]
    BY <2>2 DEF LastPiece
  <2>4. [LastPiece EXCEPT !.to = piece.to] =
            [id |-> LastPiece.id, from |-> LastPiece.from, to |-> piece.to]
    BY <2>1 DEF Piece
  <2>5. [id |-> LastPiece.id, from |-> LastPiece.from, to |-> piece.to] \in Piece
    BY <1>3, <2>1 DEF Piece
  <2>6. stream' = [stream EXCEPT ![Len(stream)] =
            [id |-> LastPiece.id, from |-> LastPiece.from, to |-> piece.to]]
    BY <2>3, <2>4
  <2>7. stream' \in Seq(Piece) /\ Len(stream') = Len(stream)
        /\ \A i \in 1 .. Len(stream) : i # Len(stream) => stream'[i] = stream[i]
    BY <1>1, <2>1, <2>5, <2>6
  <2>8. stream'[Len(stream)] = [id |-> LastPiece.id, from |-> LastPiece.from, to |-> piece.to]
    BY <1>1, <2>1, <2>6
  <2> QED
    BY <1>1, <1>4, <2>1, <2>7, <2>8
<1>5. CASE ~(stream # <<>> /\ LastPiece.id = sending[w].id /\ LastPiece.to = sending[w].from)
  <2>1. stream' = Append(stream, piece)
    BY <1>5 DEF Accept, Last, LastPiece
  <2>2. stream' \in Seq(Piece) /\ Len(stream') = Len(stream) + 1
        /\ \A i \in 1 .. Len(stream) : stream'[i] = stream[i]
    BY <1>1, <1>3, <2>1
  <2>3. stream'[Len(stream) + 1] = piece
    <3> HIDE DEF piece
    <3> QED
      BY <1>1, <1>3, <2>1
  <2> QED
    BY <1>1, <1>5, <2>2, <2>3
<1> QED
  BY <1>4, <1>5

\* What is taken goes into the stream as a piece of the packet.
LEMMA StreamAccepts ==
    ASSUME WireType, NEW w \in Workers, sending[w] # NoPacket,
           NEW n \in Nat, n > 0, n <= Left(w), Accept(w, n), sent' = sent
    PROVE  /\ stream' \in Seq(Piece)
           /\ \A i \in DOMAIN stream' :
                /\ stream'[i].id \in DOMAIN sent'
                /\ 0 <= stream'[i].from /\ stream'[i].from < stream'[i].to
                /\ stream'[i].to <= PacketLength(sent'[stream'[i].id])
<1> DEFINE Good(piece) == /\ piece.id \in DOMAIN sent
                          /\ 0 <= piece.from /\ piece.from < piece.to
                          /\ piece.to <= PacketLength(sent[piece.id])
<1>1. \A i \in 1 .. Len(stream) : Good(stream[i])
  BY DEF WireType, TypeOK
<1>2. /\ sending[w].id \in 1 .. Len(sent) /\ sending[w].from \in Nat
      /\ Left(w) = Length(sending[w].id) - sending[w].from /\ Left(w) \in Nat
  BY UnderWay
<1>3. DOMAIN sent = 1 .. Len(sent) /\ Length(sending[w].id) \in Nat
  BY <1>2, Lengths DEF WireType
<1>4. sending[w].from + n <= Length(sending[w].id) /\ sending[w].from < sending[w].from + n
  BY <1>2, <1>3
<1>5. stream \in Seq(Piece) /\ Len(stream) \in Nat
  BY DEF WireType
<1>6. Good([id |-> sending[w].id, from |-> sending[w].from, to |-> sending[w].from + n])
  BY <1>2, <1>3, <1>4 DEF Length
<1>7. stream' \in Seq(Piece) /\ DOMAIN stream' = 1 .. Len(stream')
  <2>1. stream' \in Seq(Piece)
    BY AcceptPiece
  <2> QED
    BY <2>1
<1>8. \A i \in 1 .. Len(stream') : Good(stream'[i])
  <2>1. CASE /\ stream # <<>> /\ Len(stream) \in Nat /\ Len(stream) > 0
             /\ LastPiece.id = sending[w].id /\ LastPiece.to = sending[w].from
             /\ Len(stream') = Len(stream)
             /\ \A i \in 1 .. Len(stream) : i # Len(stream) => stream'[i] = stream[i]
             /\ stream'[Len(stream)] =
                  [id |-> LastPiece.id, from |-> LastPiece.from, to |-> sending[w].from + n]
    <3>1. Good(LastPiece) /\ LastPiece \in Piece
      BY <1>1, <1>5, <2>1 DEF LastPiece
    <3>2. Good([id |-> LastPiece.id, from |-> LastPiece.from, to |-> sending[w].from + n])
      BY <1>2, <1>3, <1>4, <2>1, <3>1 DEF Length, Piece
    <3> HIDE DEF Good
    <3> QED
      BY <1>1, <2>1, <3>2
  <2>2. CASE /\ Len(stream') = Len(stream) + 1
             /\ \A i \in 1 .. Len(stream) : stream'[i] = stream[i]
             /\ stream'[Len(stream) + 1] =
                  [id |-> sending[w].id, from |-> sending[w].from, to |-> sending[w].from + n]
    <3> HIDE DEF Good
    <3> QED
      BY <1>1, <1>5, <1>6, <2>2
  <2> QED
    BY <2>1, <2>2, AcceptPiece
<1> QED
  BY <1>7, <1>8

\* The worker that sends goes on, begins or ends; the others stay where they are.
LEMMA SendingStep ==
    ASSUME WireType, [Next]_vars
    PROVE  /\ sending' \in [Workers -> Send]
           /\ \A w \in Workers :
                /\ sending'[w].id \in 0 .. Len(sent')
                /\ sending'[w].id = 0 => sending'[w].from = 0
                /\ sending'[w].id # 0 =>
                     sending'[w].from \in 0 .. PacketLength(sent'[sending'[w].id]) - 1
<1> DEFINE Good(send) ==
             /\ send \in Send
             /\ send.id \in 0 .. Len(sent')
             /\ send.id = 0 => send.from = 0
             /\ send.id # 0 => send.from \in 0 .. PacketLength(sent'[send.id]) - 1
<1>1. sending \in [Workers -> Send]
  BY DEF WireType
<1>2. \A w \in Workers : Good(sending[w])
  <2> TAKE w \in Workers
  <2>1. /\ sending[w] \in Send /\ sending[w].id \in 0 .. Len(sent)
        /\ sending[w].id = 0 => sending[w].from = 0
        /\ sending[w].id # 0 => sending[w].from \in 0 .. Length(sending[w].id) - 1
    BY DEF WireType, TypeOK, Length
  <2>2. sending[w].id # 0 => Length(sending[w].id) = PacketLength(sent'[sending[w].id])
    BY <2>1, SentStays DEF Length
  <2> QED
    BY <2>1, <2>2, SentStays
<1>3. Good(NoPacket)
  BY SentStays DEF NoPacket, Send
<1>4. ASSUME NEW w \in Workers, NEW send, Good(send), sending' = [sending EXCEPT ![w] = send]
      PROVE  sending' \in [Workers -> Send] /\ \A v \in Workers : Good(sending'[v])
  <2>1. send \in Send
    BY <1>4
  <2> HIDE DEF Good
  <2> QED
    BY <1>1, <1>2, <1>4, <2>1
<1>5. ASSUME sending' = sending
      PROVE  sending' \in [Workers -> Send] /\ \A v \in Workers : Good(sending'[v])
  BY <1>1, <1>2, <1>5
<1>6. ASSUME NEW w \in Workers, NEW p \in Packets(server), SendMessage(w, p)
      PROVE  Good([id |-> Len(sent'), from |-> 0])
  <2>1. sent' = Append(sent, p) /\ sent \in Seq(Packets(server)) /\ server \in {"chat", "robot"}
    BY <1>6 DEF SendMessage, WireType, TypeOK
  <2>2. Len(sent') = Len(sent) + 1 /\ sent'[Len(sent')] = p /\ Len(sent) \in Nat
    BY <2>1
  <2>3. PacketLength(p) \in Nat /\ PacketLength(p) > 0
    BY <2>1, PacketNotEmpty
  <2> QED
    BY <2>2, <2>3 DEF Send
<1>7. ASSUME NEW w \in Workers, SendShort(w)
      PROVE  /\ Good([sending[w] EXCEPT !.from = @ + Left(w) \div 2])
             /\ sending' = [sending EXCEPT ![w] = [sending[w] EXCEPT !.from = @ + Left(w) \div 2]]
  <2>1. sending[w] # NoPacket /\ Left(w) > 1 /\ sent' = sent
    BY <1>7 DEF SendShort
  <2>2. /\ sending[w].id \in 1 .. Len(sent) /\ sending[w].from \in Nat
        /\ Left(w) = Length(sending[w].id) - sending[w].from /\ Left(w) \in Nat
        /\ Length(sending[w].id) \in Nat
    BY <2>1, UnderWay, Lengths
  <2>3. Left(w) \div 2 \in Nat /\ Left(w) \div 2 < Left(w)
    BY <2>1, <2>2
  <2> DEFINE from == sending[w].from + Left(w) \div 2
  <2>4. from \in Nat /\ from \in 0 .. PacketLength(sent'[sending[w].id]) - 1
    BY <2>1, <2>2, <2>3, SMTT(30) DEF Length
  <2>5. [sending[w] EXCEPT !.from = @ + Left(w) \div 2] = [id |-> sending[w].id, from |-> from]
    BY <1>1 DEF Send
  <2>6. sending' = [sending EXCEPT ![w] = [sending[w] EXCEPT !.from = @ + Left(w) \div 2]]
    BY <1>7 DEF SendShort
  <2>7. Good([id |-> sending[w].id, from |-> from])
    <3>1. sending[w].id \in Nat /\ sending[w].id \in 0 .. Len(sent') /\ sending[w].id # 0
      BY <2>1, <2>2, <1>2
    <3> HIDE DEF from
    <3> QED
      BY <2>4, <3>1 DEF Send
  <2> QED
    BY <2>5, <2>6, <2>7
<1>8. ASSUME NEW w \in Workers, NEW p \in Packets(server), SendMessage(w, p)
      PROVE  sending' = [sending EXCEPT ![w] = [id |-> Len(sent'), from |-> 0]]
  BY <1>8 DEF SendMessage
<1>9. ASSUME NEW w \in Workers, SendAll(w) \/ SendRefused(w)
      PROVE  sending' = [sending EXCEPT ![w] = NoPacket]
  BY <1>9 DEF SendAll, SendRefused
<1>10. sending' \in [Workers -> Send] /\ \A v \in Workers : Good(sending'[v])
  <2> HIDE DEF Good
  <2>1. ASSUME NEW w \in Workers, NEW p \in Packets(server), SendMessage(w, p)
        PROVE  sending' \in [Workers -> Send] /\ \A v \in Workers : Good(sending'[v])
    BY <2>1, <1>4, <1>6, <1>8
  <2>2. ASSUME NEW w \in Workers, SendAll(w) \/ SendRefused(w)
        PROVE  sending' \in [Workers -> Send] /\ \A v \in Workers : Good(sending'[v])
    BY <2>2, <1>3, <1>4, <1>9
  <2>3. ASSUME NEW w \in Workers, SendShort(w)
        PROVE  sending' \in [Workers -> Send] /\ \A v \in Workers : Good(sending'[v])
    BY <2>3, <1>4, <1>7
  <2>4. CASE Receive \/ Lose \/ UNCHANGED vars
    <3>1. sending' = sending
      BY <2>4 DEF Receive, Lose, vars
    <3> QED
      BY <3>1, <1>5
  <2> QED
    BY <2>1, <2>2, <2>3, <2>4 DEF Next
<1> QED
  BY <1>10

-----------------------------------------------------------------------------
(* The types *)

\* The receiver takes a whole piece off the stream; what is left are pieces.
LEMMA StreamStep ==
    ASSUME WireType, [Next]_vars
    PROVE  /\ stream' \in Seq(Piece)
           /\ \A i \in DOMAIN stream' :
                /\ stream'[i].id \in DOMAIN sent'
                /\ 0 <= stream'[i].from /\ stream'[i].from < stream'[i].to
                /\ stream'[i].to <= PacketLength(sent'[stream'[i].id])
<1> DEFINE Good(piece) == /\ piece.id \in DOMAIN sent'
                          /\ 0 <= piece.from /\ piece.from < piece.to
                          /\ piece.to <= PacketLength(sent'[piece.id])
           Goal == stream' \in Seq(Piece) /\ \A i \in DOMAIN stream' : Good(stream'[i])
<1>1. stream \in Seq(Piece) /\ Len(stream) \in Nat /\ DOMAIN stream = 1 .. Len(stream)
  BY DEF WireType
<1>2. \A i \in DOMAIN stream : Good(stream[i])
  <2> TAKE i \in DOMAIN stream
  <2>1. /\ stream[i].id \in DOMAIN sent
        /\ 0 <= stream[i].from /\ stream[i].from < stream[i].to
        /\ stream[i].to <= PacketLength(sent[stream[i].id])
    BY DEF WireType, TypeOK
  <2>2. DOMAIN sent = 1 .. Len(sent) /\ DOMAIN sent' = 1 .. Len(sent')
    BY SentStays DEF WireType
  <2>3. stream[i].id \in DOMAIN sent' /\ sent'[stream[i].id] = sent[stream[i].id]
    BY <2>1, <2>2, SentStays
  <2> QED
    BY <2>1, <2>3
<1>3. ASSUME stream' = stream
      PROVE  Goal
  BY <1>1, <1>2, <1>3
<1>4. ASSUME NEW w \in Workers, SendAll(w)
      PROVE  Goal
  <2>1. sending[w] # NoPacket /\ Accept(w, Left(w)) /\ sent' = sent
    BY <1>4 DEF SendAll
  <2>2. Left(w) \in Nat /\ Left(w) > 0 /\ Left(w) <= Left(w)
    BY <2>1, UnderWay
  <2> QED
    BY <2>1, <2>2, StreamAccepts
<1>5. ASSUME NEW w \in Workers, SendShort(w)
      PROVE  Goal
  <2>1. /\ sending[w] # NoPacket /\ Left(w) > 1 /\ sent' = sent
        /\ Accept(w, Left(w) \div 2)
    BY <1>5 DEF SendShort
  <2>2. Left(w) \in Nat
    BY <2>1, UnderWay
  <2>3. Left(w) \div 2 \in Nat /\ Left(w) \div 2 > 0 /\ Left(w) \div 2 <= Left(w)
    BY <2>1, <2>2
  <2> QED
    BY <2>1, <2>3, StreamAccepts
<1>6. ASSUME Receive
      PROVE  Goal
  <2>1. stream # <<>> /\ stream' = Tail(stream)
    BY <1>6 DEF Receive, WholePacket
  <2>2. stream' \in Seq(Piece) /\ DOMAIN stream' = 1 .. Len(stream) - 1
    BY <1>1, <2>1
  <2>3. \A i \in DOMAIN stream' : i + 1 \in DOMAIN stream /\ stream'[i] = stream[i + 1]
    BY <1>1, <2>1, <2>2
  <2> HIDE DEF Good
  <2> QED
    BY <1>2, <2>2, <2>3 DEF Goal
<1>7. ASSUME NEW w \in Workers, SendRefused(w) \/ \E p \in Packets(server) : SendMessage(w, p)
      PROVE  stream' = stream
  BY <1>7 DEF SendRefused, SendMessage
<1>8. ASSUME Lose \/ UNCHANGED vars
      PROVE  stream' = stream
  BY <1>8 DEF Lose, vars
<1>9. Goal
  <2> HIDE DEF Goal
  <2> QED
    BY <1>3, <1>4, <1>5, <1>6, <1>7, <1>8 DEF Next
<1> QED
  BY <1>9

\* What was unpacked is a packet, the sends that took less are within the bound.
LEMMA OthersStep ==
    ASSUME WireType, [Next]_vars
    PROVE  /\ server' \in {"chat", "robot"}
           /\ unpacked'.id \in 0 .. Len(sent') /\ shorts' \in 0 .. MaxShort
           /\ {lost', refused', overlapped'} \subseteq BOOLEAN
<1>1. /\ unpacked.id \in 0 .. Len(sent) /\ shorts \in 0 .. MaxShort
      /\ lost \in BOOLEAN /\ refused \in BOOLEAN /\ overlapped \in BOOLEAN
  BY DEF WireType, TypeOK
<1>2. server' \in {"chat", "robot"}
  BY SentStays DEF WireType, TypeOK
<1>3. unpacked'.id \in 0 .. Len(sent')
  <2>1. CASE unpacked' = unpacked
    BY <1>1, <2>1, SentStays
  <2>2. ASSUME Receive
        PROVE  unpacked'.id \in 0 .. Len(sent')
    <3>1. stream # <<>> /\ unpacked'.id = Head(stream).id
      BY <2>2 DEF Receive, WholePacket
    <3>2. 1 \in DOMAIN stream /\ Head(stream) = stream[1]
      BY <3>1 DEF WireType
    <3>3. stream[1].id \in 1 .. Len(sent)
      BY <3>2 DEF WireType, TypeOK
    <3> QED
      BY <3>1, <3>2, <3>3, SentStays
  <2> QED
    BY <2>1, <2>2 DEF Next, vars, SendMessage, SendAll, SendShort, SendRefused, Lose
<1>4. shorts' \in 0 .. MaxShort
  <2>1. CASE shorts' = shorts
    BY <1>1, <2>1
  <2>2. CASE shorts < MaxShort /\ shorts' = shorts + 1
    BY <1>1, <2>2, WireAssumption DEF WireAssumption
  <2> QED
    BY <2>1, <2>2 DEF Next, vars, SendMessage, SendAll, SendShort, SendRefused, Receive, Lose
<1>5. lost' \in BOOLEAN /\ refused' \in BOOLEAN
  BY <1>1 DEF Next, vars, SendMessage, SendAll, SendShort, SendRefused, Receive, Lose
<1>6. overlapped' \in BOOLEAN
  BY <1>1 DEF Next, vars, SendMessage, SendAll, SendShort, SendRefused, Receive, Lose
<1> QED
  BY <1>2, <1>3, <1>4, <1>5, <1>6

\* Every step keeps the types.
LEMMA WireTypeStep ==
    ASSUME WireType, [Next]_vars
    PROVE  WireType'
<1>1. /\ Len(sent') \in 0 .. MaxPackets /\ sent' \in Seq(Packets(server)) /\ server' = server
      /\ \A i \in DOMAIN sent' : sent'[i] \in Packets(server)
  <2>1. sent' \in Seq(Packets(server)) /\ Len(sent') \in Nat /\ Len(sent') <= MaxPackets
        /\ server' = server
    BY SentStays
  <2>2. \A i \in DOMAIN sent' : sent'[i] \in Packets(server)
    BY <2>1
  <2> QED
    BY <2>1, <2>2, WireAssumption DEF WireAssumption
<1>2. TypeOK'
  BY <1>1, SendingStep, StreamStep, OthersStep DEF TypeOK
<1> QED
  BY <1>1, <1>2, SendingStep, StreamStep DEF WireType

-----------------------------------------------------------------------------
(* The order of the stream *)

\* Bytes taken of the only packet that may be partly sent leave whole packets
\* and, at the end, what was taken of it.
LEMMA OrderlyAccept ==
    ASSUME WireType, Orderly, NEW w \in Workers, sending[w] # NoPacket,
           NEW n \in Nat, n > 0, n <= Left(w), Accept(w, n), sent' = sent
    PROVE  /\ stream' # <<>> /\ Len(stream') \in Nat /\ Len(stream') > 0
           /\ \A i \in 1 .. Len(stream') :
                /\ stream'[i].from = 0
                /\ i # Len(stream') => stream'[i].to = Length(stream'[i].id)
           /\ stream'[Len(stream')].id = sending[w].id
           /\ stream'[Len(stream')].to = sending[w].from + n
<1> DEFINE Goes == /\ stream # <<>>
                   /\ LastPiece.id = sending[w].id /\ LastPiece.to = sending[w].from
<1>1. stream \in Seq(Piece) /\ Len(stream) \in Nat
  BY DEF WireType
<1>2. stream' \in Seq(Piece)
  BY StreamAccepts
<1>3. \A v \in Workers : v # w => ~Partial(v)
  BY DEF Orderly
<1>4. CASE Goes
  <2>1. /\ Len(stream) > 0 /\ Len(stream') = Len(stream)
        /\ \A i \in 1 .. Len(stream) : i # Len(stream) => stream'[i] = stream[i]
        /\ stream'[Len(stream)] =
             [id |-> LastPiece.id, from |-> LastPiece.from, to |-> sending[w].from + n]
    BY <1>4, AcceptPiece
  <2>2. LastPiece.from = 0
    BY <1>1, <2>1 DEF Orderly, LastPiece
  <2>3. \A i \in 1 .. Len(stream) :
          stream[i].from = 0 /\ (i # Len(stream) => stream[i].to = Length(stream[i].id))
    BY DEF Orderly
  <2>4. /\ stream'[Len(stream)].id = sending[w].id /\ stream'[Len(stream)].from = 0
        /\ stream'[Len(stream)].to = sending[w].from + n
    BY <1>4, <2>1, <2>2
  <2>5. stream' # <<>>
    BY <1>2, <2>1
  <2> QED
    BY <1>1, <2>1, <2>3, <2>4, <2>5
<1>5. CASE ~Goes
  <2>1. /\ Len(stream') = Len(stream) + 1
        /\ \A i \in 1 .. Len(stream) : stream'[i] = stream[i]
        /\ stream'[Len(stream) + 1] =
             [id |-> sending[w].id, from |-> sending[w].from, to |-> sending[w].from + n]
    BY <1>5, AcceptPiece
  <2>2. ~Partial(w)
    BY <1>5 DEF Orderly
  <2>3. sending[w].from = 0
    BY <2>2, UnderWay DEF Partial
  <2>4. stream # <<>> => LastPiece.to = Length(LastPiece.id)
    BY <1>3, <2>2 DEF Orderly
  <2>5. \A i \in 1 .. Len(stream) :
          stream[i].from = 0 /\ stream[i].to = Length(stream[i].id)
    <3> TAKE i \in 1 .. Len(stream)
    <3>1. stream # <<>>
      BY <1>1
    <3> QED
      BY <1>1, <2>4, <3>1 DEF Orderly, LastPiece
  <2>6. stream' # <<>>
    BY <1>1, <1>2, <2>1
  <2>7. /\ stream'[Len(stream) + 1].id = sending[w].id /\ stream'[Len(stream) + 1].from = 0
        /\ stream'[Len(stream) + 1].to = sending[w].from + n
    BY <2>1, <2>3
  <2> QED
    BY <1>1, <2>1, <2>5, <2>6, <2>7
<1> QED
  BY <1>4, <1>5

\* A packet that is begun while none is partly sent.
LEMMA OrderlySend ==
    ASSUME WireType, Orderly, NEW w \in Workers, NEW p \in Packets(server),
           SendMessage(w, p), ~overlapped'
    PROVE  Orderly'
<1>1. stream' = stream /\ \A v \in Workers : ~(sending[v].from > 0)
  BY DEF SendMessage
<1>2. \A v \in Workers : ~Partial(v)'
  <2> TAKE v \in Workers
  <2>1. sending'[v] = sending[v] \/ sending'[v] = [id |-> Len(sent'), from |-> 0]
    BY DEF SendMessage, WireType
  <2> QED
    BY <1>1, <2>1 DEF Partial
<1>3. \A i \in 1 .. Len(stream) : Length(stream[i].id)' = Length(stream[i].id)
  <2> TAKE i \in 1 .. Len(stream)
  <2>1. stream[i].id \in 1 .. Len(sent)
    BY DEF WireType, TypeOK
  <2> QED
    BY <1>1, <2>1, SentStays DEF Length, Next
<1>4. stream # <<>> => /\ LastPiece.to = Length(LastPiece.id)
                       /\ Length(LastPiece.id)' = Length(LastPiece.id)
  <2>1. stream # <<>> => Len(stream) \in 1 .. Len(stream)
    BY DEF WireType
  <2> QED
    BY <1>1, <1>3, <2>1 DEF Orderly, Partial, LastPiece
<1>5. \A i \in 1 .. Len(stream) :
        stream[i].from = 0 /\ (i # Len(stream) => stream[i].to = Length(stream[i].id))
  BY DEF Orderly
<1>6. \A i \in 1 .. Len(stream') :
        stream'[i].from = 0 /\ (i # Len(stream') => stream'[i].to = Length(stream[i].id)')
  BY <1>1, <1>3, <1>5
<1> QED
  BY <1>1, <1>2, <1>4, <1>6 DEF Orderly, LastPiece

\* All of what is left of a packet is taken.
LEMMA OrderlyAll ==
    ASSUME WireType, Orderly, NEW w \in Workers, SendAll(w)
    PROVE  Orderly'
<1>1. sending[w] # NoPacket /\ Accept(w, Left(w)) /\ sent' = sent
      /\ sending' = [sending EXCEPT ![w] = NoPacket]
  BY DEF SendAll
<1>2. /\ Left(w) \in Nat /\ Left(w) > 0 /\ Left(w) <= Left(w)
      /\ Left(w) = Length(sending[w].id) - sending[w].from /\ sending[w].from \in Nat
      /\ Length(sending[w].id) \in Nat
  BY <1>1, UnderWay, Lengths
<1>3. /\ \A i \in 1 .. Len(stream') :
           /\ stream'[i].from = 0
           /\ i # Len(stream') => stream'[i].to = Length(stream'[i].id)
      /\ stream'[Len(stream')].id = sending[w].id
      /\ stream'[Len(stream')].to = Length(sending[w].id)
  <2>1. sending[w].from + Left(w) = Length(sending[w].id)
    BY <1>2
  <2> QED
    BY <1>1, <1>2, <2>1, OrderlyAccept
<1>4. \A v \in Workers : ~Partial(v)'
  <2> TAKE v \in Workers
  <2>1. v # w => ~Partial(v)
    BY <1>1 DEF Orderly
  <2> QED
    BY <1>1, <2>1 DEF WireType, Partial, NoPacket
<1> QED
  BY <1>1, <1>3, <1>4 DEF Orderly, LastPiece, Length

\* Some of a packet is taken while no other is being sent.
LEMMA OrderlyShort ==
    ASSUME WireType, Orderly, NEW w \in Workers, SendShort(w), ~overlapped'
    PROVE  Orderly'
<1> DEFINE n == Left(w) \div 2
<1>1. /\ sending[w] # NoPacket /\ Left(w) > 1 /\ Accept(w, n) /\ sent' = sent
      /\ sending' = [sending EXCEPT ![w].from = @ + n]
      /\ \A v \in Workers \ {w} : sending[v] = NoPacket
  BY DEF SendShort
<1>2. Left(w) \in Nat /\ sending[w].from \in Nat /\ sending[w] \in Send
  BY <1>1, UnderWay DEF WireType
<1>3. n \in Nat /\ n > 0 /\ n <= Left(w)
  BY <1>1, <1>2
<1> HIDE DEF n
<1>4. /\ stream' # <<>>
      /\ \A i \in 1 .. Len(stream') :
           /\ stream'[i].from = 0
           /\ i # Len(stream') => stream'[i].to = Length(stream'[i].id)
      /\ stream'[Len(stream')].id = sending[w].id
      /\ stream'[Len(stream')].to = sending[w].from + n
  BY <1>1, <1>3, OrderlyAccept
<1>5. /\ \A v \in Workers : v # w => sending'[v] = NoPacket
      /\ sending'[w] = [sending[w] EXCEPT !.from = @ + n]
  BY <1>1 DEF WireType
<1>6. sending'[w].id = sending[w].id /\ sending'[w].from = sending[w].from + n
  BY <1>2, <1>5 DEF Send
<1>7. \A v \in Workers : Partial(v)' => v = w
  BY <1>5 DEF Partial, NoPacket
<1>8. Partial(w)'
  BY <1>2, <1>3, <1>6 DEF Partial
<1> QED
  BY <1>1, <1>4, <1>5, <1>6, <1>7, <1>8 DEF Orderly, LastPiece, Length

\* The receiver takes the first packet of the stream, which is whole: either
\* others follow it or all that was sent has been taken.
LEMMA OrderlyReceive ==
    ASSUME WireType, Orderly, Receive
    PROVE  Orderly'
<1>1. /\ stream # <<>> /\ stream' = Tail(stream) /\ sending' = sending /\ sent' = sent
      /\ Head(stream).to = Length(Head(stream).id)
  BY DEF Receive, WholePacket, Length
<1>2. stream \in Seq(Piece) /\ Len(stream) \in Nat /\ Len(stream) > 0
  BY <1>1 DEF WireType
<1>3. /\ Len(stream') = Len(stream) - 1
      /\ \A i \in 1 .. Len(stream') : i + 1 \in 1 .. Len(stream) /\ stream'[i] = stream[i + 1]
  BY <1>1, <1>2
<1>4. \A i \in 1 .. Len(stream) :
        stream[i].from = 0 /\ (i # Len(stream) => stream[i].to = Length(stream[i].id))
  BY DEF Orderly
<1>5. \A i \in 1 .. Len(stream') :
        stream'[i].from = 0 /\ (i # Len(stream') => stream'[i].to = Length(stream'[i].id))
  BY <1>2, <1>3, <1>4
<1>6. CASE Len(stream) > 1
  <2>1. stream' # <<>> /\ stream'[Len(stream')] = stream[Len(stream)]
    <3>1. Len(stream') \in 1 .. Len(stream') /\ Len(stream') + 1 = Len(stream)
      BY <1>2, <1>3, <1>6
    <3>2. stream'[Len(stream')] = stream[Len(stream)]
      BY <1>3, <3>1
    <3>3. stream' # <<>>
      BY <1>2, <1>3, <1>6
    <3> QED
      BY <3>2, <3>3
  <2> QED
    BY <1>1, <1>5, <2>1 DEF Orderly, LastPiece, Partial, Length
<1>7. CASE Len(stream) = 1
  <2>1. stream' = <<>> /\ LastPiece = Head(stream)
    BY <1>1, <1>2, <1>7 DEF LastPiece
  <2>2. \A v \in Workers : ~Partial(v)
    <3> SUFFICES ASSUME NEW v \in Workers, Partial(v) PROVE FALSE
      OBVIOUS
    <3>1. LastPiece.id = sending[v].id /\ LastPiece.to = sending[v].from
      BY DEF Orderly
    <3>2. sending[v] # NoPacket
      BY DEF Partial, NoPacket
    <3>3. sending[v].from < Length(sending[v].id) /\ sending[v].from \in Nat
          /\ Length(sending[v].id) \in Nat
      BY <3>2, UnderWay, Lengths
    <3> QED
      BY <1>1, <2>1, <3>1, <3>3
  <2>3. \A v, u \in Workers : ~Partial(v)'
    BY <1>1, <2>2 DEF Partial
  <2> QED
    BY <1>5, <2>1, <2>3, <1>1 DEF Orderly, Length
<1>8. Len(stream) = 1 \/ Len(stream) > 1
  BY <1>2
<1> QED
  BY <1>6, <1>7, <1>8

\* The first of several pieces is a whole packet.
LEMMA HeadIsWhole ==
    ASSUME WireType, Orderly, Len(stream) > 1
    PROVE  WholePacket
<1>1. stream \in Seq(Piece) /\ Len(stream) \in Nat
  BY DEF WireType
<1>2. 1 \in 1 .. Len(stream) /\ 1 # Len(stream)
  <2>1. \A k \in Nat : k > 1 => 1 \in 1 .. k /\ 1 # k
    OBVIOUS
  <2> QED
    BY <1>1, <2>1, Zenon
<1>3. stream = <<>> => Len(stream) = 0
  OBVIOUS
<1>4. stream # <<>> /\ Head(stream) = stream[1]
  BY <1>1, <1>3
<1> QED
  BY <1>2, <1>4 DEF Orderly, WholePacket, Length

\* While no send was refused and none overlapped another, the receiver is not lost.
LEMMA WireStep ==
    ASSUME WInv, [Next]_vars
    PROVE  WInv'
<1>1. WireType /\ WireType'
  BY WireTypeStep DEF WInv
<1> SUFFICES ASSUME ~refused', ~overlapped'
             PROVE  ~lost' /\ Orderly'
  BY <1>1 DEF WInv
<1>2. ~refused /\ ~overlapped
  BY <1>1 DEF WireType, TypeOK, Next, vars, SendMessage, SendAll, SendShort, SendRefused,
     Receive, Lose
<1>3. ~lost /\ Orderly
  BY <1>2 DEF WInv
<1>4. ASSUME NEW w \in Workers, NEW p \in Packets(server), SendMessage(w, p)
      PROVE  ~lost' /\ Orderly'
  BY <1>1, <1>3, <1>4, OrderlySend DEF SendMessage
<1>5. ASSUME NEW w \in Workers, SendAll(w)
      PROVE  ~lost' /\ Orderly'
  BY <1>1, <1>3, <1>5, OrderlyAll DEF SendAll
<1>6. ASSUME NEW w \in Workers, SendShort(w)
      PROVE  ~lost' /\ Orderly'
  BY <1>1, <1>3, <1>6, OrderlyShort DEF SendShort
<1>7. ASSUME NEW w \in Workers, SendRefused(w)
      PROVE  FALSE
  BY <1>7 DEF SendRefused
<1>8. ASSUME Receive
      PROVE  ~lost' /\ Orderly'
  BY <1>1, <1>3, <1>8, OrderlyReceive DEF Receive
<1>9. ASSUME Lose
      PROVE  FALSE
  BY <1>1, <1>3, <1>9, HeadIsWhole DEF Lose
<1>10. CASE UNCHANGED vars
  BY <1>3, <1>10 DEF vars, Orderly, LastPiece, Partial, Length
<1> QED
  BY <1>4, <1>5, <1>6, <1>7, <1>8, <1>9, <1>10 DEF Next

\* Nothing has been sent at first.
LEMMA InitWInv == Init => WInv
<1> SUFFICES ASSUME Init PROVE WInv
  OBVIOUS
<1>1. /\ sent = <<>> /\ stream = <<>> /\ sending = [w \in Workers |-> NoPacket]
      /\ server \in {"chat", "robot"} /\ unpacked.id = 0
      /\ lost = FALSE /\ shorts = 0 /\ refused = FALSE /\ overlapped = FALSE
  BY DEF Init
<1>2. \A w \in Workers : sending[w].id = 0 /\ sending[w].from = 0
  BY <1>1 DEF NoPacket
<1>3. TypeOK
  <2>1. Len(sent) = 0 /\ DOMAIN sent = {} /\ DOMAIN stream = {}
    BY <1>1
  <2>2. 0 \in 0 .. MaxPackets /\ 0 \in 0 .. MaxShort
    BY WireAssumption DEF WireAssumption
  <2>3. \A w \in Workers :
           /\ sending[w].id \in 0 .. Len(sent)
           /\ sending[w].id # 0 => sending[w].from \in 0 .. PacketLength(sent[sending[w].id]) - 1
    BY <1>2, <2>1
  <2>4. /\ unpacked.id \in 0 .. Len(sent) /\ shorts \in 0 .. MaxShort
        /\ {lost, refused, overlapped} \subseteq BOOLEAN
    <3>1. lost \in BOOLEAN /\ refused \in BOOLEAN /\ overlapped \in BOOLEAN
      BY <1>1
    <3>2. unpacked.id \in 0 .. Len(sent)
      BY <1>1, <2>1
    <3> QED
      BY <1>1, <2>2, <3>1, <3>2
  <2> QED
    BY <1>1, <2>1, <2>2, <2>3, <2>4 DEF TypeOK
<1>4. WireType
  BY <1>1, <1>2, <1>3 DEF WireType, Send, NoPacket
<1> QED
  BY <1>1, <1>2, <1>4 DEF WInv, Orderly, Partial

\* SendFull by any number of workers and UnpackStream at the other end keep
\* the stream as it was described.
THEOREM WireInvariance == Spec => []WInv
  BY InitWInv, WireStep, PTL DEF Spec

\* Every piece of the stream is of a packet that was sent, and SendFull never
\* sends bytes behind the end of one.
THEOREM WireTypeCorrect == Spec => []TypeOK
<1>1. WInv => TypeOK
  BY DEF WInv, WireType
<1> QED
  BY <1>1, WireInvariance, PTL

\* Workers that write to one descriptor without a lock (SendFull) lose the other
\* end only by a send that took nothing or one that overlapped another's.
THEOREM OtherEndLostOnlyIfMixed == Spec => []LostOnlyIfMixed
<1>1. WInv => LostOnlyIfMixed
  BY DEF WInv, LostOnlyIfMixed
<1> QED
  BY <1>1, WireInvariance, PTL

-----------------------------------------------------------------------------
(* What the other end has read *)

\* data_length counts what PackStream writes, for packets with texts and lists of
\* any length, but for the position of a user that logs in.
THEOREM PacketsAreFilled == Spec => []PacketsFilled
<1>1. WInv => PacketsFilled
  <2> SUFFICES ASSUME WInv, NEW i \in DOMAIN sent
               PROVE  PacketLength(sent[i]) - Width(WrittenFields(sent[i]))
                        = IF sent[i].code = "NOTICE_USER_LOGIN" THEN 8 ELSE 0
    BY Zenon DEF PacketsFilled
  <2>1. server \in {"chat", "robot"} /\ sent[i] \in Packets(server)
    BY DEF WInv, WireType, TypeOK
  <2> QED
    BY <2>1, FilledIs, Zenon
<1> QED
  BY <1>1, WireInvariance, PTL

\* The members of the last packet are what UnpackStream makes of it.
Taken == unpacked.id # 0 => unpacked.members = UnpackStream(sent[unpacked.id])

\* Packets sent later do not change it.
LEMMA TakenStep ==
    ASSUME WireType, Taken, [Next]_vars
    PROVE  Taken'
<1>1. CASE Receive
  <2>1. /\ unpacked' = [id |-> Head(stream).id, members |-> UnpackStream(sent[Head(stream).id])]
        /\ sent' = sent
    BY <1>1 DEF Receive
  <2>2. unpacked'.members = UnpackStream(sent'[unpacked'.id])
    BY <2>1
  <2> QED
    BY <2>2 DEF Taken
<1>2. CASE unpacked' = unpacked
  <2>1. ASSUME unpacked.id # 0 PROVE sent'[unpacked.id] = sent[unpacked.id]
    <3>1. unpacked.id \in 1 .. Len(sent)
      BY <2>1, SentStays DEF WireType, TypeOK
    <3> QED
      BY <3>1, SentStays
  <2>2. unpacked.id # 0 => unpacked.members = UnpackStream(sent[unpacked.id])
    BY DEF Taken
  <2>3. unpacked'.id # 0 => unpacked'.members = UnpackStream(sent'[unpacked'.id])
    BY <1>2, <2>1, <2>2
  <2> QED
    BY <2>3 DEF Taken
<1>3. Receive \/ unpacked' = unpacked
  BY DEF Next, vars, SendMessage, SendAll, SendShort, SendRefused, Lose
<1> QED
  BY <1>1, <1>2, <1>3

\* Of a packet that was taken off the stream, UnpackStream reads every member from
\* the bytes PackStream wrote it to, for texts and lists of any length, but for
\* those that RoundTrip excepts.
THEOREM RoundTripHolds == Spec => []RoundTrip
<1>1. Init => Taken
  BY DEF Init, Taken
<1>2. WInv /\ Taken /\ [Next]_vars => Taken'
  BY TakenStep DEF WInv
<1>3. WInv /\ Taken => RoundTrip
  <2> SUFFICES ASSUME WInv, Taken, unpacked.id # 0
               PROVE  Misread = MisreadMembers(sent[unpacked.id])
    BY DEF RoundTrip
  <2>1. server \in {"chat", "robot"} /\ sent[unpacked.id] \in Packets(server)
    <3>1. unpacked.id \in DOMAIN sent
      BY DEF WInv, WireType, TypeOK
    <3> QED
      BY <3>1 DEF WInv, WireType, TypeOK
  <2>2. Misread = MisreadOf(sent[unpacked.id])
    BY MisreadDiffers, Zenon DEF Taken
  <2> QED
    BY <2>1, <2>2, MisreadIs, Zenon
<1> QED
  BY <1>1, <1>2, <1>3, WireInvariance, PTL DEF Spec
=============================================================================

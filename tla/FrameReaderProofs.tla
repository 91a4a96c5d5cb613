--------------------------- MODULE FrameReaderProofs ---------------------------
(***************************************************************************)
(* For any wires and any cut of them into reads: the readers are exact.    *)
(* The buffer is always the piece of the wire from a place the reader has  *)
(* reached (Progress) to the last byte received; the place is the border   *)
(* of two items, or inside one that is no frame.  What every loop makes of *)
(* the buffer is read off the item at that place (Looking): IapIsRead,     *)
(* LegacyIsRead and so on say it loop by loop, and where it goes from      *)
(* there (Stands).                                                         *)
(***************************************************************************)
EXTENDS FrameReaders, FiniteSetTheorems, WellFoundedInduction, TLAPS

\* Every set of numbers has a least one.
LEMMA LeastNumber ==
    ASSUME NEW S \in SUBSET Nat, S # {}
    PROVE  \E n \in S : \A m \in S : n <= m
<1> DEFINE T == {1..n : n \in S}
           R == StrictSubsetOrdering(Nat)
<1>1. \A n \in Nat : 1..n \in FiniteSubsetsOf(Nat)
  BY FS_Interval DEF FiniteSubsetsOf
<1>2. T \subseteq FiniteSubsetsOf(Nat) /\ T # {}
  BY <1>1
<1>3. IsWellFoundedOn(R, FiniteSubsetsOf(Nat))
  BY FS_StrictSubsetOrderingWellFounded
<1> HIDE DEF T, R
<1>4. \E x \in T : \A y \in T : ~ (<<y, x>> \in R)
  BY <1>2, <1>3, WFMin
<1>5. PICK n \in S : \A m \in S : ~ (<<1..m, 1..n>> \in R)
  BY <1>4 DEF T
<1>6. ASSUME NEW m \in S, m < n PROVE FALSE
  <2>1. 1..m \in SUBSET Nat /\ 1..n \in SUBSET Nat /\ 1..m \subseteq 1..n
        /\ n \in 1..n /\ n \notin 1..m
    BY <1>6
  <2>2. <<1..m, 1..n>> \in R
    BY <2>1 DEF R, StrictSubsetOrdering
  <2>. QED BY <1>5, <2>2
<1>. QED BY <1>6

\* A member of a sequence.
LEMMA MemberIs ==
    ASSUME NEW S, NEW list \in Seq(S), NEW k \in 1..Len(list)
    PROVE  list[k] \in S
  OBVIOUS

\* A part of a sequence.
LEMMA PartIs ==
    ASSUME NEW b \in Seq(Byte), NEW m \in Nat, NEW n \in Nat, m <= n, n <= Len(b)
    PROVE  /\ SubSeq(b, m + 1, n) \in Seq(Byte) /\ Len(SubSeq(b, m + 1, n)) = n - m
           /\ \A i \in 1..(n - m) : SubSeq(b, m + 1, n)[i] = b[m + i]
<1>1. Len(b) \in Nat /\ b \in [1..Len(b) -> Byte]
  OBVIOUS
<1>2. CASE m = n
  <2>1. SubSeq(b, m + 1, n) = <<>>
    BY <1>2
  <2> QED
    BY <1>2, <2>1
<1>3. CASE m < n
  <2>1. m + 1 \in 1..Len(b) /\ n \in 1..Len(b)
    BY <1>1, <1>3
  <2>2. SubSeq(b, m + 1, n) = [i \in 1..(n - m) |-> b[m + i]]
    BY <1>1, <1>3, <2>1
  <2>3. \A i \in 1..(n - m) : b[m + i] \in Byte
    BY <1>1, <1>3
  <2>4. [i \in 1..(n - m) |-> b[m + i]] \in [1..(n - m) -> Byte] /\ n - m \in Nat
    BY <1>3, <2>3
  <2> QED
    BY <2>2, <2>4
<1> QED
  BY <1>2, <1>3

\* Two sequences one after the other.
LEMMA JoinedBytes ==
    ASSUME NEW b \in Seq(Byte), NEW c \in Seq(Byte)
    PROVE  /\ b \o c \in Seq(Byte) /\ Len(b \o c) = Len(b) + Len(c)
           /\ \A i \in 1..Len(b) : (b \o c)[i] = b[i]
           /\ \A i \in 1..Len(c) : (b \o c)[Len(b) + i] = c[i]
<1>1. Len(b) \in Nat /\ Len(c) \in Nat
  OBVIOUS
<1>2. \A i \in 1..Len(c) : (b \o c)[Len(b) + i] = c[i]
  BY <1>1
<1> QED
  BY <1>1, <1>2

\* Sequences with the same bytes are the same.
LEMMA SameBytes ==
    ASSUME NEW b \in Seq(Byte), NEW c \in Seq(Byte), Len(b) = Len(c),
           \A i \in 1..Len(b) : b[i] = c[i]
    PROVE  b = c
  OBVIOUS

\* The ends of the items of a wire.
LEMMA EndsAre ==
    ASSUME NEW w \in Wires
    PROVE  /\ w.bytes \in Seq(Byte) /\ Len(w.bytes) \in Nat /\ Len(w.items) \in Nat
           /\ \A k \in 0..Len(w.items) : End(w, k) \in Nat /\ End(w, k) <= Len(w.bytes)
           /\ \A j, k \in 0..Len(w.items) : j < k => End(w, j) < End(w, k)
           /\ \A j, k \in 0..Len(w.items) : j <= k => End(w, j) <= End(w, k)
           /\ End(w, 0) = 0 /\ End(w, Len(w.items)) = Len(w.bytes)
           /\ \A k \in Items(w) : k \in Nat /\ k - 1 \in 0..Len(w.items) /\ k \in 0..Len(w.items)
<1>1. /\ w.bytes \in Seq(Byte) /\ w.items \in Seq([kind : Kinds, end : Nat])
      /\ End(w, Len(w.items)) = Len(w.bytes)
      /\ \A j, k \in 0..Len(w.items) : j < k => End(w, j) < End(w, k)
  BY WiresAssumption DEF Wire
<1>2. Len(w.bytes) \in Nat /\ Len(w.items) \in Nat
  BY <1>1
<1>3. \A k \in 0..Len(w.items) : End(w, k) \in Nat
  <2>1. ASSUME NEW k \in 1..Len(w.items) PROVE w.items[k].end \in Nat
    <3>1. w.items[k] \in [kind : Kinds, end : Nat]
      BY <1>1, MemberIs
    <3> QED
      BY <3>1
  <2> QED
    BY <1>2, <2>1 DEF End
<1>4. \A j, k \in 0..Len(w.items) : j <= k => End(w, j) <= End(w, k)
  BY <1>1, <1>2, <1>3
<1>5. \A k \in 0..Len(w.items) : End(w, k) <= Len(w.bytes)
  BY <1>1, <1>2, <1>3, <1>4
<1>6. \A k \in Items(w) : k \in Nat /\ k - 1 \in 0..Len(w.items) /\ k \in 0..Len(w.items)
  BY <1>2 DEF Items
<1> QED
  BY <1>1, <1>2, <1>3, <1>4, <1>5, <1>6 DEF End

\* An item: where it is, its bytes, what it looks like.
LEMMA ItemIs ==
    ASSUME NEW w \in Wires, NEW k \in Items(w)
    PROVE  /\ End(w, k - 1) \in Nat /\ End(w, k) \in Nat /\ End(w, k - 1) < End(w, k)
           /\ End(w, k) <= Len(w.bytes) /\ Len(w.bytes) \in Nat
           /\ Kind(w, k) \in Kinds
           /\ Item(w, k) \in Seq(Byte) /\ Len(Item(w, k)) = End(w, k) - End(w, k - 1)
           /\ \A i \in 1..Len(Item(w, k)) : Item(w, k)[i] = w.bytes[End(w, k - 1) + i]
           /\ Looks(w, Kind(w, k), Item(w, k))
<1>1. /\ End(w, k - 1) \in Nat /\ End(w, k) \in Nat /\ End(w, k - 1) < End(w, k)
      /\ End(w, k) <= Len(w.bytes) /\ w.bytes \in Seq(Byte) /\ Len(w.bytes) \in Nat
  BY EndsAre
<1>2. Kind(w, k) \in Kinds /\ Looks(w, Kind(w, k), Item(w, k))
  <2>1. w.items \in Seq([kind : Kinds, end : Nat])
    BY WiresAssumption DEF Wire
  <2>2. w.items[k] \in [kind : Kinds, end : Nat]
    BY <2>1, MemberIs DEF Items
  <2> QED
    BY <2>2, WiresAssumption DEF Kind
<1>3. PICK m \in Nat, n \in Nat : m = End(w, k - 1) /\ n = End(w, k)
  BY <1>1
<1>4. m <= n /\ n <= Len(w.bytes) /\ w.bytes \in Seq(Byte)
  BY <1>1, <1>3
<1>5. /\ SubSeq(w.bytes, m + 1, n) \in Seq(Byte) /\ Len(SubSeq(w.bytes, m + 1, n)) = n - m
      /\ \A i \in 1..(n - m) : SubSeq(w.bytes, m + 1, n)[i] = w.bytes[m + i]
  BY <1>4, PartIs
<1>6. Item(w, k) = SubSeq(w.bytes, m + 1, n)
  BY <1>3 DEF Item, Piece
<1>7. /\ Item(w, k) \in Seq(Byte) /\ Len(Item(w, k)) = n - m
      /\ \A i \in 1..Len(Item(w, k)) : Item(w, k)[i] = w.bytes[m + i]
  BY <1>5, <1>6
<1> QED
  BY <1>1, <1>2, <1>3, <1>7

\* Two items are one before the other.
LEMMA Apart ==
    ASSUME NEW w \in Wires, NEW j \in Items(w), NEW k \in Items(w), j < k
    PROVE  End(w, j) <= End(w, k - 1)
<1>1. j \in 0..Len(w.items) /\ k - 1 \in 0..Len(w.items) /\ j <= k - 1
  BY EndsAre DEF Items
<1> QED
  BY <1>1, EndsAre

\* Each byte is one of an item.
LEMMA ItemAt ==
    ASSUME NEW w \in Wires, NEW s \in Nat, s < Len(w.bytes)
    PROVE  \E k \in Items(w) : End(w, k - 1) <= s /\ s < End(w, k)
<1> DEFINE S == {k \in 0..Len(w.items) : s < End(w, k)}
<1>1. Len(w.items) \in S
  BY EndsAre
<1>2. PICK k \in S : \A m \in S : k <= m
  <2>1. S \in SUBSET Nat /\ S # {}
    BY <1>1
  <2> HIDE DEF S
  <2> QED
    BY <2>1, LeastNumber
<1>3. k # 0
  BY <1>2, EndsAre
<1>4. k \in Items(w) /\ k - 1 \in 0..Len(w.items)
  BY <1>2, <1>3, EndsAre DEF Items
<1>5. ~(s < End(w, k - 1))
  BY <1>2, <1>4 DEF Items
<1>6. End(w, k - 1) \in Nat
  BY <1>4, EndsAre
<1> QED
  BY <1>2, <1>4, <1>5, <1>6

\* The bytes of a wire from one place to another.
Span(w, s, p) == w \in Wires /\ s \in Nat /\ p \in Nat /\ s <= p /\ p <= Len(w.bytes)

\* A piece of a wire has its bytes.
LEMMA PieceIs ==
    ASSUME NEW w, NEW s, NEW p, Span(w, s, p)
    PROVE  /\ Piece(w, s, p) \in Seq(Byte) /\ Len(Piece(w, s, p)) = p - s
           /\ \A i \in 1..(p - s) : Piece(w, s, p)[i] = w.bytes[s + i]
<1>1. w \in Wires /\ s \in Nat /\ p \in Nat /\ s <= p /\ p <= Len(w.bytes)
  BY DEF Span
<1>2. w.bytes \in Seq(Byte)
  BY <1>1, EndsAre
<1> QED
  BY <1>1, <1>2, PartIs DEF Piece

\* What is taken and what is left of a piece.
LEMMA DropIs ==
    ASSUME NEW w, NEW s, NEW e, NEW p, Span(w, s, e), Span(w, e, p)
    PROVE  /\ Span(w, s, p)
           /\ Drop(Piece(w, s, p), e - s) = Piece(w, e, p)
           /\ Take(Piece(w, s, p), e - s) = Piece(w, s, e)
<1> DEFINE b == Piece(w, s, p)
           c == Piece(w, s, e)
           d == Piece(w, e, p)
<1>1. w \in Wires /\ s \in Nat /\ e \in Nat /\ p \in Nat /\ s <= e /\ e <= p /\ p <= Len(w.bytes)
  BY DEF Span
<1>2. Len(w.bytes) \in Nat
  BY <1>1, EndsAre
<1>3. Span(w, s, p)
  BY <1>1, <1>2 DEF Span
<1>4. /\ b \in Seq(Byte) /\ Len(b) = p - s /\ \A i \in 1..(p - s) : b[i] = w.bytes[s + i]
      /\ c \in Seq(Byte) /\ Len(c) = e - s /\ \A i \in 1..(e - s) : c[i] = w.bytes[s + i]
      /\ d \in Seq(Byte) /\ Len(d) = p - e /\ \A i \in 1..(p - e) : d[i] = w.bytes[e + i]
  BY <1>3, PieceIs
<1> HIDE DEF b, c, d
<1>5. Drop(b, e - s) = d
  <2>1. /\ Drop(b, e - s) \in Seq(Byte) /\ Len(Drop(b, e - s)) = p - e
        /\ \A i \in 1..(p - e) : Drop(b, e - s)[i] = b[e - s + i]
    <3>1. /\ SubSeq(b, e - s + 1, p - s) \in Seq(Byte)
          /\ Len(SubSeq(b, e - s + 1, p - s)) = p - s - (e - s)
          /\ \A i \in 1..(p - s - (e - s)) : SubSeq(b, e - s + 1, p - s)[i] = b[e - s + i]
      <4>1. e - s \in Nat /\ p - s \in Nat /\ e - s <= p - s /\ p - s <= Len(b)
        BY <1>1, <1>4
      <4> QED
        BY <1>4, <4>1, PartIs
    <3>2. p - s - (e - s) = p - e
      BY <1>1
    <3> QED
      BY <1>4, <3>1, <3>2 DEF Drop
  <2>2. ASSUME NEW i \in 1..(p - e) PROVE Drop(b, e - s)[i] = d[i]
    <3>1. e - s + i \in 1..(p - s) /\ s + (e - s + i) = e + i
      BY <1>1
    <3> QED
      BY <1>4, <2>1, <3>1
  <2> QED
    BY <1>4, <2>1, <2>2, SameBytes
<1>6. Take(b, e - s) = c
  <2>1. /\ SubSeq(b, 0 + 1, e - s) \in Seq(Byte) /\ Len(SubSeq(b, 0 + 1, e - s)) = e - s - 0
        /\ \A i \in 1..(e - s - 0) : SubSeq(b, 0 + 1, e - s)[i] = b[0 + i]
    <3>1. e - s \in Nat /\ 0 <= e - s /\ e - s <= Len(b)
      BY <1>1, <1>4
    <3> QED
      BY <1>4, <3>1, PartIs
  <2>2. /\ Take(b, e - s) \in Seq(Byte) /\ Len(Take(b, e - s)) = e - s
        /\ \A i \in 1..(e - s) : Take(b, e - s)[i] = b[i]
    <3>1. e - s - 0 = e - s /\ 0 + 1 = 1 /\ \A i \in 1..(e - s) : 0 + i = i
      BY <1>1
    <3>2. Take(b, e - s) = SubSeq(b, 0 + 1, e - s)
      BY <3>1 DEF Take
    <3> QED
      BY <2>1, <3>1, <3>2
  <2>3. ASSUME NEW i \in 1..(e - s) PROVE Take(b, e - s)[i] = c[i]
    <3>1. i \in 1..(p - s)
      BY <1>1
    <3> QED
      BY <1>4, <2>2, <3>1
  <2> QED
    BY <1>4, <2>2, <2>3, SameBytes
<1> QED
  BY <1>3, <1>5, <1>6 DEF b, c, d

\* Two pieces that meet.
LEMMA JoinIs ==
    ASSUME NEW w, NEW s, NEW e, NEW p, Span(w, s, e), Span(w, e, p)
    PROVE  Span(w, s, p) /\ Piece(w, s, e) \o Piece(w, e, p) = Piece(w, s, p)
<1> DEFINE b == Piece(w, s, p)
           c == Piece(w, s, e)
           d == Piece(w, e, p)
<1>1. w \in Wires /\ s \in Nat /\ e \in Nat /\ p \in Nat /\ s <= e /\ e <= p /\ p <= Len(w.bytes)
  BY DEF Span
<1>2. Len(w.bytes) \in Nat
  BY <1>1, EndsAre
<1>3. Span(w, s, p)
  BY <1>1, <1>2 DEF Span
<1>4. /\ b \in Seq(Byte) /\ Len(b) = p - s /\ \A i \in 1..(p - s) : b[i] = w.bytes[s + i]
      /\ c \in Seq(Byte) /\ Len(c) = e - s /\ \A i \in 1..(e - s) : c[i] = w.bytes[s + i]
      /\ d \in Seq(Byte) /\ Len(d) = p - e /\ \A i \in 1..(p - e) : d[i] = w.bytes[e + i]
  BY <1>3, PieceIs
<1> HIDE DEF b, c, d
<1>5. c \o d = b
  <2>1. /\ c \o d \in Seq(Byte) /\ Len(c \o d) = Len(c) + Len(d)
        /\ \A i \in 1..Len(c) : (c \o d)[i] = c[i]
        /\ \A i \in 1..Len(d) : (c \o d)[Len(c) + i] = d[i]
    BY <1>4, JoinedBytes
  <2>2. Len(c \o d) = p - s
    BY <1>1, <1>4, <2>1
  <2>3. ASSUME NEW i \in 1..(p - s) PROVE (c \o d)[i] = b[i]
    <3>1. CASE i <= e - s
      BY <1>1, <1>4, <2>1, <3>1
    <3>2. CASE i > e - s
      <4> DEFINE k == i - (e - s)
      <4>1. k \in 1..(p - e) /\ e + k = s + i /\ Len(c) + k = i
        BY <1>1, <1>4, <3>2
      <4> HIDE DEF k
      <4> QED
        BY <1>4, <2>1, <4>1
    <3>3. i <= e - s \/ i > e - s
      BY <1>1
    <3> QED
      BY <3>1, <3>2, <3>3
  <2> QED
    BY <1>4, <2>1, <2>2, <2>3, SameBytes
<1> QED
  BY <1>3, <1>5 DEF b, c, d

\* A piece without its first byte.
LEMMA TailIs ==
    ASSUME NEW w, NEW s, NEW p, Span(w, s, p), s < p
    PROVE  /\ Span(w, s, s + 1) /\ Span(w, s + 1, p)
           /\ Tail(Piece(w, s, p)) = Piece(w, s + 1, p)
<1> DEFINE b == Piece(w, s, p)
           d == Piece(w, s + 1, p)
<1>1. w \in Wires /\ s \in Nat /\ p \in Nat /\ s < p /\ p <= Len(w.bytes)
  BY DEF Span
<1>2. Span(w, s, s + 1) /\ Span(w, s + 1, p)
  <2>1. Len(w.bytes) \in Nat
    BY <1>1, EndsAre
  <2> QED
    BY <1>1, <2>1 DEF Span
<1>3. /\ b \in Seq(Byte) /\ Len(b) = p - s /\ \A i \in 1..(p - s) : b[i] = w.bytes[s + i]
      /\ d \in Seq(Byte) /\ Len(d) = p - (s + 1)
      /\ \A i \in 1..(p - (s + 1)) : d[i] = w.bytes[s + 1 + i]
  BY <1>2, PieceIs
<1> HIDE DEF b, d
<1>4. /\ Tail(b) \in Seq(Byte) /\ Len(Tail(b)) = p - s - 1
      /\ \A i \in 1..(p - s - 1) : Tail(b)[i] = b[i + 1]
  BY <1>1, <1>3
<1>5. ASSUME NEW i \in 1..(p - s - 1) PROVE Tail(b)[i] = d[i]
  <2>1. i + 1 \in 1..(p - s) /\ s + (i + 1) = s + 1 + i /\ i \in 1..(p - (s + 1))
    BY <1>1
  <2> QED
    BY <1>3, <1>4, <2>1
<1>6. p - s - 1 = p - (s + 1)
  BY <1>1
<1>7. Tail(b) = d
  BY <1>3, <1>4, <1>5, <1>6, SameBytes
<1> QED
  BY <1>2, <1>7 DEF b, d

\* The least of a set of numbers.
LEMMA MinIs ==
    ASSUME NEW S \in SUBSET Int, NEW m \in S, \A i \in S : m <= i
    PROVE  Min(S) = m
<1>1. Min(S) \in S /\ \A i \in S : Min(S) <= i
  BY DEF Min
<1>2. PICK x : x = Min(S)
  OBVIOUS
<1>3. x \in Int /\ m \in Int /\ x <= m /\ m <= x
  BY <1>1, <1>2
<1> QED
  BY <1>2, <1>3

\* Where the first header of a piece is.
LEMMA HeaderAhead ==
    ASSUME NEW w, NEW s, NEW e, NEW p, Span(w, s, e), Span(w, e, p),
           \A i \in (s + 1)..e : w.bytes[i] # 85
    PROVE  /\ HasHeader(Piece(w, e, p)) => FromHeader(Piece(w, s, p)) = Piece(w, e, p)
           /\ p <= e + 1 => FromHeader(Piece(w, s, p)) = <<>>
<1> DEFINE b == Piece(w, s, p)
           at == {i \in 1..(Len(b) - 1) : b[i] = 85 /\ b[i + 1] = 170}
<1>1. w \in Wires /\ s \in Nat /\ e \in Nat /\ p \in Nat /\ s <= e /\ e <= p /\ p <= Len(w.bytes)
  BY DEF Span
<1>2. /\ b \in Seq(Byte) /\ Len(b) = p - s /\ \A i \in 1..(p - s) : b[i] = w.bytes[s + i]
      /\ Span(w, s, p)
  BY DropIs, PieceIs
<1> HIDE DEF b
<1>3. FromHeader(b) = IF at = {} THEN <<>> ELSE SubSeq(b, Min(at), Len(b))
  BY DEF FromHeader
<1>4. ASSUME NEW i \in at PROVE i \in Nat /\ i > e - s /\ i <= p - s - 1
  <2>1. i \in 1..(Len(b) - 1) /\ b[i] = 85
    OBVIOUS
  <2>2. i \in Nat /\ i >= 1 /\ i <= p - s - 1
    BY <1>1, <1>2, <2>1
  <2>3. w.bytes[s + i] = 85
    BY <1>1, <1>2, <2>1, <2>2
  <2>4. ~(s + i \in (s + 1)..e)
    BY <2>3
  <2> QED
    BY <1>1, <2>2, <2>4
<1>5. ASSUME p <= e + 1 PROVE at = {}
  BY <1>1, <1>4, <1>5
<1>6. ASSUME HasHeader(Piece(w, e, p)) PROVE FromHeader(b) = Piece(w, e, p)
  <2>1. /\ Len(Piece(w, e, p)) = p - e /\ \A i \in 1..(p - e) : Piece(w, e, p)[i] = w.bytes[e + i]
    BY PieceIs
  <2>2. p - e >= 2 /\ w.bytes[e + 1] = 85 /\ w.bytes[e + 2] = 170
    BY <1>1, <1>6, <2>1 DEF HasHeader, Starts
  <2> DEFINE m == e - s + 1
  <2>3. m \in 1..(p - s - 1) /\ s + m = e + 1 /\ s + (m + 1) = e + 2 /\ m + 1 \in 1..(p - s)
        /\ m \in 1..(p - s) /\ m \in Nat
    BY <1>1, <2>2
  <2> HIDE DEF m
  <2>4. m \in at
    BY <1>2, <2>2, <2>3
  <2>5. \A i \in at : m <= i /\ i \in Nat
    BY <1>1, <1>4 DEF m
  <2> HIDE DEF at
  <2>6. Min(at) = m
    <3>1. at \in SUBSET Int
      BY <2>5
    <3> QED
      BY <2>4, <2>5, <3>1, MinIs
  <2>7. FromHeader(b) = SubSeq(b, m, Len(b))
    BY <1>3, <2>4, <2>6
  <2>8. SubSeq(b, m, Len(b)) = Drop(b, e - s)
    BY DEF Drop, m
  <2> QED
    BY <2>7, <2>8, DropIs DEF b
<1> QED
  BY <1>3, <1>5, <1>6 DEF b

\* A piece looks like the item it begins at, as far as it goes.
LEMMA Looking ==
    ASSUME NEW w, NEW p, NEW k \in Items(w), Span(w, End(w, k - 1), p), End(w, k - 1) < p
    PROVE  LET b == Piece(w, End(w, k - 1), p)
               c == Item(w, k)
           IN  /\ b \in Seq(Byte) /\ c \in Seq(Byte) /\ Len(b) > 0
               /\ Len(b) = p - End(w, k - 1) /\ Len(c) = End(w, k) - End(w, k - 1)
               /\ Len(b) \in Nat /\ Len(c) \in Nat /\ Len(c) > 0
               /\ \A i \in 1..Len(b) : i <= Len(c) => b[i] = c[i]
               /\ Looks(w, Kind(w, k), c) /\ Kind(w, k) \in Kinds
               /\ p < End(w, k) <=> Len(b) < Len(c)
               /\ ~(p < End(w, k)) =>
                      /\ Take(b, Len(c)) = c /\ Drop(b, Len(c)) = Piece(w, End(w, k), p)
                      /\ Span(w, End(w, k), p)
<1> DEFINE s == End(w, k - 1)
           e == End(w, k)
           b == Piece(w, s, p)
           c == Item(w, k)
<1>1. w \in Wires /\ s \in Nat /\ p \in Nat /\ s < p /\ p <= Len(w.bytes) /\ Len(w.bytes) \in Nat
  BY EndsAre DEF Span
<1>2. /\ e \in Nat /\ s < e /\ e <= Len(w.bytes)
      /\ c \in Seq(Byte) /\ Len(c) = e - s
      /\ \A i \in 1..Len(c) : c[i] = w.bytes[s + i]
      /\ Looks(w, Kind(w, k), c) /\ Kind(w, k) \in Kinds
  BY <1>1, ItemIs
<1>3. b \in Seq(Byte) /\ Len(b) = p - s /\ \A i \in 1..Len(b) : b[i] = w.bytes[s + i]
  BY <1>1, PieceIs
<1>4. ASSUME ~(p < e)
      PROVE  Take(b, Len(c)) = c /\ Drop(b, Len(c)) = Piece(w, e, p) /\ Span(w, e, p)
  <2>1. Span(w, s, e) /\ Span(w, e, p)
    BY <1>1, <1>2, <1>4 DEF Span
  <2> QED
    BY <1>2, <2>1, DropIs DEF Item
<1> HIDE DEF s, e, b, c
<1>5. ASSUME NEW i \in 1..Len(b), i <= Len(c) PROVE b[i] = c[i]
  <2>1. i \in 1..Len(c)
    BY <1>1, <1>2, <1>3, <1>5
  <2> QED
    BY <1>2, <1>3, <2>1
<1>6. Len(b) > 0 /\ Len(b) \in Nat /\ Len(c) \in Nat /\ Len(c) > 0 /\ (p < e <=> Len(b) < Len(c))
  BY <1>1, <1>2, <1>3
<1> QED
  BY <1>2, <1>3, <1>4, <1>5, <1>6 DEF s, e, b, c

\* What the first bytes of a piece say of the item it begins at.
LEMMA Leads ==
    ASSUME NEW w, NEW p, NEW k \in Items(w), Span(w, End(w, k - 1), p), End(w, k - 1) < p
    PROVE  LET b == Piece(w, End(w, k - 1), p)
           IN  /\ Kind(w, k) = "noise" => b[1] \notin {85, 126}
               /\ Kind(w, k) \in {"mirror", "damaged", "frame"} =>
                      b[1] = 85 /\ (Len(b) >= 2 => b[2] = 170) /\ Len(Item(w, k)) > 4
               /\ Kind(w, k) = "iap" =>
                      b[1] = 126 /\ (Len(b) >= 2 => b[2] = 231) /\ Len(Item(w, k)) >= 10
               /\ Kind(w, k) = "ack" => b[1] = 126 /\ AckPrefix(b) /\ Len(Item(w, k)) = 13
                                        /\ (Len(b) >= 2 => b[2] = 170)
               /\ Kind(w, k) = "status" =>
                      b[1] = 85 /\ (Len(b) >= 2 => b[2] # 170) /\ Len(Item(w, k)) = 19
               /\ Kind(w, k) = "legacy" =>
                      /\ b[1] = 126 /\ Len(Item(w, k)) >= 2
                      /\ AckPrefix(b) => Len(b) < Len(Item(w, k)) /\ Len(b) < 13
<1> DEFINE b == Piece(w, End(w, k - 1), p)
           c == Item(w, k)
<1>1. /\ b \in Seq(Byte) /\ c \in Seq(Byte) /\ Len(b) > 0
      /\ Len(b) \in Nat /\ Len(c) \in Nat /\ Len(c) > 0
      /\ \A i \in 1..Len(b) : i <= Len(c) => b[i] = c[i]
      /\ Looks(w, Kind(w, k), c)
  BY Looking
<1> HIDE DEF b, c
<1>2. b[1] = c[1] /\ (Len(c) >= 2 /\ Len(b) >= 2 => b[2] = c[2])
  BY <1>1
<1>3. ASSUME Kind(w, k) = "noise" PROVE b[1] \notin {85, 126}
  <2>1. Quiet(c, 1)
    BY <1>1, <1>3 DEF Looks
  <2>2. 1 \in 1..Len(c)
    BY <1>1
  <2> QED
    BY <1>2, <2>1, <2>2 DEF Quiet
<1>4. ASSUME Kind(w, k) \in {"mirror", "damaged", "frame"}
      PROVE  b[1] = 85 /\ (Len(b) >= 2 => b[2] = 170) /\ Len(c) > 4
  <2>1. HasHeader(c) /\ Len(c) > 4
    <3>1. CASE Kind(w, k) \in {"mirror", "damaged"}
      <4>1. MirrorLook(c)
        BY <1>1, <3>1 DEF Looks
      <4>2. Long(c, 6, 261) /\ HasHeader(c)
        BY <4>1 DEF MirrorLook
      <4> QED
        BY <1>1, <4>2 DEF Long
    <3>2. CASE Kind(w, k) = "frame"
      <4>1. TurntableLook(c) \/ FrameLook(c, w.device)
        BY <1>1, <3>2 DEF Looks
      <4>2. HasHeader(c) /\ (Len(c) > 4 \/ Long(c, 6, 4101))
        <5>1. TurntableLook(c) => HasHeader(c) /\ Len(c) > 4
          BY DEF TurntableLook
        <5>2. FrameLook(c, w.device) => HasHeader(c) /\ Long(c, 6, 4101)
          BY DEF FrameLook
        <5> QED
          BY <4>1, <5>1, <5>2
      <4> QED
        BY <1>1, <4>2 DEF Long
    <3> QED
      BY <1>4, <3>1, <3>2
  <2>2. c[1] = 85 /\ c[2] = 170 /\ Len(c) >= 2
    BY <2>1 DEF HasHeader, Starts
  <2> QED
    BY <1>2, <2>1, <2>2
<1>5. ASSUME Kind(w, k) = "iap" PROVE b[1] = 126 /\ (Len(b) >= 2 => b[2] = 231) /\ Len(c) >= 10
  <2>0. IapLook(c)
    BY <1>1, <1>5 DEF Looks
  <2>1. Starts(c, 126, 231) /\ Long(c, 10, 4102)
    BY <2>0 DEF IapLook, IapLead, SystemEam
  <2> QED
    BY <1>1, <1>2, <2>1 DEF Starts, Long
<1>6. ASSUME Kind(w, k) = "ack"
      PROVE b[1] = 126 /\ AckPrefix(b) /\ Len(c) = 13 /\ (Len(b) >= 2 => b[2] = 170)
  <2>1. c = UpgradeAck
    BY <1>1, <1>6 DEF Looks
  <2>2. Len(UpgradeAck) = 13 /\ UpgradeAck[1] = 126 /\ UpgradeAck[2] = 170
    BY DEF UpgradeAck
  <2>3. ASSUME NEW i \in 1..13, i <= Len(b) PROVE b[i] = UpgradeAck[i]
    <3>1. i \in 1..Len(b) /\ i <= Len(c)
      BY <1>1, <2>1, <2>2, <2>3
    <3> QED
      BY <1>1, <2>1, <3>1
  <2>4. AckPrefix(b)
    BY <2>3 DEF AckPrefix
  <2> QED
    BY <1>2, <2>1, <2>2, <2>4
<1>7. ASSUME Kind(w, k) = "status"
      PROVE  b[1] = 85 /\ (Len(b) >= 2 => b[2] # 170) /\ Len(c) = 19
  <2>1. Len(c) = 19 /\ c[1] = 85 /\ c[2] # 170
    BY <1>1, <1>7 DEF Looks
  <2> QED
    BY <1>2, <2>1
<1>8. ASSUME Kind(w, k) = "legacy"
      PROVE  /\ b[1] = 126 /\ Len(c) >= 2
             /\ AckPrefix(b) => Len(b) < Len(c) /\ Len(b) < 13
  <2>0. LegacyLook(c, w.bits)
    BY <1>1, <1>8 DEF Looks
  <2>1. Len(c) >= 2 /\ c[1] = 126 /\ ~AckPrefix(c)
    BY <2>0 DEF LegacyLook
  <2>2. ASSUME AckPrefix(b) PROVE Len(b) < Len(c) /\ Len(b) < 13
    <3>1. PICK i \in 1..13 : i <= Len(c) /\ c[i] # UpgradeAck[i]
      BY <2>1 DEF AckPrefix
    <3>2. ASSUME i <= Len(b) PROVE FALSE
      <4>1. i \in 1..Len(b) /\ i \in 1..13
        BY <1>1, <3>1, <3>2
      <4>2. b[i] = c[i]
        BY <1>1, <3>1, <4>1
      <4>3. b[i] = UpgradeAck[i]
        BY <2>2, <3>2, <4>1 DEF AckPrefix
      <4> QED
        BY <3>1, <4>2, <4>3
    <3>3. ~(i <= Len(b)) /\ i \in 1..13 /\ i <= Len(c)
      BY <3>1, <3>2
    <3> QED
      BY <1>1, <3>3
  <2> QED
    BY <1>2, <2>1, <2>2
<1> QED
  BY <1>3, <1>4, <1>5, <1>6, <1>7, <1>8 DEF b, c

(* A reader stands at the start of an item, or in one none of whose bytes  *)
(* begins a frame.                                                         *)
\* Where a reader can be: between two items, or in one that is no frame.
Start(w, s) == \E k \in 0..Len(w.items) : s = End(w, k)
Inside(w, s) == \E k \in Items(w) : Cuts(w, s, k) /\ Kind(w, k) \in {"noise", "damaged"}
Placed(w, s) == Start(w, s) \/ Inside(w, s)

\* No byte in such an item begins a frame.
LEMMA QuietByte ==
    ASSUME NEW w \in Wires, NEW s \in Nat, NEW k \in Items(w), Cuts(w, s, k),
           Kind(w, k) \in {"noise", "damaged"}
    PROVE  w.bytes[s + 1] \notin {85, 126}
<1> DEFINE c == Item(w, k)
           i == s + 1 - End(w, k - 1)
<1>1. /\ i \in 2..Len(c) /\ Len(c) \in Nat /\ c[i] = w.bytes[s + 1]
      /\ Looks(w, Kind(w, k), c)
  <2>1. /\ End(w, k - 1) \in Nat /\ End(w, k) \in Nat
        /\ Len(c) = End(w, k) - End(w, k - 1)
        /\ \A m \in 1..Len(c) : c[m] = w.bytes[End(w, k - 1) + m]
        /\ Looks(w, Kind(w, k), c)
    BY ItemIs
  <2>2. i \in 2..Len(c) /\ i \in 1..Len(c) /\ End(w, k - 1) + i = s + 1 /\ Len(c) \in Nat
    BY <2>1 DEF Cuts
  <2> QED
    BY <2>1, <2>2
<1> HIDE DEF c, i
<1>2. c[i] \notin {85, 126}
  <2>1. CASE Kind(w, k) = "noise"
    <3>1. Quiet(c, 1)
      BY <1>1, <2>1 DEF Looks
    <3> QED
      BY <1>1, <3>1 DEF Quiet
  <2>2. CASE Kind(w, k) = "damaged"
    <3>1. Quiet(c, 3) /\ MirrorLook(c)
      BY <1>1, <2>2 DEF Looks
    <3>2. c[2] = 170
      BY <3>1 DEF MirrorLook, HasHeader, Starts
    <3>3. i = 2 \/ i \in 3..Len(c)
      BY <1>1
    <3> QED
      BY <3>1, <3>2, <3>3 DEF Quiet
  <2> QED
    BY <2>1, <2>2
<1> QED
  BY <1>1, <1>2

\* A reader is never inside a frame.
LEMMA PlacedIn ==
    ASSUME NEW w \in Wires, NEW s \in Nat, NEW k \in Items(w), Cuts(w, s, k), Placed(w, s)
    PROVE  Kind(w, k) \in {"noise", "damaged"}
<1>1. End(w, k - 1) < s /\ s < End(w, k)
  BY DEF Cuts
<1>2. ~Start(w, s)
  <2>1. ASSUME NEW j \in 0..Len(w.items), s = End(w, j) PROVE FALSE
    <3>1. j \in Nat /\ k \in Nat /\ (j <= k - 1 \/ k <= j) /\ k - 1 \in 0..Len(w.items)
          /\ k \in 0..Len(w.items)
      BY EndsAre
    <3>2. j <= k - 1 => End(w, j) <= End(w, k - 1)
      BY <3>1, EndsAre
    <3>3. k <= j => End(w, k) <= End(w, j)
      BY <3>1, EndsAre
    <3>4. End(w, k - 1) \in Nat /\ End(w, k) \in Nat
      BY ItemIs
    <3> QED
      BY <1>1, <2>1, <3>1, <3>2, <3>3, <3>4
  <2> QED
    BY <2>1 DEF Start
<1>3. PICK j \in Items(w) : Cuts(w, s, j) /\ Kind(w, j) \in {"noise", "damaged"}
  BY <1>2 DEF Placed, Inside
<1>4. j = k
  <2>1. j < k => End(w, j) <= End(w, k - 1)
    BY Apart
  <2>2. k < j => End(w, k) <= End(w, j - 1)
    BY Apart
  <2>3. j \in Nat /\ k \in Nat
    BY EndsAre
  <2>4. /\ End(w, j) \in Nat /\ End(w, j - 1) \in Nat /\ End(w, k) \in Nat /\ End(w, k - 1) \in Nat
    BY ItemIs
  <2>5. End(w, j - 1) < s /\ s < End(w, j)
    BY <1>3 DEF Cuts
  <2> QED
    BY <1>1, <2>1, <2>2, <2>3, <2>4, <2>5
<1> QED
  BY <1>3, <1>4

\* Such a place is before an item, or before a byte that begins nothing.
LEMMA Where ==
    ASSUME NEW w \in Wires, NEW s \in Nat, s < Len(w.bytes), Placed(w, s)
    PROVE  \E k \in Items(w) :
              \/ s = End(w, k - 1)
              \/ /\ Cuts(w, s, k) /\ Kind(w, k) \in {"noise", "damaged"}
                 /\ w.bytes[s + 1] \notin {85, 126}
<1>1. PICK k \in Items(w) : End(w, k - 1) <= s /\ s < End(w, k)
  BY ItemAt
<1>2. CASE s = End(w, k - 1)
  BY <1>2
<1>3. CASE s # End(w, k - 1)
  <2>1. Cuts(w, s, k)
    BY <1>1, <1>3, ItemIs DEF Cuts
  <2>2. Kind(w, k) \in {"noise", "damaged"}
    BY <2>1, PlacedIn
  <2> QED
    BY <2>1, <2>2, QuietByte
<1> QED
  BY <1>2, <1>3

(* A reader that stands at s, with p bytes received, all the frames among  *)
(* them, and the given ones handed over.                                   *)
Progress(w, s, p, all, given) ==
    /\ Span(w, s, p) /\ Placed(w, s)
    /\ \A k \in all : k \in Items(w) /\ IsFrame(w, k) /\ End(w, k) <= p
    /\ \A k \in Items(w) : IsFrame(w, k) /\ s <= End(w, k - 1) /\ End(w, k) <= p => k \in all
    /\ given \in Seq(Seq(Byte))
    /\ Handed(w, given, {k \in all : End(w, k) <= s})

\* Bytes that end no frame are passed over.
LEMMA Skips ==
    ASSUME NEW w, NEW s, NEW e, NEW p, NEW all, NEW given, Progress(w, s, p, all, given),
           e \in Nat, s <= e, e <= p, Placed(w, e),
           \A k \in Items(w) : IsFrame(w, k) => ~(s < End(w, k) /\ End(w, k) <= e)
    PROVE  Progress(w, e, p, all, given)
<1>1. w \in Wires /\ s \in Nat /\ p \in Nat /\ s <= p /\ p <= Len(w.bytes)
  BY DEF Progress, Span
<1>2. Span(w, e, p)
  BY <1>1 DEF Span
<1>3. ASSUME NEW k \in Items(w), IsFrame(w, k), e <= End(w, k - 1), End(w, k) <= p PROVE k \in all
  <2>1. s <= End(w, k - 1)
    BY <1>1, <1>3, ItemIs
  <2> QED
    BY <1>3, <2>1 DEF Progress
<1>4. {k \in all : End(w, k) <= s} = {k \in all : End(w, k) <= e}
  <2>1. ASSUME NEW k \in all PROVE End(w, k) <= s <=> End(w, k) <= e
    <3>1. k \in Items(w) /\ IsFrame(w, k)
      BY DEF Progress
    <3>2. End(w, k) \in Nat /\ ~(s < End(w, k) /\ End(w, k) <= e)
      BY <1>1, <3>1, ItemIs
    <3> QED
      BY <1>1, <3>2
  <2> QED
    BY <2>1
<1>5. Handed(w, given, {k \in all : End(w, k) <= s})
  BY DEF Progress
<1>6. Handed(w, given, {k \in all : End(w, k) <= e})
  BY <1>4, <1>5, Zenon
<1>7. /\ \A k \in all : k \in Items(w) /\ IsFrame(w, k) /\ End(w, k) <= p
      /\ given \in Seq(Seq(Byte))
  BY DEF Progress
<1> QED
  BY <1>2, <1>3, <1>6, <1>7 DEF Progress

\* A frame is handed over.
LEMMA HandsOver ==
    ASSUME NEW w, NEW s, NEW p, NEW all, NEW given, Progress(w, s, p, all, given),
           NEW k \in Items(w), IsFrame(w, k), s = End(w, k - 1), End(w, k) <= p
    PROVE  Progress(w, End(w, k), p, all, given \o <<Item(w, k)>>)
<1> DEFINE e == End(w, k)
           before == {j \in all : End(w, j) <= s}
           after == {j \in all : End(w, j) <= e}
           more == given \o <<Item(w, k)>>
<1>1. w \in Wires /\ s \in Nat /\ p \in Nat /\ s <= p /\ p <= Len(w.bytes)
  BY DEF Progress, Span
<1>2. e \in Nat /\ s < e /\ e <= Len(w.bytes) /\ Item(w, k) \in Seq(Byte)
  BY <1>1, ItemIs
<1>3. Span(w, e, p) /\ Placed(w, e)
  <2>1. k \in 0..Len(w.items)
    BY <1>1, EndsAre
  <2> QED
    BY <1>1, <1>2, <2>1 DEF Span, Placed, Start
<1>4. ASSUME NEW j \in Items(w), IsFrame(w, j), e <= End(w, j - 1), End(w, j) <= p PROVE j \in all
  <2>1. s <= End(w, j - 1)
    BY <1>1, <1>2, <1>4, ItemIs
  <2> QED
    BY <1>4, <2>1 DEF Progress
<1>5. k \in all
  BY <1>1 DEF Progress
<1>6. ASSUME NEW j \in all
      PROVE  /\ j \in Nat /\ k \in Nat /\ (End(w, j) <= e => End(w, j) <= s \/ j = k)
             /\ End(w, j) <= s => j < k /\ End(w, j) <= e
  <2>1. j \in Items(w)
    BY DEF Progress
  <2>2. j \in Nat /\ k \in Nat /\ End(w, j) \in Nat /\ End(w, j - 1) \in Nat /\ End(w, j - 1) < End(w, j)
    BY <1>1, <2>1, ItemIs, EndsAre
  <2>3. j < k => End(w, j) <= s
    BY <1>1, <2>1, Apart
  <2>4. k < j => e <= End(w, j - 1)
    BY <1>1, <2>1, Apart
  <2> HIDE DEF e
  <2> QED
    BY <1>1, <1>2, <2>2, <2>3, <2>4 DEF e
<1>7. PICK nth \in [1..Len(given) -> before] :
        /\ \A i, j \in 1..Len(given) : i < j => nth[i] < nth[j]
        /\ \A j \in before : \E i \in 1..Len(given) : nth[i] = j
        /\ \A i \in 1..Len(given) : given[i] = Item(w, nth[i])
  BY DEF Progress, Handed
<1> DEFINE n == Len(given)
           also == [i \in 1..(n + 1) |-> IF i <= n THEN nth[i] ELSE k]
<1>8. given \in Seq(Seq(Byte)) /\ n \in Nat
  BY DEF Progress
<1>9. /\ more \in Seq(Seq(Byte)) /\ Len(more) = n + 1
      /\ \A i \in 1..n : more[i] = given[i]
      /\ more[n + 1] = Item(w, k)
  BY <1>2, <1>8
<1>10. /\ \A i \in 1..n : nth[i] \in before /\ nth[i] \in all /\ nth[i] < k /\ nth[i] \in after
       /\ k \in after /\ k \in Nat
  <2>1. \A i \in 1..n : nth[i] \in before
    BY <1>7
  <2>2. k \in after /\ k \in Nat
    BY <1>2, <1>5, <1>6
  <2> QED
    BY <1>6, <2>1, <2>2
<1> HIDE DEF e, before, after, more, n
<1>11. also \in [1..(n + 1) -> after]
  BY <1>8, <1>10
<1>12. (\A i \in 1..n : also[i] = nth[i] /\ i \in 1..(n + 1)) /\ also[n + 1] = k /\ n + 1 \in 1..(n + 1)
  BY <1>8
<1> HIDE DEF also
<1>13. ASSUME NEW i \in 1..(n + 1), NEW j \in 1..(n + 1), i < j PROVE also[i] < also[j]
  <2>1. i \in 1..n
    BY <1>8, <1>13
  <2>2. CASE j \in 1..n
    BY <1>7, <1>12, <1>13, <2>1, <2>2 DEF n
  <2>3. CASE j = n + 1
    BY <1>10, <1>12, <2>1, <2>3
  <2> QED
    BY <1>8, <2>2, <2>3
<1>14. ASSUME NEW j \in after PROVE \E i \in 1..(n + 1) : also[i] = j
  <2>1. j \in all /\ End(w, j) <= e
    BY DEF after
  <2>2. CASE End(w, j) <= s
    <3>1. j \in before
      BY <2>1, <2>2 DEF before
    <3>2. PICK i \in 1..n : nth[i] = j
      BY <1>7, <3>1 DEF n
    <3> QED
      BY <1>12, <3>2
  <2>3. CASE j = k
    BY <1>12, <2>3
  <2> QED
    BY <1>6, <2>1, <2>2, <2>3 DEF e
<1>15. ASSUME NEW i \in 1..(n + 1) PROVE more[i] = Item(w, also[i])
  <2>1. CASE i \in 1..n
    BY <1>7, <1>9, <1>12, <2>1 DEF n
  <2>2. CASE i = n + 1
    BY <1>9, <1>12, <2>2
  <2> QED
    BY <1>8, <2>1, <2>2
<1>16. Handed(w, more, after)
  BY <1>9, <1>11, <1>13, <1>14, <1>15 DEF Handed
<1>17. \A j \in all : j \in Items(w) /\ IsFrame(w, j) /\ End(w, j) <= p
  BY DEF Progress
<1> QED
  BY <1>3, <1>4, <1>9, <1>16, <1>17 DEF Progress, e, after, more

(* Where a reader may be: at rest behind all the frames, in front of those *)
(* received before the read it is busy with, in front of the batch its     *)
(* inner loop is consuming, and where that loop and the outer one hand the *)
(* same bytes to each other.                                               *)
Inner == {"legacy", "mirror", "damaged"}
\* Where it waits: at the end, or at an item only the outer loop waits for.
Rests(w, s, p) ==
    \/ s = p
    \/ \E k \in Items(w) :
          /\ s = End(w, k - 1) /\ Cuts(w, p, k)
          /\ Kind(w, k) \in Inner => p = s + 1 \/ AckPrefix(Piece(w, s, p))
\* Where consumeLegacy is, entered with so many bytes.
InLegacy(w, s, p, size) ==
    /\ 2 <= size /\ p - s <= size /\ Start(w, s)
    /\ \A k \in Batch(w, s, p) : Kind(w, k) = "legacy"
    /\ p - s = size => ~AckPrefix(Piece(w, s, p))
\* Where consume55AA is.
InMirror(w, s, p, size) ==
    /\ 2 <= size /\ p - s <= size
    /\ \/ Start(w, s) /\ \A k \in Batch(w, s, p) : Kind(w, k) = "mirror" /\ p # End(w, k - 1) + 1
       \/ /\ \A k \in Batch(w, s, p) : Kind(w, k) = "damaged"
          /\ IF p - s = size THEN Start(w, s) ELSE Inside(w, s)
\* Where the outer loop meets the same buffer again.
Spins(w, s, p) ==
    \E k \in Items(w) :
        /\ s = End(w, k - 1) /\ s + 2 <= p
        /\ \/ Kind(w, k) \in Inner /\ p < End(w, k) /\ ~AckPrefix(Piece(w, s, p))
           \/ Kind(w, k) = "damaged" /\ p = End(w, k)
\* What a place means for the loop the reader is in.
Stands(w, s, p, where, size) ==
    /\ where \in {"idle", "outer", "legacy", "mirror", "spin"}
    /\ where = "idle" => Rests(w, s, p)
    /\ where \in {"outer", "legacy", "mirror"} => Survives(w, s, p)
    /\ where = "legacy" => InLegacy(w, s, p, size)
    /\ where = "mirror" => InMirror(w, s, p, size)
    /\ where = "spin" => Spins(w, s, p)
\* The buffer is the piece of the wire from such a place on.
Reading(w, p, all, rest, given, where, size) ==
    \E s \in Nat : rest = Piece(w, s, p) /\ Progress(w, s, p, all, given) /\ Stands(w, s, p, where, size)
\* The inductive invariant.
ReaderInv ==
    orderly => /\ ~Misguessed(wire) /\ entered \in Nat
               /\ Reading(wire, pos, arrived, buffer, got, loop, entered)

\* Inside an item that is no frame, no frame ends.
LEMMA Within ==
    ASSUME NEW w \in Wires, NEW k \in Items(w), Kind(w, k) \in {"noise", "damaged"},
           NEW s \in Nat, NEW e \in Nat, End(w, k - 1) <= s, s <= e, e <= End(w, k)
    PROVE  /\ End(w, k - 1) < e => Placed(w, e)
           /\ \A j \in Items(w) : IsFrame(w, j) => ~(s < End(w, j) /\ End(w, j) <= e)
<1>1. /\ End(w, k - 1) \in Nat /\ End(w, k) \in Nat /\ k \in Nat /\ k \in 0..Len(w.items)
  BY ItemIs, EndsAre
<1>2. ASSUME End(w, k - 1) < e PROVE Placed(w, e)
  <2>1. CASE e = End(w, k)
    BY <1>1, <2>1 DEF Placed, Start
  <2>2. CASE e < End(w, k)
    BY <1>2, <2>2 DEF Placed, Inside, Cuts
  <2>3. e = End(w, k) \/ e < End(w, k)
    BY <1>1
  <2> QED
    BY <2>1, <2>2, <2>3
<1>3. ASSUME NEW j \in Items(w), IsFrame(w, j), s < End(w, j), End(w, j) <= e PROVE FALSE
  <2>1. j # k
    BY <1>3 DEF IsFrame
  <2>2. j \in Nat /\ End(w, j) \in Nat /\ End(w, j - 1) \in Nat /\ End(w, j - 1) < End(w, j)
    BY ItemIs, EndsAre
  <2>3. j < k => End(w, j) <= End(w, k - 1)
    BY Apart
  <2>4. k < j => End(w, k) <= End(w, j - 1)
    BY Apart
  <2>5. End(w, j) > End(w, k - 1) /\ End(w, j) <= End(w, k)
    BY <1>1, <1>3, <2>2
  <2>6. ~(j < k) /\ ~(k < j)
    BY <1>1, <2>2, <2>3, <2>4, <2>5
  <2> QED
    BY <1>1, <2>1, <2>2, <2>6
<1> QED
  BY <1>2, <1>3

\* A byte that begins no frame is passed over.
LEMMA PassesByte ==
    ASSUME NEW w, NEW s, NEW p, NEW all, NEW given, Progress(w, s, p, all, given), s < p,
           w.bytes[s + 1] \notin {85, 126}
    PROVE  Progress(w, s + 1, p, all, given)
<1>0. w \in Wires /\ s \in Nat /\ p \in Nat /\ p <= Len(w.bytes) /\ Placed(w, s) /\ Span(w, s, p)
  BY DEF Progress, Span
<1>1. w \in Wires /\ s \in Nat /\ p \in Nat /\ p <= Len(w.bytes) /\ Placed(w, s)
      /\ Len(w.bytes) \in Nat /\ s < Len(w.bytes)
  BY <1>0, EndsAre
<1>2. PICK k \in Items(w) :
              \/ s = End(w, k - 1)
              \/ /\ Cuts(w, s, k) /\ Kind(w, k) \in {"noise", "damaged"}
                 /\ w.bytes[s + 1] \notin {85, 126}
  BY <1>1, Where
<1>3. End(w, k - 1) \in Nat /\ End(w, k) \in Nat /\ End(w, k - 1) < End(w, k)
  BY <1>1, ItemIs
<1>4. ASSUME s = End(w, k - 1) PROVE Kind(w, k) = "noise"
  <2>1. Span(w, End(w, k - 1), p)
    BY <1>0, <1>4
  <2>2. Piece(w, s, p)[1] = w.bytes[s + 1]
    BY <1>0, PieceIs
  <2>3. Kind(w, k) \in Kinds
    BY <1>1, ItemIs
  <2> QED
    BY <1>0, <1>4, <2>1, <2>2, <2>3, Leads DEF Kinds
<1>5. Kind(w, k) \in {"noise", "damaged"} /\ End(w, k - 1) <= s /\ s + 1 <= End(w, k)
  <2>1. CASE s = End(w, k - 1)
    BY <1>1, <1>3, <1>4, <2>1
  <2>2. CASE Cuts(w, s, k) /\ Kind(w, k) \in {"noise", "damaged"}
    BY <1>1, <1>3, <2>2 DEF Cuts
  <2> QED
    BY <1>2, <2>1, <2>2
<1>6. /\ Placed(w, s + 1)
      /\ \A j \in Items(w) : IsFrame(w, j) => ~(s < End(w, j) /\ End(w, j) <= s + 1)
  <2>1. s + 1 \in Nat /\ s <= s + 1 /\ End(w, k - 1) < s + 1 /\ End(w, k - 1) <= s
    BY <1>1, <1>3, <1>5
  <2> QED
    BY <1>1, <1>5, <2>1, Within
<1>7. s + 1 \in Nat /\ s <= s + 1 /\ s + 1 <= p
  BY <1>1
<1> QED
  BY <1>6, <1>7, Skips

\* What a reader survives, it survives in what is left of it.
LEMMA SurvivesRest ==
    ASSUME NEW w, NEW s, NEW e, NEW p, Span(w, s, e), Span(w, e, p)
    PROVE  /\ Batch(w, e, p) \subseteq Batch(w, s, p)
           /\ Survives(w, s, p) => Survives(w, e, p)
<1>1. w \in Wires /\ s \in Nat /\ e \in Nat /\ s <= e
  BY DEF Span
<1>2. ASSUME NEW k \in Batch(w, e, p) PROVE k \in Batch(w, s, p)
  <2>1. k \in Items(w) /\ End(w, k) > e
    BY DEF Batch
  <2>2. End(w, k) \in Nat
    BY <1>1, <2>1, ItemIs
  <2> QED
    BY <1>1, <2>1, <2>2 DEF Batch
<1> QED
  BY <1>2 DEF Survives

\* Only an item begins with 0x55 or 0x7E.
LEMMA FirstByte ==
    ASSUME NEW w, NEW s, NEW p, Span(w, s, p), Placed(w, s), s < p,
           Piece(w, s, p)[1] \in {85, 126}
    PROVE  \E k \in Items(w) : s = End(w, k - 1)
<1>0. w \in Wires /\ s \in Nat /\ p \in Nat /\ p <= Len(w.bytes)
  BY DEF Span
<1>1. Len(w.bytes) \in Nat /\ s < Len(w.bytes)
  BY <1>0, EndsAre
<1>2. Piece(w, s, p)[1] = w.bytes[s + 1]
  BY <1>0, PieceIs
<1>3. w.bytes[s + 1] \in {85, 126}
  BY <1>2
<1>4. PICK k \in Items(w) :
              \/ s = End(w, k - 1)
              \/ /\ Cuts(w, s, k) /\ Kind(w, k) \in {"noise", "damaged"}
                 /\ w.bytes[s + 1] \notin {85, 126}
  BY <1>0, <1>1, Where
<1> QED
  BY <1>3, <1>4

\* A reader that goes on at e.
LEMMA GoesOn ==
    ASSUME NEW w, NEW e, NEW p, NEW all, NEW given, NEW where, NEW size,
           Progress(w, e, p, all, given), Stands(w, e, p, where, size)
    PROVE  /\ Reading(w, p, all, Piece(w, e, p), given, where, size)
           /\ Reading(w, p, all, Piece(w, e, p), given \o <<>>, where, size)
<1>1. e \in Nat /\ given \in Seq(Seq(Byte))
  BY DEF Progress, Span
<1>2. given \o <<>> = given
  BY <1>1
<1> QED
  BY <1>1, <1>2 DEF Reading

\* The items of a batch that begins with item k.
LEMMA BatchIs ==
    ASSUME NEW w \in Wires, NEW p \in Nat, NEW k \in Items(w), End(w, k - 1) < p
    PROVE  /\ k \in Batch(w, End(w, k - 1), p)
           /\ \A j \in Batch(w, End(w, k - 1), p) : j = k \/ k < j
<1>1. End(w, k - 1) \in Nat /\ End(w, k) \in Nat /\ End(w, k - 1) < End(w, k) /\ k \in Nat
  BY ItemIs, EndsAre
<1>2. ASSUME NEW j \in Batch(w, End(w, k - 1), p), ~(j = k \/ k < j) PROVE FALSE
  <2>1. j \in Items(w) /\ End(w, j) > End(w, k - 1)
    BY DEF Batch
  <2>2. j \in Nat /\ End(w, j) \in Nat
    BY <2>1, ItemIs, EndsAre
  <2>3. End(w, j) <= End(w, k - 1)
    BY <1>1, <1>2, <2>1, <2>2, Apart
  <2> QED
    BY <1>1, <2>1, <2>2, <2>3
<1> QED
  BY <1>1, <1>2 DEF Batch

\* A frame all of which is there is taken.
LEMMA TakesFrame ==
    ASSUME NEW w, NEW s, NEW p, NEW all, NEW given, NEW size, NEW k \in Items(w),
           Progress(w, s, p, all, given), s = End(w, k - 1), End(w, k) <= p, IsFrame(w, k)
    PROVE  LET b == Piece(w, s, p)
               n == Len(Item(w, k))
           IN  /\ Take(b, n) = Item(w, k) /\ Drop(b, n) = Piece(w, End(w, k), p)
               /\ Span(w, s, End(w, k)) /\ Span(w, End(w, k), p)
               /\ Progress(w, End(w, k), p, all, given \o <<Take(b, n)>>)
               /\ Survives(w, s, p) =>
                      Reading(w, p, all, Drop(b, n), given \o <<Take(b, n)>>, "outer", size)
<1> DEFINE b == Piece(w, s, p)
           n == Len(Item(w, k))
           e == End(w, k)
<1>1. w \in Wires /\ s \in Nat /\ p \in Nat /\ s <= p /\ p <= Len(w.bytes) /\ Span(w, s, p)
  BY DEF Progress, Span
<1>2. e \in Nat /\ s < e /\ e <= p /\ n = e - s
  BY <1>1, ItemIs
<1>3. Span(w, s, e) /\ Span(w, e, p)
  <2>1. e <= Len(w.bytes)
    BY <1>1, ItemIs
  <2> QED
    BY <1>1, <1>2, <2>1 DEF Span
<1>4. Take(b, n) = Item(w, k) /\ Drop(b, n) = Piece(w, e, p)
  BY <1>2, <1>3, DropIs DEF Item
<1>5. Progress(w, e, p, all, given \o <<Item(w, k)>>)
  BY HandsOver
<1>6. ASSUME Survives(w, s, p)
      PROVE  Reading(w, p, all, Piece(w, e, p), given \o <<Item(w, k)>>, "outer", size)
  <2>1. Survives(w, e, p)
    BY <1>3, <1>6, SurvivesRest
  <2>2. Stands(w, e, p, "outer", size)
    BY <2>1 DEF Stands
  <2> QED
    BY <1>5, <2>2, GoesOn
<1> HIDE DEF b, n, e
<1> QED
  BY <1>3, <1>4, <1>5, <1>6 DEF b, n, e

\* A reader waits for the rest of an item.
LEMMA Waits ==
    ASSUME NEW w, NEW s, NEW p, NEW all, NEW given, NEW size, NEW k \in Items(w),
           Progress(w, s, p, all, given), s = End(w, k - 1), s < p, p < End(w, k),
           Kind(w, k) \in Inner => p = s + 1 \/ AckPrefix(Piece(w, s, p))
    PROVE  Reading(w, p, all, Piece(w, s, p), given \o <<>>, "idle", size)
<1>1. Rests(w, s, p)
  BY DEF Rests, Cuts
<1>2. Stands(w, s, p, "idle", size)
  BY <1>1 DEF Stands
<1> QED
  BY <1>2, GoesOn

\* Numbers that two sequences agree in.
LEMMA Agree ==
    ASSUME NEW b \in Seq(Byte), NEW c \in Seq(Byte),
           \A i \in 1..Len(b) : i <= Len(c) => b[i] = c[i],
           NEW m \in Nat, 1 <= m, m < Len(b), m < Len(c)
    PROVE  /\ LittleEndian(b, m) = LittleEndian(c, m) /\ BigEndian(b, m) = BigEndian(c, m)
           /\ Take(b, m) = Take(c, m)
<1>1. b[m] = c[m] /\ b[m + 1] = c[m + 1]
  OBVIOUS
<1>2. Take(b, m) = Take(c, m)
  <2>1. \A d \in Seq(Byte) : m <= Len(d) =>
          /\ Take(d, m) \in Seq(Byte) /\ Len(Take(d, m)) = m
          /\ \A i \in 1..m : Take(d, m)[i] = d[i]
    <3>1. ASSUME NEW d \in Seq(Byte), m <= Len(d)
          PROVE  /\ Take(d, m) \in Seq(Byte) /\ Len(Take(d, m)) = m
                 /\ \A i \in 1..m : Take(d, m)[i] = d[i]
      <4>1. /\ SubSeq(d, 0 + 1, m) \in Seq(Byte) /\ Len(SubSeq(d, 0 + 1, m)) = m - 0
            /\ \A i \in 1..(m - 0) : SubSeq(d, 0 + 1, m)[i] = d[0 + i]
        BY <3>1, PartIs
      <4>2. 0 + 1 = 1 /\ m - 0 = m /\ \A i \in 1..m : 0 + i = i
        OBVIOUS
      <4> QED
        BY <4>1, <4>2 DEF Take
    <3> QED
      BY <3>1
  <2>2. m <= Len(b) /\ m <= Len(c) /\ \A i \in 1..m : i \in 1..Len(b) /\ i <= Len(c)
    OBVIOUS
  <2>3. ASSUME NEW i \in 1..m PROVE Take(b, m)[i] = Take(c, m)[i]
    BY <2>1, <2>2
  <2> QED
    BY <2>1, <2>2, <2>3, SameBytes
<1> QED
  BY <1>1, <1>2 DEF LittleEndian, BigEndian

\* What tryConsumeIapFrame makes of a piece.
IapReads(w, s, p, all, given, size) ==
    LET b == Piece(w, s, p)
        n == 6 + LittleEndian(b, 3)
    IN  /\ Len(b) < 8 => Reading(w, p, all, b, given \o <<>>, "idle", size)
        /\ ~(Len(b) < 8) =>
               /\ ~(n < 10 \/ n > 4102)
               /\ Len(b) < n => Reading(w, p, all, b, given \o <<>>, "idle", size)
               /\ ~(Len(b) < n) =>
                      /\ Sum16(Take(b, n - 2)) = LittleEndian(b, n - 1)
                      /\ Reading(w, p, all, Drop(b, n), given \o <<Take(b, n)>>, "outer", size)

\* The item there is an IAP frame: it is taken whole, or waited for.
LEMMA IapIsRead ==
    ASSUME NEW w, NEW s, NEW p, NEW all, NEW given, NEW size,
           Progress(w, s, p, all, given), Survives(w, s, p), w.reader = "fm",
           IapLead(Piece(w, s, p))
    PROVE  IapReads(w, s, p, all, given, size)
<1> DEFINE b == Piece(w, s, p)
<1>1. w \in Wires /\ s \in Nat /\ p \in Nat /\ s <= p /\ Span(w, s, p) /\ Placed(w, s)
  BY DEF Progress, Span
<1>2. Len(b) = p - s /\ Len(b) >= 2 /\ b[1] = 126 /\ b[2] = 231 /\ s < p
  <2>1. Len(b) >= 2 /\ b[1] = 126 /\ b[2] = 231
    BY DEF IapLead, SystemEam, Starts
  <2>2. Len(b) = p - s
    BY <1>1, PieceIs
  <2> HIDE DEF b
  <2> QED
    BY <1>1, <2>1, <2>2
<1>3. PICK k \in Items(w) : s = End(w, k - 1)
  BY <1>1, <1>2, FirstByte
<1> DEFINE c == Item(w, k)
<1>4. /\ b \in Seq(Byte) /\ c \in Seq(Byte) /\ Len(b) \in Nat /\ Len(c) \in Nat
      /\ \A i \in 1..Len(b) : i <= Len(c) => b[i] = c[i]
      /\ Looks(w, Kind(w, k), c) /\ Kind(w, k) \in Kinds
      /\ p < End(w, k) <=> Len(b) < Len(c)
  BY <1>1, <1>2, <1>3, Looking
<1>5. Kind(w, k) = "iap"
  <2>1. /\ Kind(w, k) = "noise" => b[1] \notin {85, 126}
        /\ Kind(w, k) \in {"mirror", "damaged", "frame"} => b[1] = 85
        /\ Kind(w, k) = "ack" => b[2] = 170
        /\ Kind(w, k) = "status" => b[1] = 85
    BY <1>1, <1>2, <1>3, Leads
  <2>2. Kind(w, k) # "legacy"
    <3>1. k \in Batch(w, s, p)
      BY <1>1, <1>2, <1>3, BatchIs
    <3>2. ~(Kind(w, k) = "legacy" /\ IapLead(c))
      BY <3>1 DEF Survives
    <3>3. ASSUME Kind(w, k) = "legacy" PROVE IapLead(c)
      <4>1. Len(c) >= 2
        BY <1>1, <1>2, <1>3, <3>3, Leads
      <4> HIDE DEF b, c
      <4>2. b[1] = c[1] /\ b[2] = c[2]
        BY <1>2, <1>4, <4>1
      <4> QED
        BY <1>2, <4>1, <4>2 DEF IapLead, SystemEam, Starts
    <3> HIDE DEF b, c
    <3> QED
      BY <3>2, <3>3
  <2> QED
    BY <1>2, <1>4, <2>1, <2>2 DEF Kinds
<1>6. IapLook(c)
  BY <1>4, <1>5 DEF Looks
<1> HIDE DEF b, c
<1>7. /\ Len(c) >= 10 /\ Len(c) <= 4102 /\ LittleEndian(c, 3) = Len(c) - 6
      /\ Sum16(Take(c, Len(c) - 2)) = LittleEndian(c, Len(c) - 1)
  BY <1>6 DEF IapLook, Long
<1>8. ASSUME Len(b) < Len(c) PROVE Reading(w, p, all, b, given \o <<>>, "idle", size)
  <2>1. p < End(w, k) /\ Kind(w, k) \notin Inner
    BY <1>4, <1>5, <1>8 DEF Inner
  <2> QED
    BY <1>2, <1>3, <2>1, Waits DEF b
<1>9. ASSUME ~(Len(b) < 8) PROVE 6 + LittleEndian(b, 3) = Len(c)
  <2>1. 3 \in Nat /\ 1 <= 3 /\ 3 < Len(b) /\ 3 < Len(c)
    BY <1>4, <1>7, <1>9
  <2>2. b \in Seq(Byte) /\ c \in Seq(Byte) /\ \A i \in 1..Len(b) : i <= Len(c) => b[i] = c[i]
    BY <1>4
  <2>3. LittleEndian(b, 3) = LittleEndian(c, 3)
    BY <2>1, <2>2, Agree
  <2> QED
    BY <1>4, <1>7, <2>3
<1>10. ASSUME ~(Len(b) < Len(c))
       PROVE  /\ Sum16(Take(b, Len(c) - 2)) = LittleEndian(b, Len(c) - 1)
              /\ Reading(w, p, all, Drop(b, Len(c)), given \o <<Take(b, Len(c))>>, "outer", size)
  <2>1. End(w, k) <= p /\ IsFrame(w, k)
    <3>1. ~(p < End(w, k)) /\ End(w, k) \in Nat
      BY <1>1, <1>4, <1>10, ItemIs
    <3> QED
      BY <1>1, <1>5, <3>1 DEF IsFrame
  <2>2. Reading(w, p, all, Drop(b, Len(c)), given \o <<Take(b, Len(c))>>, "outer", size)
    BY <1>3, <2>1, TakesFrame DEF b, c
  <2>3. Take(b, Len(c) - 2) = Take(c, Len(c) - 2)
    <3>1. Len(c) - 2 \in Nat /\ 1 <= Len(c) - 2 /\ Len(c) - 2 < Len(b) /\ Len(c) - 2 < Len(c)
      BY <1>4, <1>7, <1>10
    <3> QED
      BY <1>4, <3>1, Agree
  <2>4. LittleEndian(b, Len(c) - 1) = LittleEndian(c, Len(c) - 1)
    <3>1. Len(c) - 1 \in Nat /\ 1 <= Len(c) - 1 /\ Len(c) - 1 < Len(b) /\ Len(c) - 1 < Len(c)
      BY <1>4, <1>7, <1>10
    <3> QED
      BY <1>4, <3>1, Agree
  <2> QED
    BY <1>7, <2>2, <2>3, <2>4
<1>11. Len(b) < 8 => Len(b) < Len(c)
  BY <1>4, <1>7
<1>12. ASSUME ~(Len(b) < 8)
       PROVE  LET n == 6 + LittleEndian(b, 3)
              IN  /\ ~(n < 10 \/ n > 4102)
                  /\ Len(b) < n => Reading(w, p, all, b, given \o <<>>, "idle", size)
                  /\ ~(Len(b) < n) =>
                         /\ Sum16(Take(b, n - 2)) = LittleEndian(b, n - 1)
                         /\ Reading(w, p, all, Drop(b, n), given \o <<Take(b, n)>>, "outer", size)
  <2> DEFINE n == 6 + LittleEndian(b, 3)
  <2>1. n = Len(c)
    BY <1>9, <1>12
  <2> HIDE DEF n
  <2>2. ~(n < 10 \/ n > 4102)
    BY <1>4, <1>7, <2>1
  <2> QED
    BY <1>8, <1>10, <2>1, <2>2 DEF n
<1>13. Len(b) < 8 => Reading(w, p, all, b, given \o <<>>, "idle", size)
  BY <1>8, <1>11
<1> QED
  BY <1>12, <1>13 DEF b, IapReads

\* The item whose first byte is in front of a reader.
LEMMA AtFront ==
    ASSUME NEW w, NEW s, NEW p, NEW all, NEW given,
           Progress(w, s, p, all, given), s < p, Piece(w, s, p)[1] \in {85, 126}
    PROVE  \E k \in Items(w) :
              LET b == Piece(w, s, p)
                  c == Item(w, k)
              IN  /\ s = End(w, k - 1) /\ End(w, k) \in Nat
                  /\ b \in Seq(Byte) /\ c \in Seq(Byte) /\ Len(b) \in Nat /\ Len(c) \in Nat
                  /\ Len(b) = p - s /\ Len(b) > 0
                  /\ \A i \in 1..Len(b) : i <= Len(c) => b[i] = c[i]
                  /\ Looks(w, Kind(w, k), c) /\ Kind(w, k) \in Kinds /\ Kind(w, k) # "noise"
                  /\ (p < End(w, k) <=> Len(b) < Len(c)) /\ Len(c) = End(w, k) - s
                  /\ Kind(w, k) = "frame" <=> w.reader # "fm"
                  /\ Kind(w, k) \in {"mirror", "damaged", "frame"} =>
                         b[1] = 85 /\ (Len(b) >= 2 => b[2] = 170) /\ Len(c) > 4
                  /\ Kind(w, k) = "iap" =>
                         b[1] = 126 /\ (Len(b) >= 2 => b[2] = 231) /\ Len(c) >= 10
                  /\ Kind(w, k) = "ack" => b[1] = 126 /\ AckPrefix(b) /\ Len(c) = 13
                                           /\ (Len(b) >= 2 => b[2] = 170)
                  /\ Kind(w, k) = "status" =>
                         b[1] = 85 /\ (Len(b) >= 2 => b[2] # 170) /\ Len(c) = 19
                  /\ Kind(w, k) = "legacy" =>
                         /\ b[1] = 126 /\ Len(c) >= 2
                         /\ AckPrefix(b) => Len(b) < Len(c) /\ Len(b) < 13
<1> DEFINE b == Piece(w, s, p)
<1>1. w \in Wires /\ s \in Nat /\ p \in Nat /\ s <= p /\ Span(w, s, p) /\ Placed(w, s)
  BY DEF Progress, Span
<1>2. PICK k \in Items(w) : s = End(w, k - 1)
  BY <1>1, FirstByte
<1> DEFINE c == Item(w, k)
<1>3. /\ b \in Seq(Byte) /\ c \in Seq(Byte) /\ Len(b) \in Nat /\ Len(c) \in Nat
      /\ Len(b) = p - s /\ Len(b) > 0
      /\ \A i \in 1..Len(b) : i <= Len(c) => b[i] = c[i]
      /\ Looks(w, Kind(w, k), c) /\ Kind(w, k) \in Kinds
      /\ (p < End(w, k) <=> Len(b) < Len(c)) /\ Len(c) = End(w, k) - s
  BY <1>1, <1>2, Looking
<1>4. /\ Kind(w, k) = "noise" => b[1] \notin {85, 126}
      /\ Kind(w, k) \in {"mirror", "damaged", "frame"} =>
             b[1] = 85 /\ (Len(b) >= 2 => b[2] = 170) /\ Len(c) > 4
      /\ Kind(w, k) = "iap" => b[1] = 126 /\ (Len(b) >= 2 => b[2] = 231) /\ Len(c) >= 10
      /\ Kind(w, k) = "ack" => b[1] = 126 /\ AckPrefix(b) /\ Len(c) = 13
                               /\ (Len(b) >= 2 => b[2] = 170)
      /\ Kind(w, k) = "status" => b[1] = 85 /\ (Len(b) >= 2 => b[2] # 170) /\ Len(c) = 19
      /\ Kind(w, k) = "legacy" => /\ b[1] = 126 /\ Len(c) >= 2
                                  /\ AckPrefix(b) => Len(b) < Len(c) /\ Len(b) < 13
  BY <1>1, <1>2, Leads
<1>5. Kind(w, k) \in Kinds /\ Kind(w, k) # "noise"
  BY <1>3, <1>4
<1>6. Kind(w, k) = "frame" <=> w.reader # "fm"
  <2>1. (Kind(w, k) \in {"frame", "noise"}) \/ w.reader = "fm"
    BY <1>1, WiresAssumption
  <2>2. Kind(w, k) = "frame" => w.reader # "fm"
    BY <1>1, WiresAssumption
  <2> QED
    BY <1>5, <2>1, <2>2
<1>7. End(w, k) \in Nat
  BY <1>1, ItemIs
<1> HIDE DEF b, c
<1> QED
  BY <1>2, <1>3, <1>4, <1>5, <1>6, <1>7 DEF b, c

\* tryConsumeUpgradeAck reads an acknowledgement and waits for what may be one.
LEMMA AckIsRead ==
    ASSUME NEW w, NEW s, NEW p, NEW all, NEW given, NEW size,
           Progress(w, s, p, all, given), Survives(w, s, p), w.reader = "fm", s < p,
           AckLead(Piece(w, s, p))
    PROVE  LET b == Piece(w, s, p)
           IN  /\ Len(b) < 13 => Reading(w, p, all, b, given \o <<>>, "idle", size)
               /\ ~(Len(b) < 13) =>
                      Reading(w, p, all, Drop(b, 13), given \o <<Take(b, 13)>>, "outer", size)
<1> DEFINE b == Piece(w, s, p)
<1>1. b[1] = 126 /\ ~(Len(b) >= 2 /\ b[2] = 231) /\ AckPrefix(b)
  BY DEF AckLead, IapLead, SystemEam, Starts
<1>2. PICK k \in Items(w) :
        /\ s = End(w, k - 1) /\ End(w, k) \in Nat
        /\ Len(b) \in Nat /\ Len(Item(w, k)) \in Nat /\ Len(b) = p - s
        /\ Kind(w, k) \in Kinds /\ Kind(w, k) # "noise"
        /\ p < End(w, k) <=> Len(b) < Len(Item(w, k))
        /\ Kind(w, k) = "frame" <=> w.reader # "fm"
        /\ Kind(w, k) \in {"mirror", "damaged", "frame"} => b[1] = 85
        /\ Kind(w, k) = "iap" => (Len(b) >= 2 => b[2] = 231) /\ Len(Item(w, k)) >= 10
        /\ Kind(w, k) = "ack" => Len(Item(w, k)) = 13
        /\ Kind(w, k) = "status" => b[1] = 85
        /\ Kind(w, k) = "legacy" =>
               (AckPrefix(b) => Len(b) < Len(Item(w, k)) /\ Len(b) < 13)
  BY <1>1, AtFront
<1> HIDE DEF b
<1>3. CASE Kind(w, k) = "ack"
  <2>1. p < End(w, k) => Reading(w, p, all, b, given \o <<>>, "idle", size)
    <3>1. Kind(w, k) \notin Inner
      BY <1>3 DEF Inner
    <3> QED
      BY <1>2, <3>1, Waits DEF b
  <2>2. ASSUME End(w, k) <= p
        PROVE  Reading(w, p, all, Drop(b, 13), given \o <<Take(b, 13)>>, "outer", size)
    <3> DEFINE n == Len(Item(w, k))
    <3>1. IsFrame(w, k) /\ n = 13
      BY <1>2, <1>3 DEF IsFrame
    <3>3. s = End(w, k - 1)
      BY <1>2
    <3> HIDE DEF n
    <3>2. Reading(w, p, all, Drop(b, n), given \o <<Take(b, n)>>, "outer", size)
      BY <2>2, <3>1, <3>3, TakesFrame DEF b, n
    <3> QED
      BY <3>1, <3>2
  <2>4. p \in Nat
    BY DEF Progress, Span
  <2>5. p < End(w, k) <=> Len(b) < Len(Item(w, k))
    BY <1>2
  <2>6. Kind(w, k) = "ack" => Len(Item(w, k)) = 13
    BY <1>2
  <2>7. Len(Item(w, k)) = 13
    BY <1>3, <2>6
  <2>3. p < End(w, k) <=> Len(b) < 13
    BY <2>5, <2>7
  <2> QED
    BY <1>2, <2>1, <2>2, <2>3, <2>4 DEF b
<1>4. CASE Kind(w, k) \in {"iap", "legacy"}
  <2>1. Len(b) < 13 /\ Len(b) < Len(Item(w, k))
    BY <1>1, <1>2, <1>4
  <2>2. Reading(w, p, all, b, given \o <<>>, "idle", size)
    BY <1>1, <1>2, <2>1, Waits DEF b
  <2> QED
    BY <2>1, <2>2 DEF b
<1> QED
  BY <1>1, <1>2, <1>3, <1>4 DEF Kinds

\* tryConsumeUpgradeStatusFrame reads a status frame.
LEMMA StatusIsRead ==
    ASSUME NEW w, NEW s, NEW p, NEW all, NEW given, NEW size,
           Progress(w, s, p, all, given), Survives(w, s, p), w.reader = "fm", s < p,
           StatusLead(Piece(w, s, p))
    PROVE  LET b == Piece(w, s, p)
           IN  /\ Len(b) < 19 => Reading(w, p, all, b, given \o <<>>, "idle", size)
               /\ ~(Len(b) < 19) =>
                      Reading(w, p, all, Drop(b, 19), given \o <<Take(b, 19)>>, "outer", size)
<1> DEFINE b == Piece(w, s, p)
<1>1. Len(b) >= 2 /\ b[1] = 85 /\ b[2] # 170
  BY DEF StatusLead
<1>2. PICK k \in Items(w) :
        /\ s = End(w, k - 1) /\ End(w, k) \in Nat
        /\ Len(b) \in Nat /\ Len(Item(w, k)) \in Nat /\ Len(b) = p - s
        /\ Kind(w, k) \in Kinds /\ Kind(w, k) # "noise"
        /\ p < End(w, k) <=> Len(b) < Len(Item(w, k))
        /\ Kind(w, k) \in {"mirror", "damaged", "frame"} => (Len(b) >= 2 => b[2] = 170)
        /\ Kind(w, k) = "iap" => b[1] = 126
        /\ Kind(w, k) = "ack" => b[1] = 126
        /\ Kind(w, k) = "status" => Len(Item(w, k)) = 19
        /\ Kind(w, k) = "legacy" => b[1] = 126
  BY <1>1, AtFront
<1> HIDE DEF b
<1>3. Kind(w, k) = "status"
  BY <1>1, <1>2 DEF Kinds
<1>4. p < End(w, k) => Reading(w, p, all, b, given \o <<>>, "idle", size)
  <2>1. Kind(w, k) \notin Inner
    BY <1>3 DEF Inner
  <2> QED
    BY <1>2, <2>1, Waits DEF b
<1>5. ASSUME End(w, k) <= p
      PROVE  Reading(w, p, all, Drop(b, 19), given \o <<Take(b, 19)>>, "outer", size)
  <2> DEFINE n == Len(Item(w, k))
  <2>1. IsFrame(w, k) /\ n = 19
    BY <1>2, <1>3 DEF IsFrame
  <2>3. s = End(w, k - 1)
    BY <1>2
  <2> HIDE DEF n
  <2>2. Reading(w, p, all, Drop(b, n), given \o <<Take(b, n)>>, "outer", size)
    BY <1>5, <2>1, <2>3, TakesFrame DEF b, n
  <2> QED
    BY <2>1, <2>2
<1>7. p \in Nat
  BY DEF Progress, Span
<1>6. p < End(w, k) <=> Len(b) < 19
  BY <1>2, <1>3
<1> QED
  BY <1>2, <1>4, <1>5, <1>6, <1>7 DEF b

\* What is behind an item that an inner loop reads is of its kind.
LEMMA BatchAlike ==
    ASSUME NEW w \in Wires, NEW p \in Nat, NEW k \in Items(w), End(w, k - 1) < p,
           w.reader = "fm", Survives(w, End(w, k - 1), p), Kind(w, k) \in Inner
    PROVE  \A j \in Batch(w, End(w, k - 1), p) :
              /\ Kind(w, j) = Kind(w, k)
              /\ Kind(w, k) = "mirror" => j = k \/ p # End(w, j - 1) + 1
<1> DEFINE B == Batch(w, End(w, k - 1), p)
<1>1. k \in B /\ \A j \in B : j = k \/ k < j
  BY BatchIs
<1>2. \A i, j \in B :
        i < j => \/ Kind(w, i) \notin Inner
                 \/ /\ Kind(w, i) = Kind(w, j)
                    /\ Kind(w, i) = "mirror" => p # End(w, j - 1) + 1
  BY DEF Survives, Inner
<1> HIDE DEF B
<1>3. ASSUME NEW j \in B
      PROVE  /\ Kind(w, j) = Kind(w, k)
             /\ Kind(w, k) = "mirror" => j = k \/ p # End(w, j - 1) + 1
  <2>1. CASE j = k
    BY <2>1
  <2>2. CASE k < j
    <3>1. \/ Kind(w, k) \notin Inner
          \/ /\ Kind(w, k) = Kind(w, j)
             /\ Kind(w, k) = "mirror" => p # End(w, j - 1) + 1
      BY <1>1, <1>2, <2>2
    <3> QED
      BY <3>1
  <2> QED
    BY <1>1, <2>1, <2>2
<1> QED
  BY <1>3 DEF B

\* What the rest of the outer loop makes of it.
RestReads(w, s, p, all, given) ==
    LET b == Piece(w, s, p)
    IN  /\ b[1] = 126 => Reading(w, p, all, b, given \o <<>>, "legacy", Len(b))
        /\ HasHeader(b) => Reading(w, p, all, b, given \o <<>>, "mirror", Len(b))
        /\ b = << 85 >> => Reading(w, p, all, b, given \o <<>>, "idle", Len(b))
        /\ b[1] # 126 /\ ~HasHeader(b) /\ b # << 85 >> =>
               Reading(w, p, all, Tail(b), given \o <<>>, "outer", Len(b))

\* What else can be there, and which loop it is left to.
LEMMA RestIsRead ==
    ASSUME NEW w, NEW s, NEW p, NEW all, NEW given,
           Progress(w, s, p, all, given), Survives(w, s, p), w.reader = "fm", s < p,
           ~IapLead(Piece(w, s, p)), ~AckLead(Piece(w, s, p)), ~StatusLead(Piece(w, s, p))
    PROVE  RestReads(w, s, p, all, given)
<1> DEFINE b == Piece(w, s, p)
<1>1. w \in Wires /\ s \in Nat /\ p \in Nat /\ s <= p /\ p <= Len(w.bytes) /\ Span(w, s, p)
      /\ Placed(w, s)
  BY DEF Progress, Span
<1>2. /\ b \in Seq(Byte) /\ Len(b) = p - s /\ \A i \in 1..(p - s) : b[i] = w.bytes[s + i]
      /\ Len(b) \in Nat /\ Len(b) > 0
  <2>0. Span(w, s, p)
    BY <1>1
  <2>1. b \in Seq(Byte) /\ Len(b) = p - s /\ \A i \in 1..(p - s) : b[i] = w.bytes[s + i]
    BY <2>0, PieceIs
  <2> HIDE DEF b
  <2>2. Len(b) \in Nat /\ Len(b) > 0
    BY <1>1, <2>1
  <2> QED
    BY <2>1, <2>2
<1>3. ASSUME b[1] \in {85, 126}
      PROVE  \E k \in Items(w) :
        /\ s = End(w, k - 1) /\ End(w, k) \in Nat
        /\ Len(b) \in Nat /\ Len(Item(w, k)) \in Nat /\ Len(b) = p - s
        /\ Kind(w, k) \in Kinds /\ Kind(w, k) # "noise"
        /\ p < End(w, k) <=> Len(b) < Len(Item(w, k))
        /\ Kind(w, k) # "frame"
        /\ Kind(w, k) \in {"mirror", "damaged"} =>
               b[1] = 85 /\ (Len(b) >= 2 => b[2] = 170) /\ Len(Item(w, k)) > 4
        /\ Kind(w, k) = "iap" => b[1] = 126 /\ (Len(b) >= 2 => b[2] = 231)
        /\ Kind(w, k) = "ack" => b[1] = 126 /\ AckPrefix(b)
        /\ Kind(w, k) = "status" =>
               b[1] = 85 /\ (Len(b) >= 2 => b[2] # 170) /\ Len(Item(w, k)) = 19
        /\ Kind(w, k) = "legacy" => b[1] = 126
  BY <1>3, AtFront
<1> HIDE DEF b
<1>4. ASSUME NEW k \in Items(w), s = End(w, k - 1), Kind(w, k) \in Inner
      PROVE  /\ Start(w, s)
             /\ \A j \in Batch(w, s, p) :
                   /\ Kind(w, j) = Kind(w, k)
                   /\ Kind(w, k) = "mirror" => j = k \/ p # End(w, j - 1) + 1
  <2>1. Start(w, s)
    BY <1>1, <1>4, EndsAre DEF Start
  <2> QED
    BY <1>1, <1>4, <2>1, BatchAlike
<1>5. ASSUME b[1] = 126 PROVE Reading(w, p, all, b, given \o <<>>, "legacy", Len(b))
  <2>1. PICK k \in Items(w) :
          /\ s = End(w, k - 1)
          /\ Kind(w, k) \in Kinds /\ Kind(w, k) # "noise" /\ Kind(w, k) # "frame"
          /\ Kind(w, k) \in {"mirror", "damaged"} => b[1] = 85
          /\ Kind(w, k) = "iap" => (Len(b) >= 2 => b[2] = 231)
          /\ Kind(w, k) = "ack" => AckPrefix(b)
          /\ Kind(w, k) = "status" => b[1] = 85
    BY <1>3, <1>5
  <2>2. ~(Len(b) >= 2 /\ b[2] = 231) /\ ~AckPrefix(b)
    BY <1>5 DEF IapLead, SystemEam, AckLead, Starts, b
  <2>3. Len(b) >= 2
    <3>1. ASSUME Len(b) = 1 PROVE AckPrefix(b)
      <4>1. UpgradeAck[1] = 126
        BY DEF UpgradeAck
      <4>2. ASSUME NEW i \in 1..13, i <= Len(b) PROVE b[i] = UpgradeAck[i]
        <5>1. i = 1
          BY <3>1, <4>2
        <5> QED
          BY <1>5, <4>1, <5>1
      <4> QED
        BY <4>2 DEF AckPrefix
    <3>2. Len(b) # 1
      BY <2>2, <3>1
    <3> QED
      BY <1>2, <3>2
  <2>4. Kind(w, k) = "legacy"
    BY <1>5, <2>1, <2>2, <2>3 DEF Kinds
  <2>5. Start(w, s) /\ \A j \in Batch(w, s, p) : Kind(w, j) = "legacy"
    <3>1. Kind(w, k) \in Inner
      BY <2>4 DEF Inner
    <3> QED
      BY <1>4, <2>1, <2>4, <3>1
  <2>6. InLegacy(w, s, p, Len(b))
    BY <1>1, <1>2, <2>2, <2>3, <2>5 DEF InLegacy, b
  <2>7. Stands(w, s, p, "legacy", Len(b))
    BY <2>6 DEF Stands
  <2> QED
    BY <2>7, GoesOn DEF b
<1>6. ASSUME HasHeader(b) PROVE Reading(w, p, all, b, given \o <<>>, "mirror", Len(b))
  <2>0. Len(b) >= 2 /\ b[1] = 85 /\ b[2] = 170
    BY <1>6 DEF HasHeader, Starts
  <2>1. PICK k \in Items(w) :
          /\ s = End(w, k - 1)
          /\ Kind(w, k) \in Kinds /\ Kind(w, k) # "noise" /\ Kind(w, k) # "frame"
          /\ Kind(w, k) = "iap" => b[1] = 126
          /\ Kind(w, k) = "ack" => b[1] = 126
          /\ Kind(w, k) = "status" => (Len(b) >= 2 => b[2] # 170)
          /\ Kind(w, k) = "legacy" => b[1] = 126
    BY <1>3, <2>0
  <2>2. Kind(w, k) = "mirror" \/ Kind(w, k) = "damaged"
    BY <2>0, <2>1 DEF Kinds
  <2>3. /\ Start(w, s)
        /\ \A j \in Batch(w, s, p) :
              /\ Kind(w, j) = Kind(w, k)
              /\ Kind(w, k) = "mirror" => j = k \/ p # End(w, j - 1) + 1
    <3>1. Kind(w, k) \in Inner
      BY <2>2 DEF Inner
    <3> QED
      BY <1>4, <2>1, <3>1
  <2>4. p # End(w, k - 1) + 1
    BY <1>1, <1>2, <2>0, <2>1
  <2>5. \/ \A j \in Batch(w, s, p) : Kind(w, j) = "mirror" /\ p # End(w, j - 1) + 1
        \/ \A j \in Batch(w, s, p) : Kind(w, j) = "damaged"
    <3>1. CASE Kind(w, k) = "mirror"
      BY <2>3, <2>4, <3>1
    <3>2. CASE Kind(w, k) = "damaged"
      BY <2>3, <3>2
    <3> QED
      BY <2>2, <3>1, <3>2
  <2>6. InMirror(w, s, p, Len(b))
    <3>1. 2 <= Len(b) /\ p - s <= Len(b) /\ p - s = Len(b)
      BY <1>1, <1>2, <2>0
    <3> QED
      BY <2>3, <2>5, <3>1 DEF InMirror
  <2>7. Stands(w, s, p, "mirror", Len(b))
    BY <2>6 DEF Stands
  <2> QED
    BY <2>7, GoesOn DEF b
<1>7. ASSUME b = << 85 >> PROVE Reading(w, p, all, b, given \o <<>>, "idle", Len(b))
  <2>0. Len(b) = 1 /\ b[1] = 85
    BY <1>7
  <2>1. PICK k \in Items(w) :
          /\ s = End(w, k - 1)
          /\ Kind(w, k) \in Kinds /\ Kind(w, k) # "noise" /\ Kind(w, k) # "frame"
          /\ p < End(w, k) <=> Len(b) < Len(Item(w, k))
          /\ Kind(w, k) \in {"mirror", "damaged"} => Len(Item(w, k)) > 4
          /\ Kind(w, k) = "iap" => b[1] = 126
          /\ Kind(w, k) = "ack" => b[1] = 126
          /\ Kind(w, k) = "status" => Len(Item(w, k)) = 19
          /\ Kind(w, k) = "legacy" => b[1] = 126
          /\ Len(Item(w, k)) \in Nat
    BY <1>3, <2>0
  <2>2. Len(Item(w, k)) > 4 \/ Len(Item(w, k)) = 19
    <3>1. Kind(w, k) \in {"mirror", "damaged"} \/ Kind(w, k) = "status"
      BY <2>0, <2>1 DEF Kinds
    <3> QED
      BY <2>1, <3>1
  <2>4. Len(b) < Len(Item(w, k))
    BY <2>0, <2>2
  <2>3. p < End(w, k) /\ p = s + 1
    <3>3. p \in Nat /\ s \in Nat /\ p - s = 1
      BY <1>1, <1>2, <2>0
    <3>1. p = s + 1
      BY <3>3
    <3>2. p < End(w, k)
      BY <2>1, <2>4
    <3> QED
      BY <3>1, <3>2
  <2> QED
    BY <2>1, <2>3, Waits DEF b
<1>8. ASSUME b[1] # 126, ~HasHeader(b), b # << 85 >>
      PROVE  Reading(w, p, all, Tail(b), given \o <<>>, "outer", Len(b))
  <2>1. b[1] # 85
    <3>1. ASSUME b[1] = 85 PROVE FALSE
      <4>1. ~(Len(b) >= 2)
        BY <1>8, <3>1 DEF StatusLead, HasHeader, Starts, b
      <4>2. Len(b) = 1
        BY <1>1, <1>2, <4>1
      <4>3. b = << 85 >>
        <5>1. << 85 >> \in Seq(Byte) /\ Len(<< 85 >>) = 1 /\ << 85 >>[1] = 85
          BY DEF Byte
        <5>2. \A i \in 1..Len(b) : b[i] = << 85 >>[i]
          BY <3>1, <4>2, <5>1
        <5> QED
          BY <1>2, <4>2, <5>1, <5>2, SameBytes
      <4> QED
        BY <1>8, <4>3
    <3> QED
      BY <3>1
  <2>2. w.bytes[s + 1] \notin {85, 126}
    BY <1>1, <1>2, <1>8, <2>1
  <2>3. Progress(w, s + 1, p, all, given)
    BY <2>2, PassesByte
  <2>4. Span(w, s, s + 1) /\ Span(w, s + 1, p) /\ Tail(b) = Piece(w, s + 1, p)
    BY <1>1, TailIs DEF b
  <2>6. Survives(w, s + 1, p)
    BY <2>4, SurvivesRest
  <2>7. Stands(w, s + 1, p, "outer", Len(b))
    BY <2>6 DEF Stands
  <2> QED
    BY <2>3, <2>4, <2>7, GoesOn
<1> QED
  BY <1>5, <1>6, <1>7, <1>8 DEF b, RestReads

\* An item starts where a reader stands at a start.
LEMMA StartsItem ==
    ASSUME NEW w, NEW s, NEW p, Span(w, s, p), s < p, Start(w, s)
    PROVE  \E k \in Items(w) : s = End(w, k - 1) /\ k \in Batch(w, s, p)
<1>1. w \in Wires /\ s \in Nat /\ p \in Nat /\ p <= Len(w.bytes)
  BY DEF Span
<1>2. PICK j \in 0..Len(w.items) : s = End(w, j)
  BY DEF Start
<1>3. Len(w.items) \in Nat /\ Len(w.bytes) \in Nat /\ End(w, Len(w.items)) = Len(w.bytes)
  BY <1>1, EndsAre
<1>4. j # Len(w.items)
  BY <1>1, <1>2, <1>3
<1> DEFINE k == j + 1
<1>5. k \in Items(w) /\ k - 1 = j
  BY <1>3, <1>4 DEF Items
<1> HIDE DEF k
<1>6. s = End(w, k - 1)
  BY <1>2, <1>5
<1>7. k \in Batch(w, s, p)
  BY <1>1, <1>5, <1>6, BatchIs
<1> QED
  BY <1>5, <1>6, <1>7

\* A frame an inner loop takes, and what is left of its batch.
LEMMA TakesOfBatch ==
    ASSUME NEW w, NEW s, NEW p, NEW all, NEW given, NEW k \in Items(w), IsFrame(w, k),
           Progress(w, s, p, all, given), Survives(w, s, p), s = End(w, k - 1), ~(p < End(w, k))
    PROVE  LET n == Len(Item(w, k))
               e == End(w, k)
           IN  /\ e \in Nat /\ s < e /\ e <= p /\ Start(w, e) /\ Survives(w, e, p)
               /\ Batch(w, e, p) \subseteq Batch(w, s, p)
               /\ Take(Piece(w, s, p), n) = Item(w, k)
               /\ Drop(Piece(w, s, p), n) = Piece(w, e, p)
               /\ Progress(w, e, p, all, given \o <<Take(Piece(w, s, p), n)>>)
<1>1. w \in Wires /\ s \in Nat /\ p \in Nat
  BY DEF Progress, Span
<1>2. End(w, k) \in Nat /\ s < End(w, k)
  BY <1>1, ItemIs
<1>3. End(w, k) <= p
  BY <1>1, <1>2
<1>4. Start(w, End(w, k))
  BY <1>1, EndsAre DEF Start
<1>5. /\ Take(Piece(w, s, p), Len(Item(w, k))) = Item(w, k)
      /\ Drop(Piece(w, s, p), Len(Item(w, k))) = Piece(w, End(w, k), p)
      /\ Span(w, s, End(w, k)) /\ Span(w, End(w, k), p)
      /\ Progress(w, End(w, k), p, all, given \o <<Take(Piece(w, s, p), Len(Item(w, k)))>>)
  BY <1>3, TakesFrame
<1>6. Survives(w, End(w, k), p) /\ Batch(w, End(w, k), p) \subseteq Batch(w, s, p)
  BY <1>5, SurvivesRest
<1> QED
  BY <1>2, <1>3, <1>4, <1>5, <1>6

\* What an iteration of consumeLegacy makes of it.
LegacyReads(w, s, p, all, given, size) ==
    LET b == Piece(w, s, p)
        param == Len(b) >= 2 /\ b[2] \in ParamCommands
        n == IF param THEN 5 + LittleEndian(b, 3) ELSE LegacyLength(b[2], w.bits)
    IN  /\ b[1] = 126
        /\ Len(b) < 2 => p - s # size
        /\ param /\ Len(b) < 4 => (p - s = size => Spins(w, s, p))
        /\ ~(Len(b) < 2) /\ ~(param /\ Len(b) < 4) =>
               /\ ~(param /\ (n < 9 \/ n > 8192))
               /\ Len(b) < n => (p - s = size => Spins(w, s, p))
               /\ ~(Len(b) < n) =>
                      /\ Sealed(Take(b, n))
                      /\ Reading(w, p, all, Drop(b, n), given \o <<Take(b, n)>>, "legacy", size)

\* consumeLegacy takes the frames of a batch and stops at one it must wait for.
LEMMA LegacyIsRead ==
    ASSUME NEW w, NEW s, NEW p, NEW all, NEW given, NEW size,
           Progress(w, s, p, all, given), Survives(w, s, p), w.reader = "fm", s < p,
           size \in Nat, InLegacy(w, s, p, size)
    PROVE  LegacyReads(w, s, p, all, given, size)
<1> DEFINE b == Piece(w, s, p)
<1>1. w \in Wires /\ s \in Nat /\ p \in Nat /\ Span(w, s, p)
  BY DEF Progress, Span
<1>2. 2 <= size /\ p - s <= size /\ Start(w, s)
      /\ (\A k \in Batch(w, s, p) : Kind(w, k) = "legacy") /\ (p - s = size => ~AckPrefix(b))
  BY DEF InLegacy
<1>3. PICK k \in Items(w) : s = End(w, k - 1) /\ k \in Batch(w, s, p)
  BY <1>1, <1>2, StartsItem
<1> DEFINE c == Item(w, k)
<1>4. /\ b \in Seq(Byte) /\ c \in Seq(Byte) /\ Len(b) \in Nat /\ Len(c) \in Nat
      /\ Len(b) = p - s /\ Len(b) > 0
      /\ \A i \in 1..Len(b) : i <= Len(c) => b[i] = c[i]
      /\ Looks(w, Kind(w, k), c)
      /\ (p < End(w, k) <=> Len(b) < Len(c))
      /\ ~(p < End(w, k)) => Take(b, Len(c)) = c /\ Drop(b, Len(c)) = Piece(w, End(w, k), p)
  BY <1>1, <1>3, Looking
<1>5. Kind(w, k) = "legacy" /\ LegacyLook(c, w.bits)
  BY <1>2, <1>3, <1>4 DEF Looks
<1> HIDE DEF b, c
<1>6. /\ Len(c) >= 2 /\ c[1] = 126 /\ Sealed(c)
      /\ c[2] \in ParamCommands => Len(c) >= 9 /\ Len(c) <= 8192 /\ Len(c) = 5 + LittleEndian(c, 3)
      /\ c[2] \notin ParamCommands => Len(c) = LegacyLength(c[2], w.bits)
  BY <1>5 DEF LegacyLook, Long
<1>7. b[1] = 126 /\ (Len(b) >= 2 => b[2] = c[2])
  BY <1>4, <1>6
<1>8. ASSUME Len(b) < Len(c), p - s = size PROVE Spins(w, s, p)
  <2>1. p < End(w, k) /\ s + 2 <= p /\ ~AckPrefix(Piece(w, s, p)) /\ Kind(w, k) \in Inner
    BY <1>1, <1>2, <1>4, <1>5, <1>8 DEF Inner, b
  <2> QED
    BY <1>3, <2>1 DEF Spins
<1>9. ASSUME ~(Len(b) < Len(c))
      PROVE  /\ Sealed(Take(b, Len(c)))
             /\ Reading(w, p, all, Drop(b, Len(c)), given \o <<Take(b, Len(c))>>, "legacy", size)
  <2> DEFINE e == End(w, k)
             more == given \o <<Take(b, Len(c))>>
  <2>1. IsFrame(w, k) /\ ~(p < e)
    BY <1>4, <1>5, <1>9 DEF IsFrame
  <2> HIDE DEF e, more
  <2>2. /\ e \in Nat /\ s < e /\ e <= p /\ Start(w, e) /\ Survives(w, e, p)
        /\ Batch(w, e, p) \subseteq Batch(w, s, p)
        /\ Take(b, Len(c)) = c /\ Drop(b, Len(c)) = Piece(w, e, p)
        /\ Progress(w, e, p, all, more)
    <3>1. s = End(w, k - 1)
      BY <1>3
    <3>2. IsFrame(w, k) /\ ~(p < End(w, k))
      BY <2>1 DEF e
    <3>3. /\ e \in Nat /\ s < e /\ e <= p /\ Start(w, e) /\ Survives(w, e, p)
          /\ Batch(w, e, p) \subseteq Batch(w, s, p)
      BY <3>1, <3>2, TakesOfBatch DEF e
    <3>4. Take(b, Len(c)) = c /\ Drop(b, Len(c)) = Piece(w, e, p)
      BY <1>4, <3>2 DEF e
    <3>5. Progress(w, e, p, all, more)
      BY <3>1, <3>2, TakesOfBatch DEF b, c, e, more
    <3> QED
      BY <3>3, <3>4, <3>5
  <2>3. InLegacy(w, e, p, size)
    <3>1. p - e <= size /\ p - e # size
      BY <1>1, <1>2, <2>2
    <3> QED
      BY <1>2, <2>2, <3>1 DEF InLegacy
  <2>4. Stands(w, e, p, "legacy", size)
    BY <2>2, <2>3 DEF Stands
  <2>5. Reading(w, p, all, Piece(w, e, p), more, "legacy", size)
    BY <2>2, <2>4, GoesOn
  <2> QED
    BY <1>6, <2>2, <2>5 DEF more
<1> DEFINE param == Len(b) >= 2 /\ b[2] \in ParamCommands
           n == IF param THEN 5 + LittleEndian(b, 3) ELSE LegacyLength(b[2], w.bits)
<1>10. ASSUME ~(Len(b) < 2), ~(param /\ Len(b) < 4)
       PROVE  n = Len(c) /\ ~(param /\ (n < 9 \/ n > 8192))
  <2>1. CASE b[2] \in ParamCommands
    <3>1. Len(b) >= 4 /\ n = 5 + LittleEndian(b, 3)
      BY <1>4, <1>10, <2>1
    <3>2. c[2] \in ParamCommands
      BY <1>7, <2>1, <3>1
    <3>5. 3 < Len(b) /\ 3 < Len(c)
      BY <1>4, <1>6, <3>1, <3>2
    <3>6. b \in Seq(Byte) /\ c \in Seq(Byte) /\ \A i \in 1..Len(b) : i <= Len(c) => b[i] = c[i]
      BY <1>4
    <3>3. LittleEndian(b, 3) = LittleEndian(c, 3)
      BY <3>5, <3>6, Agree
    <3>4. n = Len(c)
      BY <1>6, <3>1, <3>2, <3>3
    <3> HIDE DEF n
    <3> QED
      BY <1>4, <1>6, <3>2, <3>4
  <2>2. CASE b[2] \notin ParamCommands
    BY <1>6, <1>7, <1>10, <2>2
  <2> QED
    BY <2>1, <2>2
<1>11. param /\ Len(b) < 4 => Len(b) < Len(c)
  BY <1>4, <1>6, <1>7
<1>12. Len(b) < 2 => p - s # size
  BY <1>1, <1>2, <1>4
<1>13. param /\ Len(b) < 4 => (p - s = size => Spins(w, s, p))
  BY <1>8, <1>11
<1>14. ASSUME ~(Len(b) < 2), ~(param /\ Len(b) < 4)
       PROVE  /\ ~(param /\ (n < 9 \/ n > 8192))
              /\ Len(b) < n => (p - s = size => Spins(w, s, p))
              /\ ~(Len(b) < n) =>
                     /\ Sealed(Take(b, n))
                     /\ Reading(w, p, all, Drop(b, n), given \o <<Take(b, n)>>, "legacy", size)
  <2>1. n = Len(c) /\ ~(param /\ (n < 9 \/ n > 8192))
    BY <1>10, <1>14
  <2> HIDE DEF n, param
  <2> QED
    BY <1>8, <1>9, <2>1
<1> QED
  BY <1>7, <1>12, <1>13, <1>14 DEF b, LegacyReads

\* What is seen of a 55AA frame of the mirror.
LEMMA MirrorPiece ==
    ASSUME NEW w, NEW p, NEW k \in Items(w), Kind(w, k) \in {"mirror", "damaged"},
           Span(w, End(w, k - 1), p), End(w, k - 1) + 2 <= p
    PROVE  LET c == Piece(w, End(w, k - 1), p)
               f == Item(w, k)
           IN  /\ HasHeader(c) /\ c # <<>> /\ ~AckPrefix(c) /\ Len(c) = p - End(w, k - 1)
               /\ Len(f) >= 6 /\ Len(f) \in Nat /\ Len(c) \in Nat
               /\ p < End(w, k) <=> Len(c) < Len(f)
               /\ ~(Len(c) < 4) => /\ 5 + LittleEndian(c, 3) = Len(f)
                                   /\ ~(LittleEndian(c, 3) = 0 \/ LittleEndian(c, 3) > 256)
               /\ ~(p < End(w, k)) => /\ Sealed(Take(c, Len(f))) <=> Kind(w, k) = "mirror"
                                      /\ Drop(c, Len(f)) = Piece(w, End(w, k), p)
<1> DEFINE s == End(w, k - 1)
           c == Piece(w, s, p)
           f == Item(w, k)
<1>1. w \in Wires /\ p \in Nat /\ s \in Nat /\ s < p
  <2>1. w \in Wires /\ p \in Nat /\ s \in Nat
    BY DEF Span
  <2> HIDE DEF s
  <2> QED
    BY <2>1 DEF s
<1>2. /\ c \in Seq(Byte) /\ f \in Seq(Byte) /\ Len(c) \in Nat /\ Len(f) \in Nat
      /\ Len(c) = p - s
      /\ \A i \in 1..Len(c) : i <= Len(f) => c[i] = f[i]
      /\ Looks(w, Kind(w, k), f)
      /\ (p < End(w, k) <=> Len(c) < Len(f))
      /\ ~(p < End(w, k)) => Take(c, Len(f)) = f /\ Drop(c, Len(f)) = Piece(w, End(w, k), p)
  BY <1>1, Looking
<1> HIDE DEF s, c, f
<1>3. MirrorLook(f) /\ (Sealed(f) <=> Kind(w, k) = "mirror")
  BY <1>2 DEF Looks
<1>4. /\ f[1] = 85 /\ f[2] = 170 /\ Len(f) >= 6 /\ Len(f) <= 261
      /\ LittleEndian(f, 3) = Len(f) - 5
  BY <1>3 DEF MirrorLook, HasHeader, Starts, Long
<1>5. Len(c) >= 2
  BY <1>1, <1>2 DEF s
<1>6. c[1] = 85 /\ c[2] = 170
  BY <1>2, <1>4, <1>5
<1>7. HasHeader(c) /\ c # <<>>
  BY <1>5, <1>6 DEF HasHeader, Starts
<1>8. ~AckPrefix(c)
  <2>1. UpgradeAck[1] = 126
    BY DEF UpgradeAck
  <2> QED
    BY <1>5, <1>6, <2>1 DEF AckPrefix
<1>9. ASSUME ~(Len(c) < 4)
      PROVE  /\ 5 + LittleEndian(c, 3) = Len(f)
             /\ ~(LittleEndian(c, 3) = 0 \/ LittleEndian(c, 3) > 256)
  <2>1. LittleEndian(c, 3) = LittleEndian(f, 3)
    <3>1. 3 < Len(c) /\ 3 < Len(f)
      BY <1>2, <1>4, <1>9
    <3> QED
      BY <1>2, <3>1, Agree
  <2> QED
    BY <1>2, <1>4, <2>1
<1>10. ASSUME ~(p < End(w, k)) PROVE Sealed(Take(c, Len(f))) <=> Kind(w, k) = "mirror"
  <2>1. Take(c, Len(f)) = f
    BY <1>2, <1>10
  <2> QED
    BY <1>3, <2>1
<1> QED
  BY <1>2, <1>4, <1>7, <1>8, <1>9, <1>10 DEF s, c, f

\* The bytes of a batch that consume55AA reads.
Alike(w, e, p) ==
    \/ \A j \in Batch(w, e, p) : Kind(w, j) = "mirror" /\ p # End(w, j - 1) + 1
    \/ \A j \in Batch(w, e, p) : Kind(w, j) = "damaged"

\* Where consume55AA is with a header in front of it.
AtHeader(w, e, p, all, given, size) ==
    /\ Progress(w, e, p, all, given) /\ Survives(w, e, p) /\ Alike(w, e, p)
    /\ Start(w, e) /\ e + 2 <= p /\ p - e <= size

\* What an iteration of consume55AA makes of it.
MirrorReads(w, e, p, all, given, size) ==
    LET c == Piece(w, e, p)
        length == LittleEndian(c, 3)
        n == 5 + length
    IN  /\ HasHeader(c) /\ c # <<>>
        /\ Len(c) < 4 => (p - e = size => Spins(w, e, p))
        /\ ~(Len(c) < 4) =>
               /\ ~(length = 0 \/ length > 256)
               /\ Len(c) < n => (p - e = size => Spins(w, e, p))
               /\ ~(Len(c) < n) =>
                      /\ Sealed(Take(c, n)) =>
                             Reading(w, p, all, Drop(c, n), given \o <<Take(c, n)>>, "mirror", size)
                      /\ ~Sealed(Take(c, n)) /\ Len(c) = n => (p - e = size => Spins(w, e, p))
                      /\ ~Sealed(Take(c, n)) /\ Len(c) # n =>
                             Reading(w, p, all, Tail(c), given \o <<>>, "mirror", size)

\* consume55AA takes the frames of a batch and stops at one it cannot take.
LEMMA MirrorIsRead ==
    ASSUME NEW w, NEW e, NEW p, NEW all, NEW given, NEW size \in Nat,
           AtHeader(w, e, p, all, given, size)
    PROVE  MirrorReads(w, e, p, all, given, size)
<1> DEFINE c == Piece(w, e, p)
<1>1. /\ Progress(w, e, p, all, given) /\ Survives(w, e, p) /\ Alike(w, e, p)
      /\ Start(w, e) /\ e + 2 <= p /\ p - e <= size
  BY DEF AtHeader
<1>2. w \in Wires /\ e \in Nat /\ p \in Nat /\ Span(w, e, p)
  BY <1>1 DEF Progress, Span
<1>3. e < p
  BY <1>1, <1>2
<1>4. PICK k \in Items(w) : e = End(w, k - 1) /\ k \in Batch(w, e, p)
  BY <1>1, <1>2, <1>3, StartsItem
<1> DEFINE f == Item(w, k)
<1>5. Kind(w, k) \in {"mirror", "damaged"}
  BY <1>1, <1>4 DEF Alike
<1>6. /\ HasHeader(c) /\ c # <<>> /\ ~AckPrefix(c) /\ Len(c) = p - e
      /\ Len(f) >= 6 /\ Len(f) \in Nat /\ Len(c) \in Nat
      /\ p < End(w, k) <=> Len(c) < Len(f)
      /\ ~(Len(c) < 4) => /\ 5 + LittleEndian(c, 3) = Len(f)
                          /\ ~(LittleEndian(c, 3) = 0 \/ LittleEndian(c, 3) > 256)
      /\ ~(p < End(w, k)) => /\ Sealed(Take(c, Len(f))) <=> Kind(w, k) = "mirror"
                             /\ Drop(c, Len(f)) = Piece(w, End(w, k), p)
  BY <1>1, <1>2, <1>4, <1>5, MirrorPiece
<1>7. ASSUME Len(c) < Len(f) PROVE Spins(w, e, p)
  <2>1. p < End(w, k)
    BY <1>6, <1>7
  <2>2. Kind(w, k) \in Inner /\ ~AckPrefix(Piece(w, e, p))
    BY <1>5, <1>6 DEF Inner
  <2> QED
    BY <1>1, <1>4, <2>1, <2>2 DEF Spins
<1> HIDE DEF c, f
<1>8. End(w, k) \in Nat /\ e < End(w, k) /\ Len(f) = End(w, k) - e
  BY <1>2, <1>4, ItemIs DEF f
<1>9. ASSUME ~(Len(c) < Len(f)), Sealed(Take(c, Len(f)))
      PROVE  Reading(w, p, all, Drop(c, Len(f)), given \o <<Take(c, Len(f))>>, "mirror", size)
  <2> DEFINE to == End(w, k)
             more == given \o <<Take(c, Len(f))>>
  <2>1. Kind(w, k) = "mirror" /\ ~(p < End(w, k)) /\ IsFrame(w, k)
    BY <1>6, <1>9 DEF IsFrame
  <2>2. /\ to \in Nat /\ e < to /\ to <= p /\ Start(w, to) /\ Survives(w, to, p)
        /\ Batch(w, to, p) \subseteq Batch(w, e, p)
    BY <1>1, <1>4, <2>1, TakesOfBatch
  <2>3. Progress(w, to, p, all, more)
    BY <1>1, <1>4, <2>1, TakesOfBatch DEF c, f
  <2>4. Drop(c, Len(f)) = Piece(w, to, p)
    BY <1>6, <2>1
  <2> HIDE DEF to, more
  <2>5. \A j \in Batch(w, to, p) : Kind(w, j) = "mirror" /\ p # End(w, j - 1) + 1
    <3>1. ~(\A j \in Batch(w, e, p) : Kind(w, j) = "damaged")
      BY <1>4, <2>1
    <3> QED
      BY <1>1, <2>2, <3>1 DEF Alike
  <2>6. 2 <= size /\ p - to <= size
    BY <1>1, <1>2, <2>2
  <2>7. InMirror(w, to, p, size)
    BY <2>2, <2>5, <2>6 DEF InMirror
  <2>8. Stands(w, to, p, "mirror", size)
    BY <2>2, <2>7 DEF Stands
  <2>9. Reading(w, p, all, Piece(w, to, p), more, "mirror", size)
    BY <2>3, <2>8, GoesOn
  <2> QED
    BY <2>4, <2>9 DEF more
<1>10. ASSUME ~(Len(c) < Len(f)), ~Sealed(Take(c, Len(f)))
       PROVE  /\ Kind(w, k) = "damaged" /\ \A j \in Batch(w, e, p) : Kind(w, j) = "damaged"
              /\ End(w, k) <= p
  <2>1. ~(p < End(w, k)) /\ Kind(w, k) = "damaged"
    BY <1>5, <1>6, <1>10
  <2>2. ~(\A j \in Batch(w, e, p) : Kind(w, j) = "mirror" /\ p # End(w, j - 1) + 1)
    BY <1>4, <2>1
  <2>3. \A j \in Batch(w, e, p) : Kind(w, j) = "damaged"
    BY <1>1, <2>2 DEF Alike
  <2> QED
    BY <1>2, <1>8, <2>1, <2>3
<1>11. ASSUME ~(Len(c) < Len(f)), ~Sealed(Take(c, Len(f))), Len(c) = Len(f) PROVE Spins(w, e, p)
  <2>1. p = End(w, k)
    BY <1>2, <1>6, <1>8, <1>11
  <2> QED
    BY <1>1, <1>4, <1>10, <1>11, <2>1 DEF Spins
<1>12. ASSUME ~(Len(c) < Len(f)), ~Sealed(Take(c, Len(f))), Len(c) # Len(f)
       PROVE  Reading(w, p, all, Tail(c), given \o <<>>, "mirror", size)
  <2>1. /\ Kind(w, k) = "damaged" /\ \A j \in Batch(w, e, p) : Kind(w, j) = "damaged"
        /\ End(w, k) <= p
    BY <1>10, <1>12
  <2>2. Span(w, e, e + 1) /\ Span(w, e + 1, p) /\ Tail(c) = Piece(w, e + 1, p)
    BY <1>2, <1>3, TailIs DEF c
  <2>3. Inside(w, e + 1)
    <3>1. End(w, k - 1) < e + 1 /\ e + 1 < End(w, k)
      BY <1>2, <1>4, <1>6, <1>8
    <3> QED
      BY <2>1, <3>1 DEF Inside, Cuts
  <2>4. Progress(w, e + 1, p, all, given)
    <3>1. e + 1 \in Nat /\ e <= e + 1 /\ e + 1 <= p /\ e + 1 <= End(w, k) /\ End(w, k - 1) <= e
      BY <1>2, <1>3, <1>4, <1>8
    <3>2. \A j \in Items(w) : IsFrame(w, j) => ~(e < End(w, j) /\ End(w, j) <= e + 1)
      BY <1>2, <2>1, <3>1, Within
    <3> QED
      BY <1>1, <2>3, <3>1, <3>2, Skips DEF Placed
  <2>5. Survives(w, e + 1, p) /\ Batch(w, e + 1, p) \subseteq Batch(w, e, p)
    BY <1>1, <2>2, SurvivesRest
  <2>6. 2 <= size /\ p - (e + 1) <= size /\ p - (e + 1) # size
    BY <1>1, <1>2
  <2>7. InMirror(w, e + 1, p, size)
    BY <2>1, <2>3, <2>5, <2>6 DEF InMirror
  <2>8. Stands(w, e + 1, p, "mirror", size)
    BY <2>5, <2>7 DEF Stands
  <2>9. Reading(w, p, all, Piece(w, e + 1, p), given \o <<>>, "mirror", size)
    BY <2>4, <2>8, GoesOn
  <2> QED
    BY <2>2, <2>9
<1>13. Len(c) < 4 => Spins(w, e, p)
  BY <1>6, <1>7
<1>14. ASSUME ~(Len(c) < 4)
       PROVE  LET length == LittleEndian(c, 3)
                  n == 5 + length
              IN  /\ ~(length = 0 \/ length > 256)
                  /\ Len(c) < n => (p - e = size => Spins(w, e, p))
                  /\ ~(Len(c) < n) =>
                         /\ Sealed(Take(c, n)) =>
                                Reading(w, p, all, Drop(c, n), given \o <<Take(c, n)>>, "mirror", size)
                         /\ ~Sealed(Take(c, n)) /\ Len(c) = n => (p - e = size => Spins(w, e, p))
                         /\ ~Sealed(Take(c, n)) /\ Len(c) # n =>
                                Reading(w, p, all, Tail(c), given \o <<>>, "mirror", size)
  <2> DEFINE length == LittleEndian(c, 3)
             n == 5 + length
  <2>1. n = Len(f) /\ ~(length = 0 \/ length > 256)
    BY <1>6, <1>14
  <2> HIDE DEF n
  <2>2. Len(c) < n => Spins(w, e, p)
    BY <1>7, <2>1
  <2>3. ~(Len(c) < n) /\ Sealed(Take(c, n)) =>
            Reading(w, p, all, Drop(c, n), given \o <<Take(c, n)>>, "mirror", size)
    BY <1>9, <2>1
  <2>4. ~(Len(c) < n) /\ ~Sealed(Take(c, n)) /\ Len(c) = n => Spins(w, e, p)
    BY <1>11, <2>1
  <2>5. ~(Len(c) < n) /\ ~Sealed(Take(c, n)) /\ Len(c) # n =>
            Reading(w, p, all, Tail(c), given \o <<>>, "mirror", size)
    BY <1>12, <2>1
  <2> QED
    BY <2>1, <2>2, <2>3, <2>4, <2>5 DEF n
<1>15. HasHeader(c) /\ c # <<>>
  BY <1>6
<1> QED
  BY <1>13, <1>14, <1>15 DEF c, MirrorReads

\* What consume55AA finds: a header, or nothing that could begin one.
LEMMA MirrorAhead ==
    ASSUME NEW w, NEW s, NEW p, NEW all, NEW given, NEW size \in Nat,
           Progress(w, s, p, all, given), Survives(w, s, p), InMirror(w, s, p, size)
    PROVE  LET b == Piece(w, s, p)
           IN  \/ /\ FromHeader(b) = <<>> /\ p - s < size
                  /\ s = p \/ (s < p /\ b[1] \notin {85, 126})
               \/ \E e \in Nat : FromHeader(b) = Piece(w, e, p) /\ AtHeader(w, e, p, all, given, size)
<1> DEFINE b == Piece(w, s, p)
           Blank == /\ FromHeader(b) = <<>> /\ p - s < size
                    /\ s = p \/ (s < p /\ b[1] \notin {85, 126})
           Found == \E e \in Nat : FromHeader(b) = Piece(w, e, p) /\ AtHeader(w, e, p, all, given, size)
<1>1. w \in Wires /\ s \in Nat /\ p \in Nat /\ s <= p /\ p <= Len(w.bytes) /\ Span(w, s, p)
      /\ Placed(w, s) /\ Len(w.bytes) \in Nat
  <2>1. w \in Wires /\ s \in Nat /\ p \in Nat /\ s <= p /\ p <= Len(w.bytes) /\ Span(w, s, p)
        /\ Placed(w, s)
    BY DEF Progress, Span
  <2> QED
    BY <2>1, EndsAre
<1>2. 2 <= size /\ p - s <= size
  BY DEF InMirror
<1>3. ASSUME s = p PROVE Blank
  <2>1. Span(w, s, s) /\ (\A i \in (s + 1)..s : w.bytes[i] # 85) /\ p <= s + 1
    BY <1>1, <1>3 DEF Span
  <2>2. FromHeader(b) = <<>>
    BY <1>1, <2>1, HeaderAhead
  <2> QED
    BY <1>1, <1>2, <1>3, <2>2
<1>4. ASSUME NEW e \in Nat, s <= e, Span(w, e, p), e + 2 <= p, Start(w, e), Alike(w, e, p),
             \A i \in (s + 1)..e : w.bytes[i] # 85,
             Progress(w, e, p, all, given)
      PROVE  Found
  <2>1. e < p
    BY <1>1, <1>4
  <2>2. PICK k \in Items(w) : e = End(w, k - 1) /\ k \in Batch(w, e, p)
    BY <1>4, <2>1, StartsItem
  <2>3. Kind(w, k) \in {"mirror", "damaged"}
    BY <1>4, <2>2 DEF Alike
  <2>4. HasHeader(Piece(w, e, p))
    BY <1>4, <2>2, <2>3, MirrorPiece
  <2>5. Span(w, s, e)
    BY <1>1, <1>4 DEF Span
  <2>6. FromHeader(b) = Piece(w, e, p)
    BY <1>4, <2>4, <2>5, HeaderAhead
  <2>7. Survives(w, e, p)
    BY <1>4, <2>5, SurvivesRest
  <2>8. p - e <= size
    BY <1>1, <1>2, <1>4
  <2>9. AtHeader(w, e, p, all, given, size)
    BY <1>4, <2>7, <2>8 DEF AtHeader
  <2> QED
    BY <1>4, <2>6, <2>9
<1>5. ASSUME s + 2 <= p, Start(w, s), Alike(w, s, p) PROVE Found
  <2>1. s <= s /\ \A i \in (s + 1)..s : w.bytes[i] # 85
    BY <1>1
  <2> HIDE DEF Found
  <2> QED
    BY <1>1, <1>4, <1>5, <2>1
<1>6. CASE Start(w, s) /\ \A k \in Batch(w, s, p) : Kind(w, k) = "mirror" /\ p # End(w, k - 1) + 1
  <2>1. CASE s < p
    <3>1. PICK k \in Items(w) : s = End(w, k - 1) /\ k \in Batch(w, s, p)
      BY <1>1, <1>6, <2>1, StartsItem
    <3>2. s + 2 <= p
      BY <1>1, <1>6, <2>1, <3>1
    <3>3. Alike(w, s, p)
      BY <1>6 DEF Alike
    <3> QED
      BY <1>5, <1>6, <3>2, <3>3
  <2>2. CASE s = p
    BY <1>3, <2>2
  <2> QED
    BY <1>1, <2>1, <2>2
<1>7. CASE Start(w, s) /\ p - s = size /\ \A k \in Batch(w, s, p) : Kind(w, k) = "damaged"
  <2>1. s + 2 <= p /\ Alike(w, s, p)
    BY <1>1, <1>2, <1>7 DEF Alike
  <2> QED
    BY <1>5, <1>7, <2>1
<1>8. CASE Inside(w, s) /\ p - s # size /\ \A k \in Batch(w, s, p) : Kind(w, k) = "damaged"
  <2>1. PICK k \in Items(w) : Cuts(w, s, k) /\ Kind(w, k) \in {"noise", "damaged"}
    BY <1>8 DEF Inside
  <2> DEFINE to == End(w, k)
  <2>2. to \in Nat /\ End(w, k - 1) \in Nat /\ End(w, k - 1) < s /\ s < to /\ to <= Len(w.bytes)
    BY <1>1, <2>1, ItemIs DEF Cuts
  <2>3. p - s < size
    BY <1>1, <1>2, <1>8
  <2>4. ASSUME NEW i \in (s + 1)..to PROVE w.bytes[i] \notin {85, 126}
    <3>1. PICK j : j = i - 1
      OBVIOUS
    <3>2. j \in Nat /\ End(w, k - 1) < j /\ j < to /\ j + 1 = i
      BY <1>1, <2>2, <2>4, <3>1
    <3>3. Cuts(w, j, k)
      BY <3>2 DEF Cuts
    <3>4. w.bytes[j + 1] \notin {85, 126}
      BY <1>1, <2>1, <3>2, <3>3, QuietByte
    <3> QED
      BY <3>2, <3>4
  <2> HIDE DEF to
  <2>5. CASE s = p
    BY <1>3, <2>5
  <2>6. CASE s < p /\ p <= to + 1
    <3>1. \E e \in Nat : s <= e /\ e <= p /\ e <= to /\ p <= e + 1
      <4>1. CASE p <= to
        BY <1>1, <4>1
      <4>2. CASE p = to + 1
        BY <1>1, <2>2, <2>6, <4>2
      <4> QED
        BY <1>1, <2>2, <2>6, <4>1, <4>2
    <3>2. PICK e \in Nat : s <= e /\ e <= p /\ e <= to /\ p <= e + 1
      BY <3>1
    <3>3. Span(w, s, e) /\ Span(w, e, p)
      BY <1>1, <3>2 DEF Span
    <3>4. \A i \in (s + 1)..e : w.bytes[i] # 85
      BY <1>1, <2>2, <2>4, <3>2
    <3>5. FromHeader(b) = <<>>
      BY <3>2, <3>3, <3>4, HeaderAhead
    <3>6. b[1] = w.bytes[s + 1] /\ w.bytes[s + 1] \notin {85, 126}
      <4>1. 1 \in 1..(p - s) /\ s + 1 \in (s + 1)..to
        BY <1>1, <2>2, <2>6
      <4>2. \A i \in 1..(p - s) : b[i] = w.bytes[s + i]
        BY <1>1, PieceIs
      <4>3. b[1] = w.bytes[s + 1]
        BY <4>1, <4>2
      <4>4. w.bytes[s + 1] \notin {85, 126}
        BY <2>4, <4>1
      <4> QED
        BY <4>3, <4>4
    <3> QED
      BY <2>3, <2>6, <3>5, <3>6
  <2>7. CASE to + 2 <= p
    <3>1. s <= to /\ to <= p
      BY <1>1, <2>2, <2>7
    <3>2. Span(w, to, p) /\ Span(w, s, to)
      BY <1>1, <2>2, <3>1 DEF Span
    <3>3. Start(w, to) /\ Placed(w, to)
      BY <1>1, EndsAre DEF Placed, Start, to
    <3>4. Alike(w, to, p)
      BY <1>8, <3>2, SurvivesRest DEF Alike
    <3>5. \A i \in (s + 1)..to : w.bytes[i] # 85
      BY <2>4
    <3>6. Progress(w, to, p, all, given)
      <4>1. \A j \in Items(w) : IsFrame(w, j) => ~(s < End(w, j) /\ End(w, j) <= to)
        <5>1. End(w, k - 1) <= s /\ to <= End(w, k)
          BY <1>1, <2>2 DEF to
        <5> QED
          BY <1>1, <2>1, <2>2, <3>1, <5>1, Within
      <4> QED
        BY <2>2, <3>1, <3>3, <4>1, Skips
    <3> HIDE DEF Found
    <3>7. to \in Nat /\ to + 2 <= p /\ s <= to
      BY <2>2, <2>7, <3>1
    <3>8. Found
      BY <1>4, <3>2, <3>3, <3>4, <3>5, <3>6, <3>7
    <3> QED
      BY <3>8 DEF Found
  <2>8. s = p \/ (s < p /\ p <= to + 1) \/ to + 2 <= p
    BY <1>1, <2>2
  <2> QED
    BY <2>5, <2>6, <2>7, <2>8
<1>9. \/ Start(w, s) /\ \A k \in Batch(w, s, p) : Kind(w, k) = "mirror" /\ p # End(w, k - 1) + 1
      \/ Start(w, s) /\ p - s = size /\ \A k \in Batch(w, s, p) : Kind(w, k) = "damaged"
      \/ Inside(w, s) /\ p - s # size /\ \A k \in Batch(w, s, p) : Kind(w, k) = "damaged"
  BY DEF InMirror
<1> QED
  BY <1>6, <1>7, <1>8, <1>9

\* The readers of the other bridges find the next frame, or use the noise up.
LEMMA FrameAhead ==
    ASSUME NEW w, NEW s, NEW p, NEW all, NEW given,
           Progress(w, s, p, all, given), Survives(w, s, p), w.reader # "fm"
    PROVE  \E e \in Nat :
              /\ Progress(w, e, p, all, given) /\ Survives(w, e, p)
              /\ FromHeader(Piece(w, s, p)) = Piece(w, e, p)
              /\ \/ e = p
                 \/ e + 2 <= p /\ \E k \in Items(w) : e = End(w, k - 1) /\ Kind(w, k) = "frame"
<1>1. w \in Wires /\ s \in Nat /\ p \in Nat /\ s <= p /\ p <= Len(w.bytes) /\ Span(w, s, p)
      /\ Placed(w, s) /\ Len(w.bytes) \in Nat
  <2>1. w \in Wires /\ s \in Nat /\ p \in Nat /\ s <= p /\ p <= Len(w.bytes) /\ Span(w, s, p)
        /\ Placed(w, s)
    BY DEF Progress, Span
  <2> QED
    BY <2>1, EndsAre
<1> DEFINE S == {n \in Nat : s <= n /\ n <= p /\ (n = p \/ w.bytes[n + 1] = 85)}
<1>2. PICK e \in S : \A n \in S : e <= n
  <2>1. S \in SUBSET Nat /\ p \in S
    BY <1>1
  <2> HIDE DEF S
  <2> QED
    BY <2>1, LeastNumber
<1>3. e \in Nat /\ s <= e /\ e <= p /\ (e = p \/ w.bytes[e + 1] = 85)
  BY <1>2
<1>4. ASSUME NEW n \in Nat, s <= n, n < e PROVE w.bytes[n + 1] # 85
  <2>1. ~(n \in S) /\ n <= p
    BY <1>1, <1>2, <1>3, <1>4
  <2> QED
    BY <1>4, <2>1
<1> HIDE DEF S
<1>5. ASSUME NEW k \in Items(w), IsFrame(w, k), End(w, k - 1) < e, s < End(w, k) PROVE FALSE
  <2>1. Kind(w, k) = "frame"
    <3>1. (Kind(w, k) \in {"frame", "noise"}) \/ w.reader = "fm"
      BY <1>1, WiresAssumption
    <3> QED
      BY <1>5, <3>1 DEF IsFrame
  <2>2. End(w, k - 1) \in Nat /\ End(w, k) \in Nat /\ End(w, k - 1) < End(w, k)
        /\ End(w, k) <= Len(w.bytes)
    BY <1>1, ItemIs
  <2>3. CASE s <= End(w, k - 1)
    <3>1. Span(w, End(w, k - 1), End(w, k))
      BY <1>1, <2>2 DEF Span
    <3>2. Piece(w, End(w, k - 1), End(w, k))[1] = 85
      BY <1>1, <2>1, <2>2, <3>1, Leads
    <3>3. 1 \in 1..(End(w, k) - End(w, k - 1))
      BY <2>2
    <3>4. w.bytes[End(w, k - 1) + 1] = 85
      BY <3>1, <3>2, <3>3, PieceIs
    <3> QED
      BY <1>4, <1>5, <2>2, <2>3, <3>4
  <2>4. CASE End(w, k - 1) < s
    <3>1. Cuts(w, s, k)
      BY <1>5, <2>4 DEF Cuts
    <3>2. Kind(w, k) \in {"noise", "damaged"}
      BY <1>1, <3>1, PlacedIn
    <3> QED
      BY <2>1, <3>2
  <2> QED
    BY <1>1, <2>2, <2>3, <2>4
<1>6. Placed(w, e)
  <2>1. CASE e < Len(w.bytes)
    <3>1. PICK k \in Items(w) : End(w, k - 1) <= e /\ e < End(w, k)
      BY <1>1, <1>3, <2>1, ItemAt
    <3>2. End(w, k - 1) \in Nat /\ End(w, k) \in Nat /\ k - 1 \in 0..Len(w.items)
      BY <1>1, ItemIs, EndsAre
    <3>3. CASE e = End(w, k - 1)
      BY <3>2, <3>3 DEF Placed, Start
    <3>4. CASE e # End(w, k - 1)
      <4>1. End(w, k - 1) < e /\ s < End(w, k)
        BY <1>1, <1>3, <3>1, <3>2, <3>4
      <4>2. Kind(w, k) \in {"noise", "damaged"}
        BY <1>5, <4>1 DEF IsFrame
      <4> QED
        BY <3>1, <4>1, <4>2 DEF Placed, Inside, Cuts
    <3> QED
      BY <3>3, <3>4
  <2>2. CASE e = Len(w.bytes)
    <3>1. End(w, Len(w.items)) = e /\ Len(w.items) \in 0..Len(w.items)
      BY <1>1, <2>2, EndsAre
    <3> QED
      BY <3>1 DEF Placed, Start
  <2> QED
    BY <1>1, <1>3, <2>1, <2>2
<1>7. Progress(w, e, p, all, given)
  <2>1. ASSUME NEW k \in Items(w), IsFrame(w, k), s < End(w, k), End(w, k) <= e PROVE FALSE
    <3>1. End(w, k - 1) < e
      BY <1>1, <1>3, <2>1, ItemIs
    <3> QED
      BY <1>5, <2>1, <3>1
  <2> QED
    BY <1>3, <1>6, <2>1, Skips
<1>8. Span(w, s, e) /\ Span(w, e, p)
  BY <1>1, <1>3 DEF Span
<1>9. Survives(w, e, p)
  BY <1>8, SurvivesRest
<1>10. \A i \in (s + 1)..e : w.bytes[i] # 85
  <2>1. ASSUME NEW i \in (s + 1)..e PROVE w.bytes[i] # 85
    <3>1. PICK n : n = i - 1
      OBVIOUS
    <3>2. n \in Nat /\ s <= n /\ n < e /\ n + 1 = i
      BY <1>1, <1>3, <2>1, <3>1
    <3> QED
      BY <1>4, <3>2
  <2> QED
    BY <2>1
<1>11. CASE e = p
  <2>1. FromHeader(Piece(w, s, p)) = <<>>
    <3>1. p <= e + 1
      BY <1>1, <1>11
    <3> QED
      BY <1>8, <1>10, <3>1, HeaderAhead
  <2>2. Piece(w, e, p) = <<>>
    <3>1. Piece(w, e, p) \in Seq(Byte) /\ Len(Piece(w, e, p)) = 0
      BY <1>1, <1>8, <1>11, PieceIs
    <3> QED
      BY <3>1
  <2> QED
    BY <1>3, <1>7, <1>9, <1>11, <2>1, <2>2
<1>12. CASE e < p
  <2> DEFINE c == Piece(w, e, p)
  <2>1. Len(c) = p - e /\ c[1] = 85
    <3>1. 1 \in 1..(p - e) /\ w.bytes[e + 1] = 85
      BY <1>1, <1>3, <1>12
    <3> QED
      BY <1>8, <3>1, PieceIs
  <2>2. PICK k \in Items(w) :
          /\ e = End(w, k - 1)
          /\ Kind(w, k) = "frame" <=> w.reader # "fm"
          /\ Kind(w, k) \in {"mirror", "damaged", "frame"} => (Len(c) >= 2 => c[2] = 170)
    BY <1>7, <1>12, <2>1, AtFront
  <2> HIDE DEF c
  <2>3. Kind(w, k) = "frame" /\ IsFrame(w, k)
    BY <2>2 DEF IsFrame
  <2>4. p # e + 1
    BY <1>9, <2>2, <2>3 DEF Survives
  <2>5. e + 2 <= p
    BY <1>1, <1>3, <1>12, <2>4
  <2>6. HasHeader(c)
    <3>1. Len(c) >= 2
      BY <1>1, <1>3, <2>1, <2>5
    <3>2. c[2] = 170
      BY <2>2, <2>3, <3>1
    <3> QED
      BY <2>1, <3>1, <3>2 DEF HasHeader, Starts
  <2>7. FromHeader(Piece(w, s, p)) = c
    BY <1>8, <1>10, <2>6, HeaderAhead DEF c
  <2> QED
    BY <1>3, <1>7, <1>9, <2>2, <2>3, <2>5, <2>7 DEF c
<1> QED
  BY <1>1, <1>3, <1>11, <1>12

\* The length of a frame is resolved as the device wrote it.
LEMMA LengthIsRead ==
    ASSUME NEW w \in Wires, w.reader = "aa", ~Misguessed(w),
           NEW k \in Items(w), Kind(w, k) = "frame",
           NEW c \in Seq(Byte), 5 <= Len(c),
           \A i \in 1..Len(c) : i <= Len(Item(w, k)) => c[i] = Item(w, k)[i]
    PROVE  5 + FrameLength(c, w.order) = Len(Item(w, k)) /\ FrameLength(c, w.order) # 0
<1> DEFINE f == Item(w, k)
           le == LittleEndian(c, 3)
           be == BigEndian(c, 3)
<1>1. f \in Seq(Byte) /\ Len(f) \in Nat /\ Looks(w, Kind(w, k), f)
  <2>1. f \in Seq(Byte) /\ Looks(w, Kind(w, k), f)
    BY ItemIs
  <2> QED
    BY <2>1
<1> HIDE DEF f
<1>2. FrameLook(f, w.device)
  BY <1>1 DEF Looks
<1>3. /\ Len(f) >= 6 /\ Len(f) <= 4101
      /\ w.device = "little" => LittleEndian(f, 3) = Len(f) - 5
      /\ w.device # "little" => BigEndian(f, 3) = Len(f) - 5
  BY <1>2 DEF FrameLook, Long
<1>4. LittleEndian(f, 3) = le /\ BigEndian(f, 3) = be
  <2>1. 3 < Len(c) /\ 3 < Len(f)
    BY <1>1, <1>3
  <2>2. \A i \in 1..Len(c) : i <= Len(f) => c[i] = f[i]
    BY DEF f
  <2> QED
    BY <1>1, <2>1, <2>2, Agree
<1>5. Plausible(Len(f) - 5)
  BY <1>1, <1>3 DEF Plausible
<1>6. w.order \in {"auto", w.device} /\ w.device \in {"little", "big"}
  <2>1. w \in Wire /\ (w.reader = "aa" => w.order \in {"auto", w.device})
    BY WiresAssumption
  <2>2. w.device \in {"little", "big"}
    BY <2>1 DEF Wire
  <2> QED
    BY <2>1, <2>2
<1>7. w.order = "auto" /\ w.device = "big" => ~(Plausible(le) /\ le # Len(f) - 5)
  BY <1>4 DEF Misguessed, f
<1> HIDE DEF le, be
<1> DEFINE known == IF w.order = "little" \/ (w.order = "auto" /\ Plausible(le)) THEN le ELSE be
<1>8. known = Len(f) - 5
  BY <1>3, <1>4, <1>5, <1>6, <1>7
<1>9. FrameLength(c, w.order) = IF Plausible(known) THEN known ELSE 0
  BY DEF FrameLength, le, be
<1> HIDE DEF known
<1>10. FrameLength(c, w.order) = Len(f) - 5
  BY <1>5, <1>8, <1>9
<1> QED
  BY <1>1, <1>3, <1>10 DEF f

\* What an iteration of consumeFrames makes of it.
AaReads(w, s, p, all, given, size) ==
    LET c == FromHeader(Piece(w, s, p))
        n == 5 + FrameLength(c, w.order)
    IN  /\ Len(c) < 5 \/ (n > 5 /\ Len(c) < n) =>
               Reading(w, p, all, c, given \o <<>>, "idle", size)
        /\ ~(Len(c) < 5 \/ (n > 5 /\ Len(c) < n)) =>
               /\ n # 5 /\ Sealed(Take(c, n))
               /\ Reading(w, p, all, Drop(c, n), given \o <<Take(c, n)>>, "outer", size)

\* consumeFrames goes to the next frame, and takes it or waits for it.
LEMMA AaIsRead ==
    ASSUME NEW w, NEW s, NEW p, NEW all, NEW given, NEW size,
           Progress(w, s, p, all, given), Survives(w, s, p), w.reader = "aa", ~Misguessed(w)
    PROVE  AaReads(w, s, p, all, given, size)
<1>1. PICK e \in Nat :
        /\ Progress(w, e, p, all, given) /\ Survives(w, e, p)
        /\ FromHeader(Piece(w, s, p)) = Piece(w, e, p)
        /\ \/ e = p
           \/ e + 2 <= p /\ \E k \in Items(w) : e = End(w, k - 1) /\ Kind(w, k) = "frame"
  <2>1. w.reader # "fm"
    OBVIOUS
  <2> QED
    BY <2>1, FrameAhead
<1>2. w \in Wires /\ p \in Nat /\ Span(w, e, p)
  BY <1>1 DEF Progress, Span
<1> DEFINE c == Piece(w, e, p)
           n == 5 + FrameLength(c, w.order)
<1>3. FromHeader(Piece(w, s, p)) = c
  BY <1>1
<1>4. CASE e = p
  <2>1. Len(c) = 0
    BY <1>2, <1>4, PieceIs
  <2>2. Stands(w, e, p, "idle", size)
    BY <1>4 DEF Stands, Rests
  <2>3. Reading(w, p, all, c, given \o <<>>, "idle", size)
    BY <1>1, <2>2, GoesOn
  <2>4. Len(c) < 5
    BY <2>1
  <2> HIDE DEF c
  <2> QED
    BY <1>3, <2>3, <2>4 DEF AaReads
<1>5. CASE e + 2 <= p /\ \E k \in Items(w) : e = End(w, k - 1) /\ Kind(w, k) = "frame"
  <2>1. PICK k \in Items(w) : e = End(w, k - 1) /\ Kind(w, k) = "frame"
    BY <1>5
  <2>2. e < p
    BY <1>2, <1>5
  <2> DEFINE f == Item(w, k)
  <2>3. /\ c \in Seq(Byte) /\ f \in Seq(Byte) /\ Len(c) \in Nat /\ Len(f) \in Nat
        /\ \A i \in 1..Len(c) : i <= Len(f) => c[i] = f[i]
        /\ Looks(w, Kind(w, k), f)
        /\ (p < End(w, k) <=> Len(c) < Len(f))
        /\ ~(p < End(w, k)) => Take(c, Len(f)) = f /\ Drop(c, Len(f)) = Piece(w, End(w, k), p)
    BY <1>2, <2>1, <2>2, Looking
  <2>4. Len(f) >= 6 /\ Sealed(f)
    <3>1. FrameLook(f, w.device)
      BY <2>1, <2>3 DEF Looks
    <3> HIDE DEF f
    <3> QED
      BY <3>1 DEF FrameLook, Long
  <2>5. ASSUME 5 <= Len(c) PROVE n = Len(f) /\ n # 5
    <3>1. 5 + FrameLength(c, w.order) = Len(f) /\ FrameLength(c, w.order) # 0
      BY <1>2, <2>1, <2>3, <2>5, LengthIsRead
    <3> HIDE DEF f, c
    <3> QED
      BY <2>3, <2>4, <3>1
  <2>6. ASSUME Len(c) < Len(f) PROVE Reading(w, p, all, c, given \o <<>>, "idle", size)
    <3>1. p < End(w, k) /\ Kind(w, k) \notin Inner
      BY <2>1, <2>3, <2>6 DEF Inner
    <3> QED
      BY <1>1, <2>1, <2>2, <3>1, Waits
  <2>7. ASSUME ~(Len(c) < Len(f))
        PROVE  /\ Sealed(Take(c, Len(f)))
               /\ Reading(w, p, all, Drop(c, Len(f)), given \o <<Take(c, Len(f))>>, "outer", size)
    <3>1. ~(p < End(w, k)) /\ IsFrame(w, k)
      BY <2>1, <2>3, <2>7 DEF IsFrame
    <3>2. End(w, k) <= p
      BY <1>2, <3>1, ItemIs
    <3>3. Reading(w, p, all, Drop(c, Len(f)), given \o <<Take(c, Len(f))>>, "outer", size)
      BY <1>1, <2>1, <3>1, <3>2, TakesFrame
    <3>4. Take(c, Len(f)) = f
      BY <2>3, <3>1
    <3>5. Sealed(Take(c, Len(f)))
      BY <2>4, <3>4
    <3> QED
      BY <3>3, <3>5
  <2> HIDE DEF c, n, f
  <2>8. ASSUME Len(c) < 5 \/ (n > 5 /\ Len(c) < n)
        PROVE  Reading(w, p, all, c, given \o <<>>, "idle", size)
    <3>1. Len(c) < Len(f)
      BY <2>3, <2>4, <2>5, <2>8
    <3> QED
      BY <2>6, <3>1
  <2>9. ASSUME ~(Len(c) < 5 \/ (n > 5 /\ Len(c) < n))
        PROVE  /\ n # 5 /\ Sealed(Take(c, n))
               /\ Reading(w, p, all, Drop(c, n), given \o <<Take(c, n)>>, "outer", size)
    <3>1. n = Len(f) /\ n # 5
      BY <2>3, <2>5, <2>9
    <3>2. ~(Len(c) < Len(f))
      BY <2>3, <2>4, <2>9, <3>1
    <3> QED
      BY <2>7, <3>1, <3>2
  <2> QED
    BY <1>3, <2>8, <2>9 DEF n, AaReads
<1> QED
  BY <1>1, <1>4, <1>5

\* What an iteration of the turntable's consumeBuffer makes of it.
TtReads(w, s, p, all, given, size) ==
    LET c == FromHeader(Piece(w, s, p))
        n == 4 + c[3]
    IN  /\ Len(c) < 4 => Reading(w, p, all, c, given \o <<>>, "idle", size)
        /\ ~(Len(c) < 4) =>
               /\ n # 4
               /\ Len(c) < n => Reading(w, p, all, c, given \o <<>>, "idle", size)
               /\ ~(Len(c) < n) =>
                      /\ TurntableSealed(Take(c, n))
                      /\ Reading(w, p, all, Drop(c, n), given \o <<Take(c, n)>>, "outer", size)

\* The turntable's consumeBuffer does the same.
LEMMA TtIsRead ==
    ASSUME NEW w, NEW s, NEW p, NEW all, NEW given, NEW size,
           Progress(w, s, p, all, given), Survives(w, s, p), w.reader = "tt"
    PROVE  TtReads(w, s, p, all, given, size)
<1>1. PICK e \in Nat :
        /\ Progress(w, e, p, all, given) /\ Survives(w, e, p)
        /\ FromHeader(Piece(w, s, p)) = Piece(w, e, p)
        /\ \/ e = p
           \/ e + 2 <= p /\ \E k \in Items(w) : e = End(w, k - 1) /\ Kind(w, k) = "frame"
  <2>1. w.reader # "fm"
    OBVIOUS
  <2> QED
    BY <2>1, FrameAhead
<1>2. w \in Wires /\ p \in Nat /\ Span(w, e, p)
  BY <1>1 DEF Progress, Span
<1> DEFINE c == Piece(w, e, p)
           n == 4 + c[3]
<1>3. FromHeader(Piece(w, s, p)) = c
  BY <1>1
<1>4. CASE e = p
  <2>1. Len(c) = 0
    BY <1>2, <1>4, PieceIs
  <2>2. Stands(w, e, p, "idle", size)
    BY <1>4 DEF Stands, Rests
  <2>3. Reading(w, p, all, c, given \o <<>>, "idle", size)
    BY <1>1, <2>2, GoesOn
  <2>4. Len(c) < 4
    BY <2>1
  <2> HIDE DEF c
  <2> QED
    BY <1>3, <2>3, <2>4 DEF TtReads
<1>5. CASE e + 2 <= p /\ \E k \in Items(w) : e = End(w, k - 1) /\ Kind(w, k) = "frame"
  <2>1. PICK k \in Items(w) : e = End(w, k - 1) /\ Kind(w, k) = "frame"
    BY <1>5
  <2>2. e < p
    BY <1>2, <1>5
  <2> DEFINE f == Item(w, k)
  <2>3. /\ c \in Seq(Byte) /\ f \in Seq(Byte) /\ Len(c) \in Nat /\ Len(f) \in Nat
        /\ \A i \in 1..Len(c) : i <= Len(f) => c[i] = f[i]
        /\ Looks(w, Kind(w, k), f)
        /\ (p < End(w, k) <=> Len(c) < Len(f))
        /\ ~(p < End(w, k)) => Take(c, Len(f)) = f /\ Drop(c, Len(f)) = Piece(w, End(w, k), p)
    BY <1>2, <2>1, <2>2, Looking
  <2>4. Len(f) > 4 /\ f[3] = Len(f) - 4 /\ TurntableSealed(f)
    <3>1. TurntableLook(f)
      BY <2>1, <2>3 DEF Looks
    <3> HIDE DEF f
    <3> QED
      BY <3>1 DEF TurntableLook
  <2>5. ASSUME ~(Len(c) < 4) PROVE n = Len(f)
    <3> HIDE DEF f, c
    <3>1. 3 \in 1..Len(c) /\ 3 <= Len(f)
      BY <2>3, <2>4, <2>5
    <3>2. c[3] = f[3]
      BY <2>3, <3>1
    <3> QED
      BY <2>3, <2>4, <3>2
  <2>6. ASSUME Len(c) < Len(f) PROVE Reading(w, p, all, c, given \o <<>>, "idle", size)
    <3>1. p < End(w, k) /\ Kind(w, k) \notin Inner
      BY <2>1, <2>3, <2>6 DEF Inner
    <3> QED
      BY <1>1, <2>1, <2>2, <3>1, Waits
  <2>7. ASSUME ~(Len(c) < Len(f))
        PROVE  /\ TurntableSealed(Take(c, Len(f)))
               /\ Reading(w, p, all, Drop(c, Len(f)), given \o <<Take(c, Len(f))>>, "outer", size)
    <3>1. ~(p < End(w, k)) /\ IsFrame(w, k)
      BY <2>1, <2>3, <2>7 DEF IsFrame
    <3>2. End(w, k) <= p
      BY <1>2, <3>1, ItemIs
    <3>3. Reading(w, p, all, Drop(c, Len(f)), given \o <<Take(c, Len(f))>>, "outer", size)
      BY <1>1, <2>1, <3>1, <3>2, TakesFrame
    <3>4. Take(c, Len(f)) = f
      BY <2>3, <3>1
    <3>5. TurntableSealed(Take(c, Len(f)))
      BY <2>4, <3>4
    <3> QED
      BY <3>3, <3>5
  <2> HIDE DEF c, n, f
  <2>8. Len(c) < 4 => Reading(w, p, all, c, given \o <<>>, "idle", size)
    BY <2>3, <2>4, <2>6
  <2>9. ASSUME ~(Len(c) < 4)
        PROVE  /\ n # 4
               /\ Len(c) < n => Reading(w, p, all, c, given \o <<>>, "idle", size)
               /\ ~(Len(c) < n) =>
                      /\ TurntableSealed(Take(c, n))
                      /\ Reading(w, p, all, Drop(c, n), given \o <<Take(c, n)>>, "outer", size)
    <3>1. n = Len(f) /\ n # 4
      BY <2>3, <2>4, <2>5, <2>9
    <3> QED
      BY <2>6, <2>7, <3>1
  <2> QED
    BY <1>3, <2>8, <2>9 DEF n, TtReads
<1> QED
  BY <1>1, <1>4, <1>5

\* A step that leaves the wire alone.
LEMMA Lands ==
    ASSUME ReaderInv, UNCHANGED <<wire, pos, arrived, orderly>>,
           orderly => entered' \in Nat /\ Reading(wire, pos, arrived, buffer', got', loop', entered')
    PROVE  ReaderInv'
<1>1. CASE orderly
  <2>1. ~Misguessed(wire)
    BY <1>1 DEF ReaderInv
  <2>2. /\ wire' = wire /\ pos' = pos /\ arrived' = arrived /\ entered' \in Nat
        /\ Reading(wire, pos, arrived, buffer', got', loop', entered')
    BY <1>1
  <2>3. ~Misguessed(wire') /\ Reading(wire', pos', arrived', buffer', got', loop', entered')
    BY <2>1, <2>2
  <2> QED
    BY <2>2, <2>3 DEF ReaderInv
<1>2. CASE ~orderly
  BY <1>2 DEF ReaderInv
<1> QED
  BY <1>1, <1>2

\* Where the reader stands.
LEMMA StandsSomewhere ==
    ASSUME ReaderInv, orderly
    PROVE  /\ ~Misguessed(wire) /\ entered \in Nat
           /\ \E s \in Nat : /\ buffer = Piece(wire, s, pos) /\ Progress(wire, s, pos, arrived, got)
                             /\ Stands(wire, s, pos, loop, entered)
                             /\ buffer \in Seq(Byte) /\ Len(buffer) = pos - s /\ pos \in Nat
                             /\ s <= pos /\ (buffer = <<>> <=> s = pos)
<1>1. ~Misguessed(wire) /\ entered \in Nat /\ Reading(wire, pos, arrived, buffer, got, loop, entered)
  BY DEF ReaderInv
<1>2. PICK s \in Nat : /\ buffer = Piece(wire, s, pos) /\ Progress(wire, s, pos, arrived, got)
                       /\ Stands(wire, s, pos, loop, entered)
  BY <1>1 DEF Reading
<1>3. Span(wire, s, pos) /\ pos \in Nat /\ s <= pos
  BY <1>2 DEF Progress, Span
<1>4. buffer \in Seq(Byte) /\ Len(buffer) = pos - s
  BY <1>2, <1>3, PieceIs
<1>5. buffer = <<>> <=> s = pos
  BY <1>3, <1>4
<1> QED
  BY <1>1, <1>2, <1>3, <1>4, <1>5

\* An inner loop returns with a header in front of it, or with nothing left.
LEMMA ReturnsRight ==
    ASSUME NEW s, NEW b, b = Piece(wire, s, pos), Progress(wire, s, pos, arrived, got),
           Survives(wire, s, pos), Returns(b), entered' = entered,
           b = <<>> \/ b[1] = 126 \/ HasHeader(b), Len(b) = entered => Spins(wire, s, pos)
    PROVE  Reading(wire, pos, arrived, buffer', got', loop', entered')
<1>1. /\ loop' = IF Len(b) = entered THEN "spin" ELSE "outer"
      /\ buffer' = b /\ got' = got \o <<>>
  BY DEF Returns, Goes
<1>2. CASE Len(b) = entered
  <2>1. Stands(wire, s, pos, "spin", entered)
    BY <1>2 DEF Stands
  <2>2. Reading(wire, pos, arrived, b, got \o <<>>, "spin", entered)
    BY <2>1, GoesOn
  <2> QED
    BY <1>1, <1>2, <2>2
<1>3. CASE Len(b) # entered
  <2>1. Stands(wire, s, pos, "outer", entered)
    BY DEF Stands
  <2>2. Reading(wire, pos, arrived, b, got \o <<>>, "outer", entered)
    BY <2>1, GoesOn
  <2> QED
    BY <1>1, <1>3, <2>2
<1> QED
  BY <1>2, <1>3

\* An inner loop returns with a byte in front of it that begins nothing.
LEMMA ReturnsPast ==
    ASSUME NEW s, NEW b, b = Piece(wire, s, pos), Progress(wire, s, pos, arrived, got),
           Survives(wire, s, pos), Returns(b), entered' = entered, entered \in Nat,
           s < pos, b[1] \notin {85, 126}, pos - s < entered
    PROVE  Reading(wire, pos, arrived, buffer', got', loop', entered')
<1>1. Span(wire, s, pos) /\ s \in Nat /\ pos \in Nat
  BY DEF Progress, Span
<1>2. b # <<>> /\ b[1] # 126 /\ ~HasHeader(b)
  <2>1. Len(b) = pos - s
    BY <1>1, PieceIs
  <2>2. b # <<>>
    BY <1>1, <2>1
  <2> QED
    BY <2>2 DEF HasHeader, Starts
<1>3. Span(wire, s, s + 1) /\ Span(wire, s + 1, pos) /\ Tail(b) = Piece(wire, s + 1, pos)
  BY <1>1, TailIs
<1>4. Len(Tail(b)) # entered
  <2>1. Len(Piece(wire, s + 1, pos)) = pos - (s + 1)
    BY <1>3, PieceIs
  <2>2. pos - (s + 1) # entered
    BY <1>1
  <2> QED
    BY <1>3, <2>1, <2>2
<1>5. loop' = "outer" /\ buffer' = Tail(b) /\ got' = got \o <<>>
  BY <1>2, <1>4 DEF Returns, Goes
<1>6. Progress(wire, s + 1, pos, arrived, got)
  <2>1. 1 \in 1..(pos - s)
    BY <1>1
  <2>2. b[1] = wire.bytes[s + 1]
    BY <1>1, <2>1, PieceIs
  <2> QED
    BY <2>2, PassesByte
<1>7. Survives(wire, s + 1, pos)
  BY <1>3, SurvivesRest
<1>8. Stands(wire, s + 1, pos, "outer", entered)
  BY <1>7 DEF Stands
<1>9. Reading(wire, pos, arrived, Piece(wire, s + 1, pos), got \o <<>>, "outer", entered)
  BY <1>6, <1>8, GoesOn
<1> QED
  BY <1>3, <1>5, <1>9


\* An iteration of consumeLegacy.
LEMMA LegacyKeeps ==
    ASSUME ReaderInv, FmLegacy PROVE ReaderInv'
<1>1. wire.reader = "fm" /\ loop = "legacy" /\ entered' = entered
      /\ UNCHANGED <<wire, pos, arrived, orderly>>
  BY DEF FmLegacy, Returns, Goes, In
<1>2. ASSUME orderly
      PROVE  entered' \in Nat /\ Reading(wire, pos, arrived, buffer', got', loop', entered')
  <2>1. PICK s \in Nat : /\ buffer = Piece(wire, s, pos) /\ Progress(wire, s, pos, arrived, got)
                         /\ Stands(wire, s, pos, loop, entered)
                         /\ buffer \in Seq(Byte) /\ Len(buffer) = pos - s /\ pos \in Nat
                         /\ s <= pos /\ (buffer = <<>> <=> s = pos)
    BY <1>2, StandsSomewhere
  <2> DEFINE b == Piece(wire, s, pos)
             param == Len(b) >= 2 /\ b[2] \in ParamCommands
             n == IF param THEN 5 + LittleEndian(b, 3) ELSE LegacyLength(b[2], wire.bits)
  <2>2. Progress(wire, s, pos, arrived, got)
    BY <2>1
  <2>3. Survives(wire, s, pos)
    BY <1>1, <2>1 DEF Stands
  <2>4. InLegacy(wire, s, pos, entered)
    BY <1>1, <2>1 DEF Stands
  <2>5. entered \in Nat /\ 2 <= entered
    BY <1>2, <2>4, StandsSomewhere DEF InLegacy
  <2>6. pos \in Nat /\ s <= pos /\ Len(b) = pos - s /\ (b = <<>> <=> s = pos)
    BY <2>1
  <2>7. IF Len(b) < 2 \/ b[1] # 126 \/ (param /\ Len(b) < 4) THEN Returns(b)
        ELSE IF param /\ (n < 9 \/ n > 8192) THEN Goes("legacy", Tail(b), <<>>)
        ELSE IF Len(b) < n THEN Returns(b)
        ELSE IF ~Sealed(Take(b, n)) THEN Goes("legacy", Tail(b), <<>>)
        ELSE Goes("legacy", Drop(b, n), <<Take(b, n)>>)
    <3>1. buffer = b
      BY <2>1
    <3> HIDE DEF b
    <3> QED
      BY <3>1 DEF FmLegacy
  <2>8. CASE s = pos
    <3> HIDE DEF b
    <3>1. Len(b) < 2 /\ b = <<>> /\ Len(b) # entered
      BY <2>5, <2>6, <2>8
    <3>2. Returns(b)
      BY <2>7, <3>1
    <3>3. Reading(wire, pos, arrived, buffer', got', loop', entered')
      BY <1>1, <2>2, <2>3, <3>1, <3>2, ReturnsRight DEF b
    <3> QED
      BY <1>1, <2>5, <3>3
  <2>9. CASE s < pos
    <3>1. /\ b[1] = 126
          /\ Len(b) < 2 => pos - s # entered
          /\ param /\ Len(b) < 4 => (pos - s = entered => Spins(wire, s, pos))
          /\ ~(Len(b) < 2) /\ ~(param /\ Len(b) < 4) =>
                 /\ ~(param /\ (n < 9 \/ n > 8192))
                 /\ Len(b) < n => (pos - s = entered => Spins(wire, s, pos))
                 /\ ~(Len(b) < n) =>
                        /\ Sealed(Take(b, n))
                        /\ Reading(wire, pos, arrived, Drop(b, n), got \o <<Take(b, n)>>, "legacy", entered)
      <4>1. wire.reader = "fm"
        BY <1>1
      <4>2. LegacyReads(wire, s, pos, arrived, got, entered)
        BY <2>2, <2>3, <2>4, <2>5, <2>9, <4>1, LegacyIsRead
      <4> QED
        BY <4>2 DEF LegacyReads
    <3> HIDE DEF param, n, b
    <3>2. ASSUME Returns(b), Len(b) = entered => Spins(wire, s, pos)
          PROVE  Reading(wire, pos, arrived, buffer', got', loop', entered')
      BY <1>1, <2>2, <2>3, <3>1, <3>2, ReturnsRight DEF b
    <3>3. CASE Len(b) < 2 \/ (param /\ Len(b) < 4)
      <4>1. Returns(b)
        BY <2>7, <3>3
      <4>2. Len(b) = entered => Spins(wire, s, pos)
        BY <2>6, <3>1, <3>3
      <4> QED
        BY <1>1, <2>5, <3>2, <4>1, <4>2
    <3>4. CASE ~(Len(b) < 2) /\ ~(param /\ Len(b) < 4) /\ Len(b) < n
      <4>1. Returns(b)
        BY <2>7, <3>1, <3>4
      <4>2. Len(b) = entered => Spins(wire, s, pos)
        BY <2>6, <3>1, <3>4
      <4> QED
        BY <1>1, <2>5, <3>2, <4>1, <4>2
    <3>5. CASE ~(Len(b) < 2) /\ ~(param /\ Len(b) < 4) /\ ~(Len(b) < n)
      <4>1. Goes("legacy", Drop(b, n), <<Take(b, n)>>)
        BY <2>7, <3>1, <3>5
      <4>2. loop' = "legacy" /\ buffer' = Drop(b, n) /\ got' = got \o <<Take(b, n)>>
        BY <4>1 DEF Goes
      <4>3. Reading(wire, pos, arrived, Drop(b, n), got \o <<Take(b, n)>>, "legacy", entered)
        BY <3>1, <3>5
      <4> QED
        BY <1>1, <2>5, <4>2, <4>3
    <3>6. Reading(wire, pos, arrived, buffer', got', loop', entered')
      BY <3>3, <3>4, <3>5
    <3> QED
      BY <1>1, <2>5, <3>6
  <2> QED
    BY <2>6, <2>8, <2>9
<1> QED
  BY <1>1, <1>2, Lands

\* Where a step of the loop goes.
LEMMA GoesTo ==
    ASSUME NEW to, NEW rest, NEW frames, Goes(to, rest, frames),
           Reading(wire, pos, arrived, rest, got \o frames, to, entered')
    PROVE  Reading(wire, pos, arrived, buffer', got', loop', entered')
  BY DEF Goes

\* An iteration of consumeFrames.
LEMMA AaKeeps ==
    ASSUME ReaderInv, AaIterate PROVE ReaderInv'
<1>1. wire.reader = "aa" /\ loop = "outer" /\ entered' = entered
      /\ UNCHANGED <<wire, pos, arrived, orderly>>
  BY DEF AaIterate, Goes, In
<1>2. ASSUME orderly
      PROVE  entered' \in Nat /\ Reading(wire, pos, arrived, buffer', got', loop', entered')
  <2>1. PICK s \in Nat : /\ buffer = Piece(wire, s, pos) /\ Progress(wire, s, pos, arrived, got)
                         /\ Stands(wire, s, pos, loop, entered)
    BY <1>2, StandsSomewhere
  <2> DEFINE c == FromHeader(Piece(wire, s, pos))
             n == 5 + FrameLength(c, wire.order)
  <2>2. Progress(wire, s, pos, arrived, got)
    BY <2>1
  <2>3. Survives(wire, s, pos)
    BY <1>1, <2>1 DEF Stands
  <2>4. entered \in Nat /\ ~Misguessed(wire) /\ wire.reader = "aa"
    BY <1>1, <1>2, StandsSomewhere
  <2>5. IF Len(c) < 5 \/ (n > 5 /\ Len(c) < n) THEN Goes("idle", c, <<>>)
        ELSE IF n = 5 THEN Goes("outer", Tail(c), <<>>)
        ELSE Goes("outer", Drop(c, n), IF Sealed(Take(c, n)) THEN <<Take(c, n)>> ELSE <<>>)
    <3>1. FromHeader(buffer) = c
      BY <2>1
    <3> HIDE DEF c
    <3> QED
      BY <3>1 DEF AaIterate
  <2>6. AaReads(wire, s, pos, arrived, got, entered)
    BY <2>2, <2>3, <2>4, AaIsRead
  <2>7. /\ Len(c) < 5 \/ (n > 5 /\ Len(c) < n) =>
               Reading(wire, pos, arrived, c, got \o <<>>, "idle", entered)
        /\ ~(Len(c) < 5 \/ (n > 5 /\ Len(c) < n)) =>
               /\ n # 5 /\ Sealed(Take(c, n))
               /\ Reading(wire, pos, arrived, Drop(c, n), got \o <<Take(c, n)>>, "outer", entered)
    BY <2>6 DEF AaReads
  <2> HIDE DEF c, n
  <2>8. CASE Len(c) < 5 \/ (n > 5 /\ Len(c) < n)
    <3>1. Goes("idle", c, <<>>)
      BY <2>5, <2>8
    <3>2. Reading(wire, pos, arrived, c, got \o <<>>, "idle", entered')
      BY <1>1, <2>7, <2>8
    <3> QED
      BY <1>1, <2>4, <3>1, <3>2, GoesTo
  <2>9. CASE ~(Len(c) < 5 \/ (n > 5 /\ Len(c) < n))
    <3>1. Goes("outer", Drop(c, n), <<Take(c, n)>>)
      BY <2>5, <2>7, <2>9
    <3>2. Reading(wire, pos, arrived, Drop(c, n), got \o <<Take(c, n)>>, "outer", entered')
      BY <1>1, <2>7, <2>9
    <3> QED
      BY <1>1, <2>4, <3>1, <3>2, GoesTo
  <2> QED
    BY <2>8, <2>9
<1> QED
  BY <1>1, <1>2, Lands

\* An iteration of the turntable's consumeBuffer.
LEMMA TtKeeps ==
    ASSUME ReaderInv, TtIterate PROVE ReaderInv'
<1>1. wire.reader = "tt" /\ loop = "outer" /\ entered' = entered
      /\ UNCHANGED <<wire, pos, arrived, orderly>>
  BY DEF TtIterate, Goes, In
<1>2. ASSUME orderly
      PROVE  entered' \in Nat /\ Reading(wire, pos, arrived, buffer', got', loop', entered')
  <2>1. PICK s \in Nat : /\ buffer = Piece(wire, s, pos) /\ Progress(wire, s, pos, arrived, got)
                         /\ Stands(wire, s, pos, loop, entered)
    BY <1>2, StandsSomewhere
  <2> DEFINE c == FromHeader(Piece(wire, s, pos))
             n == 4 + c[3]
  <2>2. Progress(wire, s, pos, arrived, got)
    BY <2>1
  <2>3. Survives(wire, s, pos)
    BY <1>1, <2>1 DEF Stands
  <2>4. entered \in Nat /\ wire.reader = "tt"
    BY <1>1, <1>2, StandsSomewhere
  <2>5. IF Len(c) < 4 THEN Goes("idle", c, <<>>)
        ELSE IF n = 4 THEN Goes("outer", Drop(c, 2), <<>>)
        ELSE IF Len(c) < n THEN Goes("idle", c, <<>>)
        ELSE Goes("outer", Drop(c, n), IF TurntableSealed(Take(c, n)) THEN <<Take(c, n)>> ELSE <<>>)
    <3>1. FromHeader(buffer) = c
      BY <2>1
    <3> HIDE DEF c
    <3> QED
      BY <3>1 DEF TtIterate
  <2>6. TtReads(wire, s, pos, arrived, got, entered)
    BY <2>2, <2>3, <2>4, TtIsRead
  <2>7. /\ Len(c) < 4 => Reading(wire, pos, arrived, c, got \o <<>>, "idle", entered)
        /\ ~(Len(c) < 4) =>
               /\ n # 4
               /\ Len(c) < n => Reading(wire, pos, arrived, c, got \o <<>>, "idle", entered)
               /\ ~(Len(c) < n) =>
                      /\ TurntableSealed(Take(c, n))
                      /\ Reading(wire, pos, arrived, Drop(c, n), got \o <<Take(c, n)>>, "outer", entered)
    BY <2>6 DEF TtReads
  <2> HIDE DEF c, n
  <2>8. CASE Len(c) < 4 \/ Len(c) < n
    <3>1. Goes("idle", c, <<>>)
      BY <2>5, <2>7, <2>8
    <3>2. Reading(wire, pos, arrived, c, got \o <<>>, "idle", entered')
      BY <1>1, <2>7, <2>8
    <3> QED
      BY <1>1, <2>4, <3>1, <3>2, GoesTo
  <2>9. CASE ~(Len(c) < 4) /\ ~(Len(c) < n)
    <3>1. Goes("outer", Drop(c, n), <<Take(c, n)>>)
      BY <2>5, <2>7, <2>9
    <3>2. Reading(wire, pos, arrived, Drop(c, n), got \o <<Take(c, n)>>, "outer", entered')
      BY <1>1, <2>7, <2>9
    <3> QED
      BY <1>1, <2>4, <3>1, <3>2, GoesTo
  <2> QED
    BY <2>8, <2>9
<1> QED
  BY <1>1, <1>2, Lands

\* The fast mirror's outer loop with nothing in the buffer.
LEMMA EmptyKeeps ==
    ASSUME ReaderInv, FmEmpty PROVE ReaderInv'
<1>1. /\ entered' = entered /\ UNCHANGED <<wire, pos, arrived, orderly>>
      /\ Goes("idle", <<>>, <<>>) /\ buffer = <<>>
  BY DEF FmEmpty, Goes, In
<1>2. ASSUME orderly
      PROVE  entered' \in Nat /\ Reading(wire, pos, arrived, buffer', got', loop', entered')
  <2>1. PICK s \in Nat : /\ buffer = Piece(wire, s, pos) /\ Progress(wire, s, pos, arrived, got)
                         /\ (buffer = <<>> <=> s = pos)
    BY <1>2, StandsSomewhere
  <2>2. Stands(wire, s, pos, "idle", entered)
    BY <1>1, <2>1 DEF Stands, Rests
  <2>3. Reading(wire, pos, arrived, Piece(wire, s, pos), got \o <<>>, "idle", entered)
    BY <2>1, <2>2, GoesOn
  <2>4. Reading(wire, pos, arrived, <<>>, got \o <<>>, "idle", entered')
    BY <1>1, <2>1, <2>3
  <2>5. entered' \in Nat
    BY <1>1, <1>2, StandsSomewhere
  <2> QED
    BY <1>1, <2>4, <2>5, GoesTo
<1> QED
  BY <1>1, <1>2, Lands

\* tryConsumeIapFrame.
LEMMA IapKeeps ==
    ASSUME ReaderInv, FmIap PROVE ReaderInv'
<1>1. wire.reader = "fm" /\ loop = "outer" /\ entered' = entered /\ IapLead(buffer)
      /\ UNCHANGED <<wire, pos, arrived, orderly>>
  BY DEF FmIap, Goes, In
<1>2. ASSUME orderly
      PROVE  entered' \in Nat /\ Reading(wire, pos, arrived, buffer', got', loop', entered')
  <2>1. PICK s \in Nat : /\ buffer = Piece(wire, s, pos) /\ Progress(wire, s, pos, arrived, got)
                         /\ Stands(wire, s, pos, loop, entered)
    BY <1>2, StandsSomewhere
  <2> DEFINE b == Piece(wire, s, pos)
             n == 6 + LittleEndian(b, 3)
  <2>2. Progress(wire, s, pos, arrived, got)
    BY <2>1
  <2>3. Survives(wire, s, pos)
    BY <1>1, <2>1 DEF Stands
  <2>4. entered \in Nat /\ wire.reader = "fm" /\ IapLead(b)
    BY <1>1, <1>2, <2>1, StandsSomewhere
  <2>5. IF Len(b) < 8 THEN Goes("idle", b, <<>>)
        ELSE IF n < 10 \/ n > 4102 THEN Goes("outer", Tail(b), <<>>)
        ELSE IF Len(b) < n THEN Goes("idle", b, <<>>)
        ELSE Goes("outer", Drop(b, n),
                  IF Sum16(Take(b, n - 2)) = LittleEndian(b, n - 1) THEN <<Take(b, n)>> ELSE <<>>)
    <3>1. buffer = b
      BY <2>1
    <3> HIDE DEF b
    <3> QED
      BY <3>1 DEF FmIap
  <2>6. IapReads(wire, s, pos, arrived, got, entered)
    BY <2>2, <2>3, <2>4, IapIsRead
  <2>7. /\ Len(b) < 8 => Reading(wire, pos, arrived, b, got \o <<>>, "idle", entered)
        /\ ~(Len(b) < 8) =>
               /\ ~(n < 10 \/ n > 4102)
               /\ Len(b) < n => Reading(wire, pos, arrived, b, got \o <<>>, "idle", entered)
               /\ ~(Len(b) < n) =>
                      /\ Sum16(Take(b, n - 2)) = LittleEndian(b, n - 1)
                      /\ Reading(wire, pos, arrived, Drop(b, n), got \o <<Take(b, n)>>, "outer", entered)
    BY <2>6 DEF IapReads
  <2> HIDE DEF b, n
  <2>8. CASE Len(b) < 8 \/ Len(b) < n
    <3>1. Goes("idle", b, <<>>)
      BY <2>5, <2>7, <2>8
    <3>2. Reading(wire, pos, arrived, b, got \o <<>>, "idle", entered')
      BY <1>1, <2>7, <2>8
    <3> QED
      BY <1>1, <2>4, <3>1, <3>2, GoesTo
  <2>9. CASE ~(Len(b) < 8) /\ ~(Len(b) < n)
    <3>1. Goes("outer", Drop(b, n), <<Take(b, n)>>)
      BY <2>5, <2>7, <2>9
    <3>2. Reading(wire, pos, arrived, Drop(b, n), got \o <<Take(b, n)>>, "outer", entered')
      BY <1>1, <2>7, <2>9
    <3> QED
      BY <1>1, <2>4, <3>1, <3>2, GoesTo
  <2> QED
    BY <2>8, <2>9
<1> QED
  BY <1>1, <1>2, Lands

\* A frame of fixed size in front is taken when it is all there.
LEMMA FixedKeeps ==
    ASSUME ReaderInv, NEW n \in Nat, FmTake(n), loop = "outer",
           \A s \in Nat :
               Progress(wire, s, pos, arrived, got) /\ Survives(wire, s, pos) /\ buffer = Piece(wire, s, pos)
               => /\ Len(buffer) < n => Reading(wire, pos, arrived, buffer, got \o <<>>, "idle", entered)
                  /\ ~(Len(buffer) < n) => Reading(wire, pos, arrived, Drop(buffer, n),
                                                   got \o <<Take(buffer, n)>>, "outer", entered)
    PROVE  ReaderInv'
<1>1. entered' = entered /\ UNCHANGED <<wire, pos, arrived, orderly>>
  BY DEF FmTake, Goes
<1>2. ASSUME orderly
      PROVE  entered' \in Nat /\ Reading(wire, pos, arrived, buffer', got', loop', entered')
  <2>1. PICK s \in Nat : /\ buffer = Piece(wire, s, pos) /\ Progress(wire, s, pos, arrived, got)
                         /\ Stands(wire, s, pos, loop, entered)
    BY <1>2, StandsSomewhere
  <2>2. Survives(wire, s, pos)
    BY <2>1 DEF Stands
  <2>3. entered' \in Nat
    BY <1>1, <1>2, StandsSomewhere
  <2>4. CASE Len(buffer) < n
    <3>1. Goes("idle", buffer, <<>>)
      BY <2>4 DEF FmTake
    <3>2. Reading(wire, pos, arrived, buffer, got \o <<>>, "idle", entered')
      BY <1>1, <2>1, <2>2, <2>4
    <3> QED
      BY <2>3, <3>1, <3>2, GoesTo
  <2>5. CASE ~(Len(buffer) < n)
    <3>1. Goes("outer", Drop(buffer, n), <<Take(buffer, n)>>)
      BY <2>5 DEF FmTake
    <3>2. Reading(wire, pos, arrived, Drop(buffer, n), got \o <<Take(buffer, n)>>, "outer", entered')
      BY <1>1, <2>1, <2>2, <2>5
    <3> QED
      BY <2>3, <3>1, <3>2, GoesTo
  <2> QED
    BY <2>4, <2>5
<1> QED
  BY <1>1, <1>2, Lands

\* An acknowledgement of an upgrade in front.
LEMMA AckKeeps ==
    ASSUME ReaderInv, FmAck PROVE ReaderInv'
<1>1. wire.reader = "fm" /\ loop = "outer" /\ buffer # <<>> /\ AckLead(buffer) /\ FmTake(13)
  BY DEF FmAck, In
<1>2. ASSUME NEW s \in Nat, Progress(wire, s, pos, arrived, got), Survives(wire, s, pos),
             buffer = Piece(wire, s, pos)
      PROVE  /\ Len(buffer) < 13 => Reading(wire, pos, arrived, buffer, got \o <<>>, "idle", entered)
             /\ ~(Len(buffer) < 13) => Reading(wire, pos, arrived, Drop(buffer, 13),
                                               got \o <<Take(buffer, 13)>>, "outer", entered)
  <2>1. Span(wire, s, pos)
    BY <1>2 DEF Progress
  <2>2. Len(Piece(wire, s, pos)) = pos - s /\ Piece(wire, s, pos) \in Seq(Byte)
    BY <2>1, PieceIs
  <2>3. s < pos
    BY <1>1, <1>2, <2>1, <2>2 DEF Span
  <2> QED
    BY <1>1, <1>2, <2>3, AckIsRead
<1>3. 13 \in Nat
  OBVIOUS
<1> QED
  BY <1>1, <1>2, <1>3, FixedKeeps

\* A status frame in front.
LEMMA StatusKeeps ==
    ASSUME ReaderInv, FmStatus PROVE ReaderInv'
<1>1. wire.reader = "fm" /\ loop = "outer" /\ buffer # <<>> /\ StatusLead(buffer) /\ FmTake(19)
  BY DEF FmStatus, In
<1>2. ASSUME NEW s \in Nat, Progress(wire, s, pos, arrived, got), Survives(wire, s, pos),
             buffer = Piece(wire, s, pos)
      PROVE  /\ Len(buffer) < 19 => Reading(wire, pos, arrived, buffer, got \o <<>>, "idle", entered)
             /\ ~(Len(buffer) < 19) => Reading(wire, pos, arrived, Drop(buffer, 19),
                                               got \o <<Take(buffer, 19)>>, "outer", entered)
  <2>1. Span(wire, s, pos)
    BY <1>2 DEF Progress
  <2>2. Len(Piece(wire, s, pos)) = pos - s /\ Piece(wire, s, pos) \in Seq(Byte)
    BY <2>1, PieceIs
  <2>3. s < pos
    BY <1>1, <1>2, <2>1, <2>2 DEF Span
  <2> QED
    BY <1>1, <1>2, <2>3, StatusIsRead
<1>3. 19 \in Nat
  OBVIOUS
<1> QED
  BY <1>1, <1>2, <1>3, FixedKeeps

\* The outer loop calls an inner one, waits, or drops a byte.
LEMMA EnterKeeps ==
    ASSUME ReaderInv, FmEnter PROVE ReaderInv'
<1>1. /\ wire.reader = "fm" /\ loop = "outer" /\ buffer # <<>> /\ entered' = Len(buffer)
      /\ ~IapLead(buffer) /\ ~AckLead(buffer) /\ ~StatusLead(buffer)
      /\ UNCHANGED <<wire, pos, arrived, orderly>>
  BY DEF FmEnter, Goes, In
<1>2. ASSUME orderly
      PROVE  entered' \in Nat /\ Reading(wire, pos, arrived, buffer', got', loop', entered')
  <2>1. PICK s \in Nat : /\ buffer = Piece(wire, s, pos) /\ Progress(wire, s, pos, arrived, got)
                         /\ Stands(wire, s, pos, loop, entered)
                         /\ buffer \in Seq(Byte) /\ Len(buffer) = pos - s /\ pos \in Nat
                         /\ s <= pos /\ (buffer = <<>> <=> s = pos)
    BY <1>2, StandsSomewhere
  <2> DEFINE b == Piece(wire, s, pos)
  <2>2. Progress(wire, s, pos, arrived, got)
    BY <2>1
  <2>3. Survives(wire, s, pos)
    BY <1>1, <2>1 DEF Stands
  <2>4. s < pos /\ entered' = Len(b) /\ entered' \in Nat /\ wire.reader = "fm"
    BY <1>1, <2>1
  <2>5. ~IapLead(b) /\ ~AckLead(b) /\ ~StatusLead(b)
    BY <1>1, <2>1
  <2>6. IF b[1] = 126 THEN Goes("legacy", b, <<>>)
        ELSE IF HasHeader(b) THEN Goes("mirror", b, <<>>)
        ELSE IF b = << 85 >> THEN Goes("idle", b, <<>>)
        ELSE Goes("outer", Tail(b), <<>>)
    <3>1. buffer = b
      BY <2>1
    <3> HIDE DEF b
    <3> QED
      BY <3>1 DEF FmEnter
  <2>7. RestReads(wire, s, pos, arrived, got)
    BY <2>2, <2>3, <2>4, <2>5, RestIsRead
  <2>8. /\ b[1] = 126 => Reading(wire, pos, arrived, b, got \o <<>>, "legacy", Len(b))
        /\ HasHeader(b) => Reading(wire, pos, arrived, b, got \o <<>>, "mirror", Len(b))
        /\ b = << 85 >> => Reading(wire, pos, arrived, b, got \o <<>>, "idle", Len(b))
        /\ b[1] # 126 /\ ~HasHeader(b) /\ b # << 85 >> =>
               Reading(wire, pos, arrived, Tail(b), got \o <<>>, "outer", Len(b))
    BY <2>7 DEF RestReads
  <2> HIDE DEF b
  <2>9. CASE b[1] = 126
    <3>1. Goes("legacy", b, <<>>) /\ Reading(wire, pos, arrived, b, got \o <<>>, "legacy", entered')
      BY <2>4, <2>6, <2>8, <2>9
    <3> QED
      BY <2>4, <3>1, GoesTo
  <2>10. CASE b[1] # 126 /\ HasHeader(b)
    <3>1. Goes("mirror", b, <<>>) /\ Reading(wire, pos, arrived, b, got \o <<>>, "mirror", entered')
      BY <2>4, <2>6, <2>8, <2>10
    <3> QED
      BY <2>4, <3>1, GoesTo
  <2>11. CASE b[1] # 126 /\ ~HasHeader(b) /\ b = << 85 >>
    <3>1. Goes("idle", b, <<>>) /\ Reading(wire, pos, arrived, b, got \o <<>>, "idle", entered')
      BY <2>4, <2>6, <2>8, <2>11
    <3> QED
      BY <2>4, <3>1, GoesTo
  <2>12. CASE b[1] # 126 /\ ~HasHeader(b) /\ b # << 85 >>
    <3>1. /\ Goes("outer", Tail(b), <<>>)
          /\ Reading(wire, pos, arrived, Tail(b), got \o <<>>, "outer", entered')
      BY <2>4, <2>6, <2>8, <2>12
    <3> QED
      BY <2>4, <3>1, GoesTo
  <2> QED
    BY <2>9, <2>10, <2>11, <2>12
<1> QED
  BY <1>1, <1>2, Lands

\* An iteration of consume55AA.
LEMMA MirrorKeeps ==
    ASSUME ReaderInv, FmMirror PROVE ReaderInv'
<1>1. wire.reader = "fm" /\ loop = "mirror" /\ entered' = entered
      /\ UNCHANGED <<wire, pos, arrived, orderly>>
  BY DEF FmMirror, Returns, Goes, In
<1>2. ASSUME orderly
      PROVE  entered' \in Nat /\ Reading(wire, pos, arrived, buffer', got', loop', entered')
  <2>1. PICK s \in Nat : /\ buffer = Piece(wire, s, pos) /\ Progress(wire, s, pos, arrived, got)
                         /\ Stands(wire, s, pos, loop, entered)
                         /\ buffer \in Seq(Byte) /\ Len(buffer) = pos - s /\ pos \in Nat
                         /\ s <= pos /\ (buffer = <<>> <=> s = pos)
    BY <1>2, StandsSomewhere
  <2>2. Progress(wire, s, pos, arrived, got)
    BY <2>1
  <2>3. Survives(wire, s, pos)
    BY <1>1, <2>1 DEF Stands
  <2>4. InMirror(wire, s, pos, entered)
    BY <1>1, <2>1 DEF Stands
  <2>5. entered \in Nat /\ 2 <= entered
    BY <1>2, <2>4, StandsSomewhere DEF InMirror
  <2> DEFINE b == Piece(wire, s, pos)
  <2>6. \/ /\ FromHeader(b) = <<>> /\ pos - s < entered
           /\ s = pos \/ (s < pos /\ b[1] \notin {85, 126})
        \/ \E e \in Nat : FromHeader(b) = Piece(wire, e, pos)
                          /\ AtHeader(wire, e, pos, arrived, got, entered)
    BY <2>2, <2>3, <2>4, <2>5, MirrorAhead
  <2>7. buffer = b
    BY <2>1
  <2>8. CASE FromHeader(b) = <<>> /\ pos - s < entered /\ (s = pos \/ (s < pos /\ b[1] \notin {85, 126}))
    <3> HIDE DEF b
    <3>1. Returns(b)
      BY <2>7, <2>8 DEF FmMirror
    <3>2. CASE s = pos
      <4>1. b = <<>> /\ Len(b) # entered
        BY <2>1, <2>5, <2>7, <3>2
      <4>2. Reading(wire, pos, arrived, buffer', got', loop', entered')
        BY <1>1, <2>2, <2>3, <3>1, <4>1, ReturnsRight DEF b
      <4> QED
        BY <1>1, <2>5, <4>2
    <3>3. CASE s < pos /\ b[1] \notin {85, 126}
      <4>1. Reading(wire, pos, arrived, buffer', got', loop', entered')
        BY <1>1, <2>2, <2>3, <2>5, <2>8, <3>1, <3>3, ReturnsPast DEF b
      <4> QED
        BY <1>1, <2>5, <4>1
    <3> QED
      BY <2>8, <3>2, <3>3
  <2>9. CASE \E e \in Nat : FromHeader(b) = Piece(wire, e, pos)
                            /\ AtHeader(wire, e, pos, arrived, got, entered)
    <3>1. PICK e \in Nat : FromHeader(b) = Piece(wire, e, pos)
                           /\ AtHeader(wire, e, pos, arrived, got, entered)
      BY <2>9
    <3> DEFINE c == Piece(wire, e, pos)
               length == LittleEndian(c, 3)
               n == 5 + length
    <3>2. FromHeader(buffer) = c
      BY <2>7, <3>1
    <3>3. Progress(wire, e, pos, arrived, got) /\ Survives(wire, e, pos)
      BY <3>1 DEF AtHeader
    <3>4. Len(c) = pos - e
      BY <3>3, PieceIs DEF Progress
    <3>5. MirrorReads(wire, e, pos, arrived, got, entered)
      BY <2>5, <3>1, MirrorIsRead
    <3>6. /\ HasHeader(c) /\ c # <<>>
          /\ Len(c) < 4 => (pos - e = entered => Spins(wire, e, pos))
          /\ ~(Len(c) < 4) =>
                 /\ ~(length = 0 \/ length > 256)
                 /\ Len(c) < n => (pos - e = entered => Spins(wire, e, pos))
                 /\ ~(Len(c) < n) =>
                        /\ Sealed(Take(c, n)) =>
                               Reading(wire, pos, arrived, Drop(c, n), got \o <<Take(c, n)>>, "mirror", entered)
                        /\ ~Sealed(Take(c, n)) /\ Len(c) = n => (pos - e = entered => Spins(wire, e, pos))
                        /\ ~Sealed(Take(c, n)) /\ Len(c) # n =>
                               Reading(wire, pos, arrived, Tail(c), got \o <<>>, "mirror", entered)
      BY <3>5 DEF MirrorReads
    <3> HIDE DEF c
    <3>7. IF c = <<>> THEN Returns(buffer)
          ELSE IF Len(c) < 4 THEN Returns(c)
          ELSE IF length = 0 \/ length > 256 THEN Goes("mirror", Tail(c), <<>>)
          ELSE IF Len(c) < n THEN Returns(c)
          ELSE IF Sealed(Take(c, n)) THEN Goes("mirror", Drop(c, n), <<Take(c, n)>>)
          ELSE IF Len(c) = n THEN Returns(c)
          ELSE Goes("mirror", Tail(c), <<>>)
      BY <3>2 DEF FmMirror
    <3> HIDE DEF length, n
    <3>8. ASSUME Returns(c), pos - e = entered => Spins(wire, e, pos)
          PROVE  entered' \in Nat /\ Reading(wire, pos, arrived, buffer', got', loop', entered')
      <4>1. Len(c) = entered => Spins(wire, e, pos)
        BY <3>4, <3>8
      <4>2. HasHeader(c)
        BY <3>6
      <4>3. Reading(wire, pos, arrived, buffer', got', loop', entered')
        BY <1>1, <3>3, <3>8, <4>1, <4>2, ReturnsRight DEF c
      <4> QED
        BY <1>1, <2>5, <4>3
    <3>9. CASE Len(c) < 4
      <4>1. Returns(c) /\ (pos - e = entered => Spins(wire, e, pos))
        BY <3>6, <3>7, <3>9
      <4> QED
        BY <3>8, <4>1
    <3>10. CASE ~(Len(c) < 4) /\ Len(c) < n
      <4>1. Returns(c) /\ (pos - e = entered => Spins(wire, e, pos))
        BY <3>6, <3>7, <3>10
      <4> QED
        BY <3>8, <4>1
    <3>11. CASE ~(Len(c) < 4) /\ ~(Len(c) < n) /\ Sealed(Take(c, n))
      <4>1. /\ Goes("mirror", Drop(c, n), <<Take(c, n)>>)
            /\ Reading(wire, pos, arrived, Drop(c, n), got \o <<Take(c, n)>>, "mirror", entered')
        BY <1>1, <3>6, <3>7, <3>11
      <4> QED
        BY <1>1, <2>5, <4>1, GoesTo
    <3>12. CASE ~(Len(c) < 4) /\ ~(Len(c) < n) /\ ~Sealed(Take(c, n)) /\ Len(c) = n
      <4>1. Returns(c) /\ (pos - e = entered => Spins(wire, e, pos))
        BY <3>6, <3>7, <3>12
      <4> QED
        BY <3>8, <4>1
    <3>13. CASE ~(Len(c) < 4) /\ ~(Len(c) < n) /\ ~Sealed(Take(c, n)) /\ Len(c) # n
      <4>1. /\ Goes("mirror", Tail(c), <<>>)
            /\ Reading(wire, pos, arrived, Tail(c), got \o <<>>, "mirror", entered')
        BY <1>1, <3>6, <3>7, <3>13
      <4> QED
        BY <1>1, <2>5, <4>1, GoesTo
    <3> QED
      BY <3>9, <3>10, <3>11, <3>12, <3>13
  <2> QED
    BY <2>6, <2>8, <2>9
<1> QED
  BY <1>1, <1>2, Lands

\* At rest, or in a spin, every frame received whole is before the place.
LEMMA AllBefore ==
    ASSUME NEW w, NEW s, NEW p, NEW all, NEW given, Progress(w, s, p, all, given),
           Rests(w, s, p) \/ Spins(w, s, p)
    PROVE  (\A j \in all : End(w, j) <= s) /\ Handed(w, given, all)
<1>1. w \in Wires /\ s \in Nat /\ p \in Nat /\ s <= p
  BY DEF Progress, Span
<1>2. /\ \A j \in all : j \in Items(w) /\ IsFrame(w, j) /\ End(w, j) <= p
      /\ Handed(w, given, {j \in all : End(w, j) <= s})
  BY DEF Progress
<1>3. s = p \/ \E k \in Items(w) : s = End(w, k - 1) /\ p <= End(w, k) /\ (p = End(w, k) => ~IsFrame(w, k))
  <2>1. ASSUME NEW k \in Items(w), p < End(w, k) PROVE p <= End(w, k) /\ p # End(w, k)
    BY <1>1, <2>1, ItemIs
  <2>2. ASSUME NEW k \in Items(w), Kind(w, k) = "damaged" PROVE ~IsFrame(w, k)
    BY <2>2 DEF IsFrame
  <2>3. ASSUME Rests(w, s, p), s # p
        PROVE  \E k \in Items(w) : s = End(w, k - 1) /\ p < End(w, k)
    BY <2>3 DEF Rests, Cuts
  <2>4. ASSUME Spins(w, s, p)
        PROVE  \E k \in Items(w) :
                  s = End(w, k - 1) /\ (p < End(w, k) \/ (Kind(w, k) = "damaged" /\ p = End(w, k)))
    BY <2>4 DEF Spins
  <2>5. CASE Rests(w, s, p)
    BY <2>1, <2>3, <2>5
  <2>6. CASE Spins(w, s, p)
    <3>1. PICK k \in Items(w) :
             s = End(w, k - 1) /\ (p < End(w, k) \/ (Kind(w, k) = "damaged" /\ p = End(w, k)))
      BY <2>4, <2>6
    <3>2. p <= End(w, k)
      BY <1>1, <2>1, <3>1, ItemIs
    <3>3. p = End(w, k) => ~IsFrame(w, k)
      BY <2>1, <2>2, <3>1
    <3> QED
      BY <3>1, <3>2, <3>3
  <2> QED
    BY <2>5, <2>6
<1>4. ASSUME NEW j \in all PROVE End(w, j) <= s
  <2>1. j \in Items(w) /\ IsFrame(w, j) /\ End(w, j) <= p /\ End(w, j) \in Nat
    BY <1>1, <1>2, ItemIs
  <2>2. CASE s = p
    BY <2>1, <2>2
  <2>3. CASE s # p
    <3>1. PICK k \in Items(w) : s = End(w, k - 1) /\ p <= End(w, k) /\ (p = End(w, k) => ~IsFrame(w, k))
      BY <1>3, <2>3
    <3>2. End(w, k) \in Nat /\ k \in Nat /\ j \in Nat
      BY <1>1, <2>1, EndsAre, ItemIs
    <3>3. j # k
      BY <1>1, <2>1, <3>1, <3>2
    <3>4. CASE j < k
      BY <1>1, <2>1, <3>1, <3>4, Apart
    <3>5. CASE k < j
      <4>1. End(w, k) <= End(w, j - 1) /\ End(w, j - 1) < End(w, j) /\ End(w, j - 1) \in Nat
        BY <1>1, <2>1, <3>5, Apart, ItemIs
      <4> QED
        BY <1>1, <2>1, <3>1, <3>2, <4>1
    <3> QED
      BY <3>2, <3>3, <3>4, <3>5
  <2> QED
    BY <2>2, <2>3
<1>5. {j \in all : End(w, j) <= s} = all
  BY <1>4
<1> QED
  BY <1>2, <1>4, <1>5, Zenon

\* More bytes arrive.
LEMMA ReadKeeps ==
    ASSUME ReaderInv, Read PROVE ReaderInv'
<1>1. CASE orderly'
  <2>1. /\ loop = "idle" /\ pos' \in (pos + 1)..Len(wire.bytes)
        /\ buffer' = buffer \o Piece(wire, pos, pos')
        /\ arrived' = arrived \cup {k \in Items(wire) :
                             IsFrame(wire, k) /\ pos < End(wire, k) /\ End(wire, k) <= pos'}
        /\ orderly /\ Survives(wire, pos - Len(buffer), pos')
        /\ loop' = "outer" /\ wire' = wire /\ entered' = entered /\ got' = got
    BY <1>1 DEF Read
  <2>2. PICK s \in Nat : /\ buffer = Piece(wire, s, pos) /\ Progress(wire, s, pos, arrived, got)
                         /\ Len(buffer) = pos - s /\ pos \in Nat /\ s <= pos
    BY <2>1, StandsSomewhere
  <2>3. ~Misguessed(wire) /\ entered \in Nat
    BY <2>1, StandsSomewhere
  <2>4. /\ Span(wire, s, pos) /\ Placed(wire, s) /\ wire \in Wires
        /\ \A k \in arrived : k \in Items(wire) /\ IsFrame(wire, k) /\ End(wire, k) <= pos
        /\ \A k \in Items(wire) :
              IsFrame(wire, k) /\ s <= End(wire, k - 1) /\ End(wire, k) <= pos => k \in arrived
        /\ got \in Seq(Seq(Byte)) /\ Handed(wire, got, {k \in arrived : End(wire, k) <= s})
    BY <2>2 DEF Progress, Span
  <2>5. pos' \in Nat /\ pos < pos' /\ pos' <= Len(wire.bytes)
    <3>1. Len(wire.bytes) \in Nat
      BY <2>4, EndsAre
    <3> QED
      BY <2>1, <2>2, <3>1
  <2>6. Span(wire, pos, pos')
    BY <2>2, <2>4, <2>5 DEF Span
  <2>7. Span(wire, s, pos') /\ buffer' = Piece(wire, s, pos')
    <3>1. Span(wire, s, pos) /\ Span(wire, pos, pos')
      BY <2>4, <2>6
    <3>2. Span(wire, s, pos')
      BY <3>1, JoinIs
    <3>3. Piece(wire, s, pos) \o Piece(wire, pos, pos') = Piece(wire, s, pos')
      BY <3>1, JoinIs
    <3> QED
      BY <2>1, <2>2, <3>2, <3>3
  <2>8. Survives(wire, s, pos')
    <3>1. pos - Len(buffer) = s
      BY <2>2
    <3> QED
      BY <2>1, <3>1
  <2>9. \A k \in arrived' : k \in Items(wire) /\ IsFrame(wire, k) /\ End(wire, k) <= pos'
    <3>1. ASSUME NEW k \in arrived PROVE End(wire, k) <= pos'
      <4>1. k \in Items(wire) /\ End(wire, k) <= pos
        BY <2>4
      <4>2. End(wire, k) \in Nat
        BY <2>4, <4>1, ItemIs
      <4> QED
        BY <2>2, <2>5, <4>1, <4>2
    <3> QED
      BY <2>1, <2>4, <3>1
  <2>10. ASSUME NEW k \in Items(wire), IsFrame(wire, k), s <= End(wire, k - 1), End(wire, k) <= pos'
         PROVE  k \in arrived'
    <3>1. End(wire, k) \in Nat
      BY <2>4, ItemIs
    <3>2. CASE End(wire, k) <= pos
      BY <2>1, <2>4, <2>10, <3>2
    <3>3. CASE pos < End(wire, k)
      BY <2>1, <2>10, <3>3
    <3> QED
      BY <2>2, <3>1, <3>2, <3>3
  <2>11. Handed(wire, got, {k \in arrived' : End(wire, k) <= s})
    <3>1. ASSUME NEW k \in Items(wire), pos < End(wire, k) PROVE ~(End(wire, k) <= s)
      <4>1. End(wire, k) \in Nat
        BY <2>4, ItemIs
      <4> QED
        BY <2>2, <3>1, <4>1
    <3>2. {k \in arrived' : End(wire, k) <= s} = {k \in arrived : End(wire, k) <= s}
      BY <2>1, <3>1
    <3> QED
      BY <2>4, <3>2, Zenon
  <2>12. Progress(wire, s, pos', arrived', got)
    BY <2>4, <2>7, <2>9, <2>10, <2>11 DEF Progress
  <2>13. Stands(wire, s, pos', "outer", entered)
    BY <2>8 DEF Stands
  <2>14. Reading(wire, pos', arrived', buffer', got, "outer", entered)
    BY <2>7, <2>12, <2>13, GoesOn
  <2>15. ~Misguessed(wire') /\ entered' \in Nat
         /\ Reading(wire', pos', arrived', buffer', got', loop', entered')
    BY <2>1, <2>3, <2>14
  <2> QED
    BY <2>15 DEF ReaderInv
<1>2. CASE ~orderly'
  BY <1>2 DEF ReaderInv
<1> QED
  BY <1>1, <1>2

\* The link goes down and comes up behind the item.
LEMMA RelinkKeeps ==
    ASSUME ReaderInv, Relink PROVE ReaderInv'
<1>1. CASE orderly'
  <2>1. /\ loop = "idle" /\ orderly /\ loop' = loop
        /\ wire' = wire /\ entered' = entered /\ got' = got /\ arrived' = arrived
        /\ buffer' = <<>>
    BY <1>1 DEF Relink
  <2>2. PICK k \in Items(wire) : Cuts(wire, pos, k) /\ pos' = End(wire, k)
    BY DEF Relink
  <2>3. PICK s \in Nat : /\ Progress(wire, s, pos, arrived, got) /\ Stands(wire, s, pos, loop, entered)
                         /\ pos \in Nat
    BY <2>1, StandsSomewhere
  <2>4. ~Misguessed(wire) /\ entered \in Nat
    BY <2>1, StandsSomewhere
  <2>5. /\ wire \in Wires /\ got \in Seq(Seq(Byte))
        /\ \A j \in arrived : j \in Items(wire) /\ IsFrame(wire, j) /\ End(wire, j) <= pos
    BY <2>3 DEF Progress, Span
  <2>6. Handed(wire, got, arrived)
    <3>1. Rests(wire, s, pos)
      BY <2>1, <2>3 DEF Stands
    <3> QED
      BY <2>3, <3>1, AllBefore
  <2> DEFINE e == End(wire, k)
  <2>7. e \in Nat /\ pos < e /\ e <= Len(wire.bytes)
    BY <2>2, <2>5, ItemIs DEF Cuts
  <2>8. Span(wire, e, e) /\ Start(wire, e)
    BY <2>5, <2>7, EndsAre DEF Span, Start
  <2>9. \A j \in arrived : j \in Items(wire) /\ IsFrame(wire, j) /\ End(wire, j) <= e
    <3>1. ASSUME NEW j \in arrived PROVE End(wire, j) <= e
      <4>1. j \in Items(wire) /\ End(wire, j) <= pos
        BY <2>5
      <4>2. End(wire, j) \in Nat
        BY <2>5, <4>1, ItemIs
      <4> QED
        BY <2>3, <2>7, <4>1, <4>2
    <3> QED
      BY <2>5, <3>1
  <2>10. ASSUME NEW j \in Items(wire), e <= End(wire, j - 1), End(wire, j) <= e
         PROVE  FALSE
    <3>1. End(wire, j - 1) \in Nat /\ End(wire, j) \in Nat /\ End(wire, j - 1) < End(wire, j)
      BY <2>5, ItemIs
    <3> HIDE DEF e
    <3> QED
      BY <2>7, <2>10, <3>1
  <2>11. Handed(wire, got, {j \in arrived : End(wire, j) <= e})
    <3>1. {j \in arrived : End(wire, j) <= e} = arrived
      BY <2>9
    <3> QED
      BY <2>6, <3>1, Zenon
  <2>12. Progress(wire, e, e, arrived, got)
    BY <2>5, <2>8, <2>9, <2>10, <2>11 DEF Progress, Placed
  <2>13. Stands(wire, e, e, "idle", entered)
    BY DEF Stands, Rests
  <2>14. Piece(wire, e, e) = <<>>
    <3>1. Len(Piece(wire, e, e)) = e - e /\ Piece(wire, e, e) \in Seq(Byte)
      BY <2>8, PieceIs
    <3> QED
      BY <2>7, <3>1
  <2>15. Reading(wire, e, arrived, <<>>, got, "idle", entered)
    BY <2>12, <2>13, <2>14, GoesOn
  <2>16. ~Misguessed(wire') /\ entered' \in Nat
         /\ Reading(wire', pos', arrived', buffer', got', loop', entered')
    BY <2>1, <2>2, <2>4, <2>15
  <2> QED
    BY <2>16 DEF ReaderInv
<1>2. CASE ~orderly'
  BY <1>2 DEF ReaderInv
<1> QED
  BY <1>1, <1>2

\* Nothing was sent yet.
LEMMA ReaderInitially ==
    ASSUME ReaderInit PROVE ReaderInv
<1>1. wire \in Wires /\ pos = 0 /\ buffer = <<>> /\ loop = "idle" /\ entered = 0 /\ got = <<>>
      /\ arrived = {} /\ orderly = ~Misguessed(wire)
  BY DEF ReaderInit
<1>2. Span(wire, 0, 0) /\ Start(wire, 0)
  BY <1>1, EndsAre DEF Span, Start
<1>3. ASSUME NEW j \in Items(wire), End(wire, j) <= 0 PROVE FALSE
  <2>1. End(wire, j - 1) \in Nat /\ End(wire, j) \in Nat /\ End(wire, j - 1) < End(wire, j)
    BY <1>1, ItemIs
  <2> QED
    BY <1>3, <2>1
<1>4. Handed(wire, <<>>, {})
  <2> DEFINE nth == [i \in 1..Len(<<>>) |-> i]
  <2>1. 1..Len(<<>>) = {}
    OBVIOUS
  <2>2. nth \in [1..Len(<<>>) -> {}]
    BY <2>1
  <2> HIDE DEF nth
  <2> QED
    BY <2>1, <2>2 DEF Handed
<1>5. Progress(wire, 0, 0, {}, <<>>)
  <2>1. {k \in {} : End(wire, k) <= 0} = {}
    OBVIOUS
  <2>2. Handed(wire, <<>>, {k \in {} : End(wire, k) <= 0})
    BY <1>4, <2>1, Zenon
  <2>3. <<>> \in Seq(Seq(Byte))
    OBVIOUS
  <2> QED
    BY <1>2, <1>3, <2>2, <2>3 DEF Progress, Placed
<1>6. Stands(wire, 0, 0, "idle", 0)
  BY DEF Stands, Rests
<1>7. Piece(wire, 0, 0) = <<>>
  <2>1. Len(Piece(wire, 0, 0)) = 0 - 0 /\ Piece(wire, 0, 0) \in Seq(Byte)
    BY <1>2, PieceIs
  <2> QED
    BY <2>1
<1>8. Reading(wire, 0, {}, <<>>, <<>>, "idle", 0)
  BY <1>5, <1>6, <1>7, GoesOn
<1> QED
  BY <1>1, <1>8 DEF ReaderInv

\* Every step keeps the invariant.
LEMMA ReaderStep ==
    ASSUME ReaderInv, [ReaderNext]_readerVars PROVE ReaderInv'
<1>1. ASSUME ReaderNext PROVE ReaderInv'
  BY <1>1, ReadKeeps, RelinkKeeps, AaKeeps, TtKeeps, EmptyKeeps, IapKeeps, AckKeeps, StatusKeeps,
     EnterKeeps, LegacyKeeps, MirrorKeeps DEF ReaderNext
<1>2. ASSUME UNCHANGED readerVars PROVE ReaderInv'
  BY <1>2 DEF ReaderInv, readerVars
<1> QED
  BY <1>1, <1>2

\* The inductive invariant holds throughout.
LEMMA ReaderInvariant == ReaderSpec => []ReaderInv
<1>1. ReaderInit => ReaderInv
  BY ReaderInitially
<1>2. ReaderInv /\ [ReaderNext]_readerVars => ReaderInv'
  BY ReaderStep
<1> QED
  BY <1>1, <1>2, PTL DEF ReaderSpec

\* A reader that spins has an item before it that only an inner loop takes.
LEMMA SpinIsStuck ==
    ASSUME NEW s, Progress(wire, s, pos, arrived, got), Spins(wire, s, pos), buffer # <<>>
    PROVE  Stuck
<1>1. wire \in Wires
  BY DEF Progress, Span
<1>2. PICK k \in Items(wire) :
        /\ s = End(wire, k - 1) /\ s + 2 <= pos
        /\ \/ Kind(wire, k) \in Inner /\ pos < End(wire, k) /\ ~AckPrefix(Piece(wire, s, pos))
           \/ Kind(wire, k) = "damaged" /\ pos = End(wire, k)
  BY DEF Spins
<1>3. wire.reader = "fm"
  <2>1. Kind(wire, k) \notin {"frame", "noise"}
    BY <1>2 DEF Inner
  <2> QED
    BY <1>1, <2>1, WiresAssumption
<1> QED
  BY <1>2, <1>3 DEF Stuck, Inner

\* A reader at rest does not wait for one.
LEMMA RestIsNotStuck ==
    ASSUME NEW s, Progress(wire, s, pos, arrived, got), Rests(wire, s, pos), buffer = Piece(wire, s, pos)
    PROVE  ~Stuck
<1>1. wire \in Wires /\ s \in Nat /\ pos \in Nat /\ s <= pos /\ Span(wire, s, pos)
  BY DEF Progress, Span
<1>2. SUFFICES ASSUME Stuck PROVE FALSE
  OBVIOUS
<1>3. s # pos
  <2>1. Piece(wire, s, pos) \in Seq(Byte) /\ Len(Piece(wire, s, pos)) = pos - s
    BY <1>1, PieceIs
  <2>2. Piece(wire, s, pos) # <<>>
    BY <1>2 DEF Stuck
  <2> QED
    BY <1>1, <2>1, <2>2
<1>4. PICK k \in Items(wire) :
        /\ s = End(wire, k - 1) /\ Cuts(wire, pos, k)
        /\ Kind(wire, k) \in Inner => pos = s + 1 \/ AckPrefix(Piece(wire, s, pos))
  BY <1>3 DEF Rests
<1>5. PICK j \in Items(wire) :
        \/ /\ Kind(wire, j) \in Inner
           /\ End(wire, j - 1) + 2 <= pos /\ pos < End(wire, j)
           /\ ~AckPrefix(Piece(wire, End(wire, j - 1), pos))
        \/ Kind(wire, j) = "damaged" /\ pos = End(wire, j)
  BY <1>2 DEF Stuck, Inner
<1>6. /\ End(wire, j - 1) \in Nat /\ End(wire, j) \in Nat /\ End(wire, j - 1) < End(wire, j)
      /\ End(wire, k - 1) \in Nat /\ End(wire, k) \in Nat /\ j \in Nat /\ k \in Nat
  BY <1>1, EndsAre, ItemIs
<1>7. s < pos /\ pos < End(wire, k)
  BY <1>4 DEF Cuts
<1>8. CASE j < k
  <2>1. End(wire, j) <= s
    BY <1>1, <1>4, <1>8, Apart
  <2> QED
    BY <1>1, <1>5, <1>6, <1>7, <2>1
<1>9. CASE k < j
  <2>1. End(wire, k) <= End(wire, j - 1)
    BY <1>1, <1>9, Apart
  <2> QED
    BY <1>1, <1>5, <1>6, <1>7, <2>1
<1>10. CASE j = k
  <2>1. pos # End(wire, j)
    BY <1>6, <1>7, <1>10
  <2>2. s + 2 <= pos /\ ~AckPrefix(Piece(wire, s, pos)) /\ Kind(wire, k) \in Inner
    BY <1>4, <1>5, <1>10, <2>1
  <2> QED
    BY <1>1, <1>4, <2>2
<1> QED
  BY <1>6, <1>8, <1>9, <1>10

(* Whatever the device sends and wherever it is cut into reads: at rest    *)
(* the bridge has handed over exactly the frames received whole, once each *)
(* and in order, and the fast mirror's outer loop spins exactly when a     *)
(* read ends inside a frame only an inner loop waits for.                  *)
THEOREM ReadersAreExact == ReaderSpec => []ReadsAreExact
<1>1. ReaderInv => ReadsAreExact
  <2>1. SUFFICES ASSUME ReaderInv, orderly, loop \in {"idle", "spin"}
                 PROVE  Handed(wire, got, arrived) /\ (loop = "spin") = Stuck
    BY DEF ReadsAreExact
  <2>2. PICK s \in Nat : /\ buffer = Piece(wire, s, pos) /\ Progress(wire, s, pos, arrived, got)
                         /\ Stands(wire, s, pos, loop, entered)
                         /\ s <= pos /\ pos \in Nat /\ (buffer = <<>> <=> s = pos)
    BY <2>1, StandsSomewhere
  <2>3. loop = "idle" => Rests(wire, s, pos)
    BY <2>2 DEF Stands
  <2>4. loop = "spin" => Spins(wire, s, pos)
    BY <2>2 DEF Stands
  <2>5. Handed(wire, got, arrived)
    BY <2>1, <2>2, <2>3, <2>4, AllBefore
  <2>6. CASE loop = "idle"
    <3>1. ~Stuck
      BY <2>2, <2>3, <2>6, RestIsNotStuck
    <3>2. Stuck \in BOOLEAN
      BY DEF Stuck
    <3> QED
      BY <2>5, <2>6, <3>1, <3>2
  <2>7. CASE loop = "spin"
    <3>1. buffer # <<>>
      BY <2>2, <2>4, <2>7 DEF Spins
    <3>2. Stuck
      BY <2>2, <2>4, <2>7, <3>1, SpinIsStuck
    <3>3. Stuck \in BOOLEAN
      BY DEF Stuck
    <3> QED
      BY <2>5, <2>7, <3>2, <3>3
  <2> QED
    BY <2>1, <2>6, <2>7
<1> QED
  BY <1>1, ReaderInvariant, PTL

================================================================================

--------------------------- MODULE BtpParserProofs ---------------------------
(***************************************************************************)
(* For every stream and every way it is cut into segments: the parser of   *)
(* btp_parser.py handles the messages that are complete, and its records   *)
(* are those of these messages.                                            *)
(***************************************************************************)
EXTENDS BtpParser, SequenceTheorems, SetInduction

\* What a message is given to.
Targets == ExtNames \cup {NoName}

Parsers ==
  [buf : Seq(Nat \X Nat), nextLen : Nat, readingLen : BOOLEAN, hadHandshake : BOOLEAN,
   wrong : BOOLEAN, assoc : [1 .. MaxNumber -> Targets], handled : Seq(Nat \X Targets)]

Reports == [pieces : Int, maxPieceLen : Int, sentPieces : Nat]

-----------------------------------------------------------------------------
(* What is read: the first i items have been, and the rest is in the buffer. *)

\* The buffer holds the bytes of s behind the first `from', up to `to'.
Holds(s, buf, from, to) ==
  /\ Len(buf) = to - from
  /\ \A k \in 1 .. Len(buf) : buf[k] = Bytes(s)[from + k]

Before(s, kinds, i) == {j \in 1 .. i : s.items[j].kind \in kinds}

Args(s, kinds, i) == {s.items[j].arg : j \in Before(s, kinds, i)}

Greatest(v, S) == IF S = {} THEN v = -1 ELSE v \in S /\ \A x \in S : x \leq v

\* The length of pieces that follows from blocks that end at `reach' at most.
Covers(len, reach) ==
  IF reach = -1 THEN len = -1
  ELSE /\ len \geq reach
       /\ \E k \in 0 .. reach : len = PowerOfTwo[k]
       /\ (len \div 2 < reach \/ len \div 2 < 1)

Reported(s, r, i) ==
  /\ r.sentPieces = Cardinality(Before(s, {"piece"}, i))
  /\ \E bytes \in {-1} \cup Args(s, {"bitfield"}, i) :
       /\ Greatest(bytes, Args(s, {"bitfield"}, i))
       /\ r.pieces = IF bytes = -1 THEN -1 ELSE 8 * bytes
  /\ \E reach \in {-1} \cup Args(s, {"request", "cancel"}, i) :
       /\ Greatest(reach, Args(s, {"request", "cancel"}, i))
       /\ Covers(r.maxPieceLen, reach)

\* Property Names, of the first i items.
NamedBy(s, n, x, i) ==
  \E j \in Before(s, {"exthandshake"}, i) :
    /\ s.items[j].number = n /\ s.items[j].name = x
    /\ \A k \in Before(s, {"exthandshake"}, i) : k > j =>
         /\ s.items[k].number # n
         /\ ~(s.items[k].number = 0 /\ s.items[k].name = x)

Assigned(s, assoc, i) ==
  \A n \in 1 .. MaxNumber, x \in ExtNames : assoc[n] = x <=> NamedBy(s, n, x, i)

Taken(s, handled, i) ==
  /\ \A k \in DOMAIN handled : handled[k][1] \in 1 .. i /\ s.items[handled[k][1]].len > 0
  /\ \A j \in 1 .. i : s.items[j].len > 0 => \E k \in DOMAIN handled : handled[k][1] = j
  /\ \A k, l \in DOMAIN handled : k < l => handled[k][1] < handled[l][1]

Given(s, handled) ==
  \A k \in DOMAIN handled :
    LET h == handled[k]
    IN  s.items[h[1]].kind = "extended" =>
          \A x \in ExtNames : h[2] = x <=> NamedBy(s, s.items[h[1]].number, x, h[1] - 1)

ReadUpTo(s, p, r, i) ==
  /\ Reported(s, r, i)
  /\ Assigned(s, p.assoc, i)
  /\ Taken(s, p.handled, i)
  /\ Given(s, p.handled)

\* The stages of the loop, t bytes having been put into the buffer.
AwaitsHandshake(s, p, i, t) ==
  /\ i = 0 /\ ~p.hadHandshake /\ ~p.readingLen
  /\ p.nextLen = HandshakeLen
  /\ Holds(s, p.buf, 0, t)

AwaitsPrefix(s, p, i, t) ==
  /\ p.hadHandshake /\ p.readingLen
  /\ p.nextLen = PrefixLen
  /\ Holds(s, p.buf, ItemEnd(s, i), t)

AwaitsBody(s, p, i, t) ==
  /\ p.hadHandshake /\ ~p.readingLen
  /\ i < Len(s.items) /\ p.nextLen = s.items[i + 1].len
  /\ Holds(s, p.buf, ItemEnd(s, i) + PrefixLen, t)

Stage(s, p, i, t) ==
  AwaitsHandshake(s, p, i, t) \/ AwaitsPrefix(s, p, i, t) \/ AwaitsBody(s, p, i, t)

Reading(s, t) ==
  {pr \in Parsers \X Reports :
     /\ ~pr[1].wrong
     /\ \E i \in 0 .. Len(s.items) : Stage(s, pr[1], i, t) /\ ReadUpTo(s, pr[1], pr[2], i)}

\* Between segments the loop has ended.
Parsed ==
  /\ stream \in Streams
  /\ taken \in 0 .. Len(Bytes(stream))
  /\ stream.ok => /\ <<parser, report>> \in Reading(stream, taken)
                  /\ Len(parser.buf) < parser.nextLen

-----------------------------------------------------------------------------
(* Where the items are. *)

Good(s) ==
  /\ s.ok \in BOOLEAN
  /\ s.items \in Seq(Items)
  /\ \A i \in DOMAIN s.items :
       LET m == s.items[i]
       IN  /\ m.len = 0 => m.kind = "keepalive"
           /\ m.kind = "exthandshake" => m.name \in ExtNames
           /\ m.kind = "extended" => m.number # 0

LEMMA StreamsAreGood == \A s \in Streams : Good(s)
BY StreamsAssumption DEF Good

\* The fields of an item.
LEMMA ItemType ==
  ASSUME NEW s, Good(s)
  PROVE  /\ Len(s.items) \in Nat
         /\ \A i \in 1 .. Len(s.items) :
              /\ s.items[i].kind \in Kinds /\ s.items[i].len \in Nat /\ s.items[i].arg \in Nat
              /\ s.items[i].number \in 0 .. MaxNumber /\ s.items[i].name \in Targets
              /\ s.items[i].len = 0 => s.items[i].kind = "keepalive"
              /\ s.items[i].kind = "exthandshake" => s.items[i].name \in ExtNames
              /\ s.items[i].kind = "extended" => s.items[i].number # 0
<1>1. s.items \in Seq(Items)
  BY DEF Good
<1>2. Len(s.items) \in Nat /\ DOMAIN s.items = 1 .. Len(s.items)
  BY <1>1
<1>3. \A i \in 1 .. Len(s.items) : s.items[i] \in Items
  BY <1>1
<1> QED
  BY <1>2, <1>3 DEF Good, Items, Targets

LEMMA Scale == HandshakeLen \in Nat /\ HandshakeLen > 0 /\ PrefixLen \in Nat /\ PrefixLen > 0
BY ScaleAssumption

\* The sizes of the first i items, prefixes included.
Sizes(s, i) == [j \in 1 .. i |-> PrefixLen + s.items[j].len]

LEMMA ItemEndIs ==
  ASSUME NEW s, NEW i
  PROVE  ItemEnd(s, i) = HandshakeLen + SumOver(Sizes(s, i), 1 .. i)
BY DEF ItemEnd, SumOver, Sizes

\* Items follow one another.
LEMMA ItemEnds ==
  ASSUME NEW s, Good(s)
  PROVE  /\ ItemEnd(s, 0) = HandshakeLen
         /\ \A i \in 0 .. Len(s.items) : ItemEnd(s, i) \in Int
         /\ \A i \in 0 .. Len(s.items) - 1 :
              ItemEnd(s, i + 1) = ItemEnd(s, i) + PrefixLen + s.items[i + 1].len
<1>1. \A i \in 0 .. Len(s.items) : Summable(Sizes(s, i), 1 .. i)
  <2> SUFFICES ASSUME NEW i \in 0 .. Len(s.items) PROVE Summable(Sizes(s, i), 1 .. i)
    OBVIOUS
  <2>1. IsFiniteSet(1 .. i) /\ i \in Int
    BY FS_Interval, ItemType
  <2>2. \A j \in 1 .. i : j \in 1 .. Len(s.items)
    BY ItemType
  <2> QED
    BY <2>1, <2>2, ItemType, Scale DEF Summable, Sizes
<1>2. ItemEnd(s, 0) = HandshakeLen
  <2>1. 1 .. 0 = {} /\ 0 \in 0 .. Len(s.items)
    BY ItemType
  <2>2. SumOver(Sizes(s, 0), 1 .. 0) = 0
    BY <1>1, <2>1, SumOverStep
  <2> QED
    BY <2>2, ItemEndIs, Scale
<1>3. ASSUME NEW i \in 0 .. Len(s.items) PROVE ItemEnd(s, i) \in Int
  <2>1. SumOver(Sizes(s, i), 1 .. i) \in Int
    BY <1>1, SumOverStep
  <2> QED
    BY <2>1, ItemEndIs, Scale
<1>4. ASSUME NEW i \in 0 .. Len(s.items) - 1
      PROVE  ItemEnd(s, i + 1) = ItemEnd(s, i) + PrefixLen + s.items[i + 1].len
  <2> DEFINE f == Sizes(s, i)  g == Sizes(s, i + 1)  S == 1 .. i
  <2>1. i \in Nat /\ i + 1 \in 1 .. Len(s.items) /\ i \in 0 .. Len(s.items)
    BY ItemType
  <2>2. i + 1 \notin S /\ 1 .. i + 1 = S \cup {i + 1}
    BY <2>1
  <2>3. \A j \in S : g[j] = f[j]
    BY <2>1 DEF Sizes
  <2>4. g[i + 1] = PrefixLen + s.items[i + 1].len /\ g[i + 1] \in Int
    BY <2>1, ItemType, Scale DEF Sizes
  <2>5. Summable(f, S)
    BY <1>1, <2>1
  <2>6. Summable(g, S) /\ SumOver(g, S) = SumOver(f, S) /\ SumOver(f, S) \in Int
    <3>1. SumOver(g, S) = SumOver(f, S) /\ SumOver(f, S) \in Int
      <4> HIDE DEF f, g, S
      <4>1. SumOver(f, S) \in Int
        BY <2>5, SumOverStep
      <4>2. SumOver(g, S) = SumOver(f, S)
        BY <2>3, <2>5, SumOverSame
      <4> QED
        BY <4>1, <4>2
    <3>2. Summable(g, S)
      BY <2>3, <2>5 DEF Summable
    <3> QED
      BY <3>1, <3>2
  <2>7. SumOver(g, S \cup {i + 1}) = g[i + 1] + SumOver(g, S)
    <3> HIDE DEF f, g, S
    <3> QED
      BY <2>2, <2>4, <2>6, SumOverAdds
  <2>8. ItemEnd(s, i + 1) = HandshakeLen + SumOver(g, S \cup {i + 1})
    BY <2>2, ItemEndIs
  <2>9. ItemEnd(s, i) = HandshakeLen + SumOver(f, S)
    BY ItemEndIs
  <2>10. s.items[i + 1].len \in Nat
    BY <2>1, ItemType
  <2>11. SumOver(g, S \cup {i + 1}) = (PrefixLen + s.items[i + 1].len) + SumOver(f, S)
    <3> HIDE DEF f, g, S
    <3> QED
      BY <2>4, <2>6, <2>7
  <2>12. SumOver(f, S) \in Int
    BY <2>6
  <2> DEFINE sum == SumOver(f, S)  grown == SumOver(g, S \cup {i + 1})
             len == s.items[i + 1].len
  <2>13. ItemEnd(s, i + 1) = HandshakeLen + grown /\ ItemEnd(s, i) = HandshakeLen + sum
    BY <2>8, <2>9
  <2>14. grown = (PrefixLen + len) + sum /\ sum \in Int /\ len \in Nat
    BY <2>10, <2>11, <2>12
  <2>15. PrefixLen \in Nat /\ HandshakeLen \in Nat
    BY Scale
  <2> SUFFICES ItemEnd(s, i + 1) = ItemEnd(s, i) + PrefixLen + len
    OBVIOUS
  <2> HIDE DEF sum, grown, len
  <2>16. HandshakeLen + grown = (HandshakeLen + sum) + PrefixLen + len
    BY <2>14, <2>15
  <2> QED
    BY <2>13, <2>16
<1> QED
  BY <1>2, <1>3, <1>4

\* A later item ends later.
LEMMA ItemEndsGrow ==
  ASSUME NEW s, Good(s)
  PROVE  \A i, j \in 0 .. Len(s.items) :
           /\ i \leq j => ItemEnd(s, i) \leq ItemEnd(s, j)
           /\ i < j => ItemEnd(s, i) < ItemEnd(s, j)
           /\ ItemEnd(s, i) \in Nat /\ HandshakeLen \leq ItemEnd(s, i)
<1> DEFINE L == Len(s.items)
           e(i) == ItemEnd(s, i)
           G == {n \in Nat : n \leq L => \A i \in 0 .. n : i < n => e(i) < e(n)}
<1>1. L \in Nat
  BY ItemType
<1>2. \A i \in 0 .. L : e(i) \in Int
  BY ItemEnds
<1>3. \A i \in 0 .. L - 1 : e(i) < e(i + 1)
  <2> SUFFICES ASSUME NEW i \in 0 .. L - 1 PROVE e(i) < e(i + 1)
    OBVIOUS
  <2>1. i + 1 \in 1 .. L /\ i \in 0 .. L
    BY <1>1
  <2>2. s.items[i + 1].len \in Nat
    BY <2>1, ItemType
  <2> QED
    BY <1>2, <2>1, <2>2, ItemEnds, Scale
<1> HIDE DEF e, L
<1>4. Nat \subseteq G
  <2>1. 0 \in G
    OBVIOUS
  <2>2. ASSUME NEW n \in Nat, n \in G PROVE n + 1 \in G
    <3> SUFFICES ASSUME n + 1 \leq L, NEW i \in 0 .. n + 1, i < n + 1 PROVE e(i) < e(n + 1)
      OBVIOUS
    <3>1. n \in 0 .. L - 1 /\ n \in 0 .. L /\ n + 1 \in 0 .. L /\ i \in 0 .. n /\ i \in 0 .. L
      BY <1>1
    <3>2. e(n) < e(n + 1)
      BY <1>3, <3>1
    <3>3. i < n => e(i) < e(n)
      BY <1>1, <2>2, <3>1
    <3>4. e(i) \in Int /\ e(n) \in Int /\ e(n + 1) \in Int
      BY <1>2, <3>1
    <3>5. CASE i = n
      BY <3>2, <3>5
    <3>6. CASE i < n
      BY <3>2, <3>3, <3>4, <3>6
    <3> QED
      BY <3>1, <3>5, <3>6
  <2> HIDE DEF G
  <2> QED
    BY <2>1, <2>2, NatSetInduction
<1>5. ASSUME NEW i \in 0 .. L, NEW j \in 0 .. L, i < j PROVE e(i) < e(j)
  <2>1. j \in Nat /\ j \leq L /\ i \in 0 .. j
    BY <1>1, <1>5
  <2>2. j \in G
    BY <1>4, <2>1
  <2> QED
    BY <1>5, <2>1, <2>2
<1>6. e(0) = HandshakeLen
  BY ItemEnds DEF e
<1>7. ASSUME NEW i \in 0 .. L PROVE e(i) \in Nat /\ HandshakeLen \leq e(i)
  <2>1. 0 \in 0 .. L /\ (i = 0 \/ 0 < i)
    BY <1>1
  <2>2. i = 0 \/ e(0) < e(i)
    BY <1>5, <2>1
  <2> QED
    BY <1>2, <1>6, <2>2, Scale
<1>8. ASSUME NEW i \in 0 .. L, NEW j \in 0 .. L, i \leq j PROVE e(i) \leq e(j)
  <2>1. i = j \/ i < j
    BY <1>1, <1>8
  <2>2. e(i) \in Int /\ e(j) \in Int
    BY <1>2
  <2> QED
    BY <1>5, <2>1, <2>2
<1>9. \A i, j \in 0 .. L : /\ i \leq j => e(i) \leq e(j)
                           /\ i < j => e(i) < e(j)
                           /\ e(i) \in Nat /\ HandshakeLen \leq e(i)
  BY <1>5, <1>7, <1>8
<1> QED
  BY <1>9 DEF e, L

\* Byte k of the item behind the first i.
LEMMA ByteOfItem ==
  ASSUME NEW s, Good(s), NEW i \in 0 .. Len(s.items) - 1,
         NEW k \in 1 .. PrefixLen + s.items[i + 1].len
  PROVE  Bytes(s)[ItemEnd(s, i) + k] = <<i + 1, k - 1>>
<1> DEFINE L == Len(s.items)
           at == ItemEnd(s, i) + k
           Is(j) == ItemEnd(s, j - 1) < at /\ at \leq ItemEnd(s, j)
<1>1. L \in Nat /\ i \in 0 .. L /\ i + 1 \in 1 .. L /\ i + 1 \in 0 .. L /\ i \in Nat
  BY ItemType
<1>2. /\ s.items[i + 1].len \in Nat /\ k \in Nat /\ k > 0
      /\ k \leq PrefixLen + s.items[i + 1].len
  BY <1>1, ItemType, Scale
<1>3. /\ ItemEnd(s, i) \in Nat /\ HandshakeLen \leq ItemEnd(s, i) /\ L \in 0 .. L
      /\ ItemEnd(s, i + 1) \leq ItemEnd(s, L) /\ ItemEnd(s, i + 1) \in Nat
      /\ ItemEnd(s, L) \in Nat
  BY <1>1, ItemEndsGrow
<1>4. ItemEnd(s, i + 1) = ItemEnd(s, i) + PrefixLen + s.items[i + 1].len
  BY ItemEnds
<1>5. Is(i + 1)
  <2>1. (i + 1) - 1 = i
    BY <1>1
  <2> DEFINE here == ItemEnd(s, i)  next == ItemEnd(s, i + 1)  len == s.items[i + 1].len
  <2>2. /\ here \in Nat /\ next = here + PrefixLen + len /\ len \in Nat
        /\ k \in Nat /\ k > 0 /\ k \leq PrefixLen + len
    BY <1>2, <1>3, <1>4
  <2> SUFFICES here < here + k /\ here + k \leq next
    BY <2>1
  <2> HIDE DEF here, next, len
  <2> QED
    BY <2>2, Scale
<1>6. ASSUME NEW j \in 1 .. L, Is(j) PROVE j = i + 1
  <2>1. j \in 0 .. L /\ j - 1 \in 0 .. L /\ (j - 1) + 1 = j
    BY <1>1
  <2>2. ItemEnd(s, j) \in Nat /\ ItemEnd(s, j - 1) \in Nat
    BY <2>1, ItemEndsGrow
  <2>3. j \leq i => ItemEnd(s, j) \leq ItemEnd(s, i)
    BY <1>1, <2>1, ItemEndsGrow
  <2>4. i + 1 \leq j - 1 => ItemEnd(s, i + 1) \leq ItemEnd(s, j - 1)
    BY <1>1, <2>1, ItemEndsGrow
  <2>5. ~(j \leq i) /\ ~(i + 1 \leq j - 1)
    <3>1. ~(ItemEnd(s, j) \leq ItemEnd(s, i))
      BY <1>2, <1>3, <1>6, <2>2
    <3>2. ~(ItemEnd(s, i + 1) \leq ItemEnd(s, j - 1))
      BY <1>2, <1>3, <1>5, <1>6, <2>2
    <3> QED
      BY <2>3, <2>4, <3>1, <3>2
  <2> QED
    BY <1>1, <2>5
<1>7. (CHOOSE j \in 1 .. L : Is(j)) = i + 1
  <2> HIDE DEF Is, L
  <2> QED
    BY <1>1, <1>5, <1>6
<1>8. at \in 1 .. ItemEnd(s, L) /\ ~(at \leq HandshakeLen)
  <2>1. at \leq ItemEnd(s, i + 1)
    BY <1>5
  <2> QED
    BY <1>2, <1>3, <2>1, Scale
<1>9. Bytes(s)[at] = LET j == CHOOSE j \in 1 .. L : Is(j)
                     IN  <<j, at - ItemEnd(s, j - 1) - 1>>
  BY <1>8 DEF Bytes
<1>10. (i + 1) - 1 = i /\ at - ItemEnd(s, i) - 1 = k - 1
  BY <1>1, <1>2, <1>3
<1>11. Bytes(s)[at] = <<i + 1, at - ItemEnd(s, (i + 1) - 1) - 1>>
  <2> HIDE DEF at, Is, L
  <2> QED
    BY <1>7, <1>9
<1> QED
  BY <1>10, <1>11

\* The bytes are numbers of items and of bytes in them.
LEMMA BytesType ==
  ASSUME NEW s, Good(s)
  PROVE  /\ Bytes(s) \in Seq(Nat \X Nat)
         /\ Len(Bytes(s)) = ItemEnd(s, Len(s.items))
<1> DEFINE L == Len(s.items)  N == ItemEnd(s, L)
<1>1. L \in Nat /\ N \in Nat /\ L \in 0 .. L
  BY ItemType, ItemEndsGrow
<1>2. \A at \in 1 .. N : Bytes(s)[at] \in Nat \X Nat
  <2> SUFFICES ASSUME NEW at \in 1 .. N PROVE Bytes(s)[at] \in Nat \X Nat
    OBVIOUS
  <2>1. CASE at \leq HandshakeLen
    <3>1. Bytes(s)[at] = <<0, at - 1>>
      BY <2>1 DEF Bytes
    <3> QED
      BY <1>1, <3>1
  <2>2. CASE ~(at \leq HandshakeLen)
    <3> DEFINE T == {i \in 0 .. L : at \leq ItemEnd(s, i)}
    <3>1. L \in T /\ T \in SUBSET Nat
      BY <1>1
    <3>2. PICK j \in T : \A m \in T : j \leq m
      BY <3>1, Least
    <3>3. j # 0
      BY <2>2, <3>2, ItemEnds
    <3>4. j - 1 \in 0 .. L - 1 /\ j - 1 \in 0 .. L /\ j \in 0 .. L /\ (j - 1) + 1 = j
      BY <1>1, <3>2, <3>3
    <3>5. ~(at \leq ItemEnd(s, j - 1))
      BY <1>1, <3>2, <3>4
    <3>6. ItemEnd(s, j) = ItemEnd(s, j - 1) + PrefixLen + s.items[j].len
      BY <3>4, ItemEnds
    <3>7. ItemEnd(s, j - 1) \in Nat /\ ItemEnd(s, j) \in Nat /\ at \leq ItemEnd(s, j)
      BY <3>2, <3>4, ItemEndsGrow
    <3> DEFINE k == at - ItemEnd(s, j - 1)
    <3>8. k \in 1 .. PrefixLen + s.items[j].len /\ ItemEnd(s, j - 1) + k = at
      <4> DEFINE b == ItemEnd(s, j - 1)  l == s.items[j].len  e == ItemEnd(s, j)
      <4>1. /\ b \in Nat /\ e \in Nat /\ at \leq e /\ at \in Nat /\ ~(at \leq b)
            /\ e = b + PrefixLen + l /\ l \in Nat
        BY <1>1, <3>4, <3>5, <3>6, <3>7, ItemType
      <4> HIDE DEF b, l, e
      <4>2. at - b \in 1 .. PrefixLen + l /\ b + (at - b) = at
        BY <4>1, Scale
      <4> QED
        BY <4>2 DEF b, l
    <3>9. Bytes(s)[at] = <<j, k - 1>>
      BY <3>4, <3>8, ByteOfItem
    <3> QED
      BY <1>1, <3>4, <3>8, <3>9
  <2> QED
    BY <2>1, <2>2
<1>3. Bytes(s) = [at \in 1 .. N |-> Bytes(s)[at]]
  BY DEF Bytes
<1> QED
  BY <1>1, <1>2, <1>3

\* The bytes of the handshake.
LEMMA ByteOfHandshake ==
  ASSUME NEW s, Good(s), NEW k \in 1 .. HandshakeLen
  PROVE  Bytes(s)[k] = <<0, k - 1>>
<1>1. HandshakeLen \leq ItemEnd(s, Len(s.items)) /\ ItemEnd(s, Len(s.items)) \in Nat
  BY ItemType, ItemEndsGrow
<1>2. k \in 1 .. ItemEnd(s, Len(s.items)) /\ k \leq HandshakeLen
  BY <1>1, Scale
<1> QED
  BY <1>2 DEF Bytes

-----------------------------------------------------------------------------
(* Powers of two. *)

LEMMA PowersExist ==
  \E g : g = [k \in Nat |-> IF k = 0 THEN 1 ELSE 2 * g[k - 1]]
<1> DEFINE p == [n \in Nat |-> 2 * n]
<1>1. p \in Maps(Nat) /\ 1 \in Nat
  BY DEF Maps
<1>2. PICK g \in Repeats(p, 1, Nat) : TRUE
  <2> HIDE DEF p
  <2> QED
    BY <1>1, Iterates
<1>3. g \in [Nat -> Nat] /\ g[0] = 1 /\ \A n \in Nat : g[n + 1] = 2 * g[n]
  BY <1>2 DEF Repeats
<1>4. ASSUME NEW k \in Nat PROVE g[k] = IF k = 0 THEN 1 ELSE 2 * g[k - 1]
  <2>1. CASE k = 0
    BY <1>3, <2>1
  <2>2. CASE k # 0
    <3>1. k - 1 \in Nat /\ (k - 1) + 1 = k
      BY <2>2
    <3> QED
      BY <1>3, <2>2, <3>1
  <2> QED
    BY <2>1, <2>2
<1>5. g = [k \in Nat |-> IF k = 0 THEN 1 ELSE 2 * g[k - 1]]
  BY <1>3, <1>4
<1> QED
  BY <1>5

LEMMA PowersAre ==
  /\ PowerOfTwo[0] = 1
  /\ \A k \in Nat : PowerOfTwo[k + 1] = 2 * PowerOfTwo[k]
<1>1. PowerOfTwo = [k \in Nat |-> IF k = 0 THEN 1 ELSE 2 * PowerOfTwo[k - 1]]
  BY PowersExist, Zenon DEF PowerOfTwo
<1>2. ASSUME NEW k \in Nat PROVE PowerOfTwo[k] = IF k = 0 THEN 1 ELSE 2 * PowerOfTwo[k - 1]
  BY <1>1
<1>3. ASSUME NEW k \in Nat PROVE PowerOfTwo[k + 1] = 2 * PowerOfTwo[k]
  <2>1. k + 1 \in Nat /\ k + 1 # 0 /\ (k + 1) - 1 = k
    OBVIOUS
  <2> QED
    BY <1>2, <2>1
<1> QED
  BY <1>2, <1>3

\* They grow faster than their exponents.
LEMMA PowersGrow ==
  \A k \in Nat : PowerOfTwo[k] \in Nat /\ PowerOfTwo[k] > k
<1> DEFINE G == {k \in Nat : PowerOfTwo[k] \in Nat /\ PowerOfTwo[k] > k}
<1>1. 0 \in G
  BY PowersAre
<1>2. ASSUME NEW k \in Nat, k \in G PROVE k + 1 \in G
  <2>1. PowerOfTwo[k + 1] = 2 * PowerOfTwo[k]
    BY PowersAre
  <2>2. PowerOfTwo[k] \in Nat /\ PowerOfTwo[k] > k
    BY <1>2
  <2> QED
    BY <2>1, <2>2
<1>3. Nat \subseteq G
  <2> HIDE DEF G
  <2> QED
    BY <1>1, <1>2, NatSetInduction
<1> QED
  BY <1>3

\* What bit_length returns.
LEMMA BitLengthIs ==
  ASSUME NEW n \in Nat
  PROVE  /\ BitLength(n) \in 0 .. n
         /\ n < PowerOfTwo[BitLength(n)]
         /\ BitLength(n) = 0 \/ PowerOfTwo[BitLength(n) - 1] \leq n
<1> DEFINE T == {k \in Nat : n < PowerOfTwo[k]}
           Is(k) == n < PowerOfTwo[k] /\ (k = 0 \/ PowerOfTwo[k - 1] \leq n)
<1>1. n \in T /\ T \in SUBSET Nat
  BY PowersGrow
<1>2. PICK k \in T : \A m \in T : k \leq m
  BY <1>1, Least
<1>3. k \in 0 .. n
  BY <1>1, <1>2
<1>4. k # 0 => PowerOfTwo[k - 1] \leq n
  <2> SUFFICES ASSUME k # 0 PROVE PowerOfTwo[k - 1] \leq n
    OBVIOUS
  <2>1. k - 1 \in Nat /\ ~(k \leq k - 1)
    BY <1>3
  <2>2. ~(n < PowerOfTwo[k - 1])
    BY <1>2, <2>1
  <2> QED
    BY <2>1, <2>2, PowersGrow
<1>5. Is(k)
  BY <1>2, <1>4
<1>6. BitLength(n) = CHOOSE j \in 0 .. n : Is(j)
  BY DEF BitLength
<1>7. BitLength(n) \in 0 .. n /\ Is(BitLength(n))
  <2> HIDE DEF Is
  <2> QED
    BY <1>3, <1>5, <1>6
<1> QED
  BY <1>7

\* The power of two above a number is the smallest that is not less.
LEMMA RoundedUpCovers ==
  ASSUME NEW n \in Nat
  PROVE  Covers(RoundedUp(n), n) /\ RoundedUp(n) \in Nat
<1>1. CASE n = 0
  <2>1. RoundedUp(n) = 1 /\ PowerOfTwo[0] = 1 /\ 0 \in 0 .. n
    BY <1>1, PowersAre DEF RoundedUp
  <2>2. 1 \div 2 = 0
    BY SMT
  <2>3. 1 >= n /\ n # -1
    BY <1>1
  <2> QED
    BY <2>1, <2>2, <2>3 DEF Covers
<1>2. CASE n # 0
  <2> DEFINE k == BitLength(n - 1)
  <2>1. n - 1 \in Nat
    BY <1>2
  <2>2. k \in 0 .. n - 1 /\ n - 1 < PowerOfTwo[k] /\ (k = 0 \/ PowerOfTwo[k - 1] \leq n - 1)
    BY <2>1, BitLengthIs
  <2>3. RoundedUp(n) = PowerOfTwo[k]
    BY <1>2 DEF RoundedUp
  <2> HIDE DEF k
  <2>4. k \in Nat /\ k \in 0 .. n /\ PowerOfTwo[k] \in Nat
    BY <2>2, PowersGrow
  <2>5. PowerOfTwo[k] \div 2 < n
    <3>1. CASE k = 0
      <4>1. PowerOfTwo[k] = 1 /\ 1 \div 2 = 0
        BY <3>1, PowersAre, SMT
      <4> QED
        BY <1>2, <4>1
    <3>2. CASE k # 0
      <4>1. k - 1 \in Nat /\ (k - 1) + 1 = k
        BY <2>4, <3>2
      <4>2. PowerOfTwo[k] = 2 * PowerOfTwo[k - 1] /\ PowerOfTwo[k - 1] \in Nat
        BY <4>1, PowersAre, PowersGrow
      <4>3. PowerOfTwo[k] \div 2 = PowerOfTwo[k - 1]
        BY <4>2
      <4> QED
        BY <2>2, <3>2, <4>2, <4>3
    <3> QED
      BY <3>1, <3>2
  <2>6. PowerOfTwo[k] >= n /\ n # -1
    BY <2>2, <2>4
  <2> QED
    BY <2>3, <2>4, <2>5, <2>6 DEF Covers
<1> QED
  BY <1>1, <1>2

\* A block that ends further makes the pieces longer when they are too short.
LEMMA BlockCovered ==
  ASSUME NEW r \in Reports, NEW reach \in Int, reach \geq -1, Covers(r.maxPieceLen, reach),
         NEW arg \in Nat
  PROVE  LET q == PieceInfo(r, arg)
         IN  /\ q \in Reports /\ q.pieces = r.pieces /\ q.sentPieces = r.sentPieces
             /\ Covers(q.maxPieceLen, IF arg > reach THEN arg ELSE reach)
<1> DEFINE q == PieceInfo(r, arg)
<1>1. r.maxPieceLen \in Int
  BY DEF Reports
<1>2. CASE arg > r.maxPieceLen
  <2>1. q = [r EXCEPT !.maxPieceLen = RoundedUp(arg)]
    BY <1>2 DEF PieceInfo
  <2>2. Covers(RoundedUp(arg), arg) /\ RoundedUp(arg) \in Nat
    BY RoundedUpCovers
  <2>3. /\ q \in Reports /\ q.pieces = r.pieces /\ q.sentPieces = r.sentPieces
        /\ q.maxPieceLen = RoundedUp(arg)
    BY <2>1, <2>2 DEF Reports
  <2>4. arg > reach
    BY <1>1, <1>2 DEF Covers
  <2> QED
    BY <2>2, <2>3, <2>4
<1>3. CASE ~(arg > r.maxPieceLen)
  <2>1. q = r
    BY <1>3 DEF PieceInfo
  <2>2. reach # -1
    BY <1>1, <1>3 DEF Covers
  <2>3. CASE arg > reach
    <3>1. \A k \in 0 .. reach : k \in 0 .. arg
      BY <2>3
    <3>2. /\ r.maxPieceLen \geq arg /\ arg # -1
          /\ \E k \in 0 .. arg : r.maxPieceLen = PowerOfTwo[k]
      BY <1>1, <1>3, <2>2, <3>1 DEF Covers
    <3>3. r.maxPieceLen \div 2 < arg \/ r.maxPieceLen \div 2 < 1
      <4>1. r.maxPieceLen \div 2 < reach \/ r.maxPieceLen \div 2 < 1
        BY <2>2 DEF Covers
      <4>2. r.maxPieceLen \div 2 \in Int
        BY <1>1
      <4> QED
        BY <2>3, <4>1, <4>2
    <3>4. Covers(r.maxPieceLen, arg)
      BY <3>2, <3>3 DEF Covers
    <3> QED
      BY <2>1, <2>3, <3>4
  <2>4. CASE ~(arg > reach)
    BY <2>1, <2>4
  <2> QED
    BY <2>3, <2>4
<1> QED
  BY <1>2, <1>3

-----------------------------------------------------------------------------
(* One item more. *)

LEMMA BeforeStep ==
  ASSUME NEW s, NEW i \in Nat, NEW kinds
  PROVE  /\ s.items[i + 1].kind \in kinds =>
              Before(s, kinds, i + 1) = Before(s, kinds, i) \cup {i + 1}
         /\ s.items[i + 1].kind \notin kinds => Before(s, kinds, i + 1) = Before(s, kinds, i)
         /\ Before(s, kinds, i) \subseteq 1 .. i
         /\ IsFiniteSet(Before(s, kinds, i)) /\ i + 1 \notin Before(s, kinds, i)
<1>1. 1 .. i + 1 = (1 .. i) \cup {i + 1}
  OBVIOUS
<1>2. IsFiniteSet(1 .. i) /\ Before(s, kinds, i) \subseteq 1 .. i
  BY FS_Interval DEF Before
<1>3. IsFiniteSet(Before(s, kinds, i))
  BY <1>2, FS_Subset
<1>4. i + 1 \notin 1 .. i
  OBVIOUS
<1>5. s.items[i + 1].kind \in kinds =>
        Before(s, kinds, i + 1) = Before(s, kinds, i) \cup {i + 1}
  BY <1>1 DEF Before
<1>6. s.items[i + 1].kind \notin kinds => Before(s, kinds, i + 1) = Before(s, kinds, i)
  BY <1>1 DEF Before
<1> QED
  BY <1>2, <1>3, <1>4, <1>5, <1>6

LEMMA ArgsStep ==
  ASSUME NEW s, Good(s), NEW i \in 0 .. Len(s.items) - 1, NEW kinds
  PROVE  /\ s.items[i + 1].kind \in kinds =>
              Args(s, kinds, i + 1) = Args(s, kinds, i) \cup {s.items[i + 1].arg}
         /\ s.items[i + 1].kind \notin kinds => Args(s, kinds, i + 1) = Args(s, kinds, i)
         /\ Args(s, kinds, i) \in SUBSET Nat /\ s.items[i + 1].arg \in Nat
<1>1. i \in Nat /\ i + 1 \in 1 .. Len(s.items) /\ \A j \in 1 .. i : j \in 1 .. Len(s.items)
  BY ItemType
<1>2. /\ s.items[i + 1].kind \in kinds =>
           Before(s, kinds, i + 1) = Before(s, kinds, i) \cup {i + 1}
      /\ s.items[i + 1].kind \notin kinds => Before(s, kinds, i + 1) = Before(s, kinds, i)
      /\ Before(s, kinds, i) \subseteq 1 .. i
  BY <1>1, BeforeStep
<1>3. \A j \in Before(s, kinds, i) : s.items[j].arg \in Nat
  BY <1>1, <1>2, ItemType
<1> QED
  BY <1>1, <1>2, <1>3, ItemType DEF Args

LEMMA GreatestStep ==
  ASSUME NEW S \in SUBSET Nat, NEW v \in {-1} \cup S, Greatest(v, S), NEW arg \in Nat,
         NEW T, T = S \cup {arg}, NEW w, w = IF arg > v THEN arg ELSE v
  PROVE  w \in {-1} \cup T /\ Greatest(w, T) /\ v \in Int /\ v \geq -1
BY DEF Greatest

\* Messages of the other kinds change nothing.
LEMMA OtherMessage ==
  ASSUME NEW r, NEW m, m.kind \notin {"piece", "bitfield", "request", "cancel"}
  PROVE  NewMessage(r, m) = r
BY DEF NewMessage

LEMMA ReportedStep ==
  ASSUME NEW s, Good(s), NEW i \in 0 .. Len(s.items) - 1,
         NEW r \in Reports, Reported(s, r, i)
  PROVE  /\ NewMessage(r, s.items[i + 1]) \in Reports
         /\ Reported(s, NewMessage(r, s.items[i + 1]), i + 1)
<1> DEFINE m == s.items[i + 1]
           q == NewMessage(r, m)
           P == {"piece"}  B == {"bitfield"}  C == {"request", "cancel"}
           Pieces(a, k) == a.sentPieces = Cardinality(Before(s, P, k))
           Fields(a, k) == \E bytes \in {-1} \cup Args(s, B, k) :
                             /\ Greatest(bytes, Args(s, B, k))
                             /\ a.pieces = IF bytes = -1 THEN -1 ELSE 8 * bytes
           Blocks(a, k) == \E reach \in {-1} \cup Args(s, C, k) :
                             /\ Greatest(reach, Args(s, C, k))
                             /\ Covers(a.maxPieceLen, reach)
<1>1. i \in Nat
  BY ItemType
<1>2. Pieces(r, i) /\ Fields(r, i) /\ Blocks(r, i)
  BY DEF Reported
<1>3. SUFFICES q \in Reports /\ Pieces(q, i + 1) /\ Fields(q, i + 1) /\ Blocks(q, i + 1)
  BY DEF Reported
<1>4. /\ r.pieces \in Int /\ r.maxPieceLen \in Int /\ r.sentPieces \in Nat
      /\ r = [pieces |-> r.pieces, maxPieceLen |-> r.maxPieceLen, sentPieces |-> r.sentPieces]
  BY DEF Reports
<1>5. ASSUME m.kind \notin P, NEW a, a.sentPieces = r.sentPieces PROVE Pieces(a, i + 1)
  BY <1>1, <1>2, <1>5, BeforeStep
<1>6. ASSUME m.kind \notin B, NEW a, a.pieces = r.pieces PROVE Fields(a, i + 1)
  <2>1. Args(s, B, i + 1) = Args(s, B, i)
    BY <1>6, ArgsStep
  <2> QED
    BY <1>2, <1>6, <2>1
<1>7. ASSUME m.kind \notin C, NEW a, a.maxPieceLen = r.maxPieceLen PROVE Blocks(a, i + 1)
  <2>1. Args(s, C, i + 1) = Args(s, C, i)
    BY <1>7, ArgsStep
  <2> QED
    BY <1>2, <1>7, <2>1
<1>8. CASE m.kind = "piece"
  <2>1. q = [r EXCEPT !.sentPieces = @ + 1]
    BY <1>8 DEF NewMessage
  <2>2. /\ q \in Reports /\ q.pieces = r.pieces /\ q.maxPieceLen = r.maxPieceLen
        /\ q.sentPieces = r.sentPieces + 1
    BY <1>4, <2>1 DEF Reports
  <2>3. Pieces(q, i + 1)
    <3>1. /\ Before(s, P, i + 1) = Before(s, P, i) \cup {i + 1}
          /\ IsFiniteSet(Before(s, P, i)) /\ i + 1 \notin Before(s, P, i)
      BY <1>1, <1>8, BeforeStep
    <3>2. Cardinality(Before(s, P, i + 1)) = Cardinality(Before(s, P, i)) + 1
      BY <3>1, FS_AddElement
    <3> QED
      BY <1>2, <2>2, <3>2
  <2>4. m.kind \notin B /\ m.kind \notin C
    BY <1>8
  <2>5. Fields(q, i + 1)
    BY <1>6, <2>2, <2>4
  <2>6. Blocks(q, i + 1)
    BY <1>7, <2>2, <2>4
  <2> QED
    BY <2>2, <2>3, <2>5, <2>6
<1>9. CASE m.kind = "bitfield"
  <2>1. q = SetNumberOfPieces(r, 8 * m.arg)
    BY <1>9 DEF NewMessage
  <2>2. m.arg \in Nat /\ Args(s, B, i) \in SUBSET Nat
    BY ArgsStep
  <2>3. /\ q \in Reports /\ q.sentPieces = r.sentPieces /\ q.maxPieceLen = r.maxPieceLen
        /\ q.pieces = IF 8 * m.arg > r.pieces THEN 8 * m.arg ELSE r.pieces
    <3>1. CASE 8 * m.arg > r.pieces
      <4>1. q = [r EXCEPT !.pieces = 8 * m.arg]
        BY <2>1, <3>1 DEF SetNumberOfPieces
      <4>2. 8 * m.arg \in Nat
        BY <2>2
      <4> HIDE DEF q, m
      <4> QED
        BY <1>4, <3>1, <4>1, <4>2 DEF Reports
    <3>2. CASE ~(8 * m.arg > r.pieces)
      BY <1>4, <2>1, <2>2, <3>2 DEF SetNumberOfPieces
    <3> QED
      BY <3>1, <3>2
  <2>4. Fields(q, i + 1)
    <3>1. PICK bytes \in {-1} \cup Args(s, B, i) :
            /\ Greatest(bytes, Args(s, B, i))
            /\ r.pieces = IF bytes = -1 THEN -1 ELSE 8 * bytes
      BY <1>2
    <3> DEFINE w == IF m.arg > bytes THEN m.arg ELSE bytes
    <3>2. Args(s, B, i + 1) = Args(s, B, i) \cup {m.arg}
      BY <1>9, ArgsStep
    <3>3. /\ w \in {-1} \cup Args(s, B, i + 1) /\ Greatest(w, Args(s, B, i + 1))
          /\ bytes \in Int /\ bytes \geq -1
      <4> DEFINE S == Args(s, B, i)  T == Args(s, B, i + 1)  arg == m.arg
      <4>1. /\ S \in SUBSET Nat /\ bytes \in {-1} \cup S /\ Greatest(bytes, S)
            /\ arg \in Nat /\ T = S \cup {arg} /\ w = IF arg > bytes THEN arg ELSE bytes
        BY <2>2, <3>1, <3>2
      <4> HIDE DEF S, T, arg, w
      <4>2. w \in {-1} \cup T /\ Greatest(w, T) /\ bytes \in Int /\ bytes \geq -1
        BY <4>1, GreatestStep
      <4> QED
        BY <4>2 DEF T
    <3>4. q.pieces = IF w = -1 THEN -1 ELSE 8 * w
      BY <2>2, <2>3, <3>1, <3>3
    <3> QED
      BY <3>3, <3>4
  <2>5. m.kind \notin P /\ m.kind \notin C
    BY <1>9
  <2>6. Pieces(q, i + 1)
    BY <1>5, <2>3, <2>5
  <2>7. Blocks(q, i + 1)
    BY <1>7, <2>3, <2>5
  <2> QED
    BY <2>3, <2>4, <2>6, <2>7
<1>10. CASE m.kind \in C
  <2>1. q = PieceInfo(r, m.arg)
    BY <1>10 DEF NewMessage
  <2>2. m.arg \in Nat /\ Args(s, C, i) \in SUBSET Nat
    BY ArgsStep
  <2>3. PICK reach \in {-1} \cup Args(s, C, i) :
          Greatest(reach, Args(s, C, i)) /\ Covers(r.maxPieceLen, reach)
    BY <1>2
  <2> DEFINE w == IF m.arg > reach THEN m.arg ELSE reach
  <2>4. Args(s, C, i + 1) = Args(s, C, i) \cup {m.arg}
    BY <1>10, ArgsStep
  <2>5. /\ w \in {-1} \cup Args(s, C, i + 1) /\ Greatest(w, Args(s, C, i + 1))
        /\ reach \in Int /\ reach \geq -1
    <3> DEFINE S == Args(s, C, i)  T == Args(s, C, i + 1)  arg == m.arg
    <3>1. /\ S \in SUBSET Nat /\ reach \in {-1} \cup S /\ Greatest(reach, S)
          /\ arg \in Nat /\ T = S \cup {arg} /\ w = IF arg > reach THEN arg ELSE reach
      BY <2>2, <2>3, <2>4
    <3> HIDE DEF S, T, arg, w
    <3>2. w \in {-1} \cup T /\ Greatest(w, T) /\ reach \in Int /\ reach \geq -1
      BY <3>1, GreatestStep
    <3> QED
      BY <3>2 DEF T
  <2>6. /\ q \in Reports /\ q.pieces = r.pieces /\ q.sentPieces = r.sentPieces
        /\ Covers(q.maxPieceLen, w)
    BY <2>1, <2>2, <2>3, <2>5, BlockCovered
  <2>7. m.kind \notin P /\ m.kind \notin B
    BY <1>10
  <2>8. Pieces(q, i + 1)
    BY <1>5, <2>6, <2>7
  <2>9. Fields(q, i + 1)
    BY <1>6, <2>6, <2>7
  <2>10. Blocks(q, i + 1)
    BY <2>5, <2>6
  <2> QED
    BY <2>6, <2>8, <2>9, <2>10
<1>11. CASE m.kind \notin P /\ m.kind \notin B /\ m.kind \notin C
  <2>1. q = r
    BY <1>11, OtherMessage
  <2>2. Pieces(q, i + 1) /\ Fields(q, i + 1) /\ Blocks(q, i + 1)
    BY <1>5, <1>6, <1>7, <1>11, <2>1
  <2> QED
    BY <2>1, <2>2
<1> QED
  BY <1>8, <1>9, <1>10, <1>11

\* The table of extensions after an extended handshake,
LEMMA AssignedByHandshake ==
  ASSUME NEW s, Good(s), NEW i \in 0 .. Len(s.items) - 1,
         NEW assoc \in [1 .. MaxNumber -> Targets], Assigned(s, assoc, i),
         s.items[i + 1].kind = "exthandshake"
  PROVE  /\ Associate(assoc, s.items[i + 1]) \in [1 .. MaxNumber -> Targets]
         /\ Assigned(s, Associate(assoc, s.items[i + 1]), i + 1)
<1> DEFINE m == s.items[i + 1]
           H(k) == Before(s, {"exthandshake"}, k)
           new == Associate(assoc, m)
           Kills(k, n, x) == \/ s.items[k].number = n
                             \/ s.items[k].number = 0 /\ s.items[k].name = x
           Sets(j, n, x) == s.items[j].number = n /\ s.items[j].name = x
<1>1. i \in Nat /\ m.name \in ExtNames /\ m.number \in 0 .. MaxNumber
  BY ItemType
<1>2. H(i + 1) = H(i) \cup {i + 1} /\ H(i) \subseteq 1 .. i
  BY <1>1, BeforeStep
<1>3. \A n, x, k : NamedBy(s, n, x, k) <=>
        \E j \in H(k) : Sets(j, n, x) /\ \A l \in H(k) : l > j => ~Kills(l, n, x)
  BY DEF NamedBy
<1>4. \A n \in 1 .. MaxNumber :
        new[n] = IF m.number = 0 THEN (IF assoc[n] = m.name THEN NoName ELSE assoc[n])
                                 ELSE (IF n = m.number THEN m.name ELSE assoc[n])
  BY DEF Associate
<1>5. new \in [1 .. MaxNumber -> Targets]
  BY <1>1 DEF Associate, Targets
<1> HIDE DEF new, m, H
<1>6. ASSUME NEW n \in 1 .. MaxNumber, NEW x \in ExtNames
      PROVE  new[n] = x <=> NamedBy(s, n, x, i + 1)
  <2>1. assoc[n] = x <=> NamedBy(s, n, x, i)
    BY DEF Assigned
  <2>2. n # 0 /\ x # NoName
    BY ScaleAssumption
  <2>3. \A j \in H(i) : i + 1 > j /\ ~(j > i + 1)
    BY <1>1, <1>2
  <2>4. ~(i + 1 > i + 1)
    BY <1>1
  <2>5. NamedBy(s, n, x, i + 1) <=>
          \/ Sets(i + 1, n, x)
          \/ NamedBy(s, n, x, i) /\ ~Kills(i + 1, n, x)
    <3>1. ASSUME NEW j \in H(i + 1), Sets(j, n, x),
                 \A l \in H(i + 1) : l > j => ~Kills(l, n, x)
          PROVE  Sets(i + 1, n, x) \/ (NamedBy(s, n, x, i) /\ ~Kills(i + 1, n, x))
      <4>1. CASE j = i + 1
        BY <3>1, <4>1
      <4>2. CASE j \in H(i)
        <5>1. ~Kills(i + 1, n, x)
          BY <1>2, <2>3, <3>1, <4>2
        <5>2. \A l \in H(i) : l > j => ~Kills(l, n, x)
          BY <1>2, <3>1
        <5>3. NamedBy(s, n, x, i)
          BY <1>3, <3>1, <4>2, <5>2
        <5> QED
          BY <5>1, <5>3
      <4> QED
        BY <1>2, <4>1, <4>2
    <3>2. ASSUME Sets(i + 1, n, x) PROVE NamedBy(s, n, x, i + 1)
      <4>1. \A l \in H(i + 1) : ~(l > i + 1)
        BY <1>2, <2>3, <2>4
      <4>2. i + 1 \in H(i + 1)
        BY <1>2
      <4> QED
        BY <1>3, <3>2, <4>1, <4>2
    <3>3. ASSUME NamedBy(s, n, x, i), ~Kills(i + 1, n, x) PROVE NamedBy(s, n, x, i + 1)
      <4>1. PICK j \in H(i) : Sets(j, n, x) /\ \A l \in H(i) : l > j => ~Kills(l, n, x)
        BY <1>3, <3>3
      <4>2. j \in H(i + 1) /\ \A l \in H(i + 1) : l > j => ~Kills(l, n, x)
        BY <1>2, <3>3, <4>1
      <4> QED
        BY <1>3, <4>1, <4>2
    <3> QED
      BY <1>3, <3>1, <3>2, <3>3
  <2>6. new[n] = x <=> Sets(i + 1, n, x) \/ (assoc[n] = x /\ ~Kills(i + 1, n, x))
    <3>1. CASE m.number = 0
      BY <1>4, <2>2, <3>1 DEF m
    <3>2. CASE m.number # 0 /\ n = m.number
      BY <1>4, <2>2, <3>2 DEF m
    <3>3. CASE m.number # 0 /\ n # m.number
      BY <1>4, <2>2, <3>3 DEF m
    <3> QED
      BY <3>1, <3>2, <3>3
  <2> QED
    BY <2>1, <2>5, <2>6
<1> QED
  BY <1>5, <1>6 DEF Assigned, new, m

\* and after any other item.
LEMMA AssignedByOther ==
  ASSUME NEW s, Good(s), NEW i \in 0 .. Len(s.items) - 1, NEW assoc, Assigned(s, assoc, i),
         s.items[i + 1].kind # "exthandshake"
  PROVE  Assigned(s, assoc, i + 1)
<1>1. i \in Nat
  BY ItemType
<1>2. Before(s, {"exthandshake"}, i + 1) = Before(s, {"exthandshake"}, i)
  BY <1>1, BeforeStep
<1>3. \A n, x : NamedBy(s, n, x, i + 1) <=> NamedBy(s, n, x, i)
  BY <1>2 DEF NamedBy
<1> QED
  BY <1>3 DEF Assigned

\* The messages handled: one more,
LEMMA TakenMessage ==
  ASSUME NEW s, Good(s), NEW i \in 0 .. Len(s.items) - 1,
         NEW handled \in Seq(Nat \X Targets), Taken(s, handled, i),
         s.items[i + 1].len # 0, NEW name \in Targets
  PROVE  /\ Append(handled, <<i + 1, name>>) \in Seq(Nat \X Targets)
         /\ Taken(s, Append(handled, <<i + 1, name>>), i + 1)
<1> DEFINE new == Append(handled, <<i + 1, name>>)
           N == Len(handled)
<1>1. i \in Nat /\ i + 1 \in Nat /\ s.items[i + 1].len \in Nat
  BY ItemType
<1>2. <<i + 1, name>> \in Nat \X Targets
  BY <1>1
<1>3. /\ new \in Seq(Nat \X Targets) /\ N \in Nat
      /\ DOMAIN handled = 1 .. N /\ DOMAIN new = 1 .. N + 1
      /\ \A k \in 1 .. N : new[k] = handled[k]
      /\ new[N + 1] = <<i + 1, name>>
  BY <1>2
<1> HIDE DEF new, N
<1>4. new[N + 1][1] = i + 1
  BY <1>3
<1>5. \A k \in 1 .. N + 1 : k \in 1 .. N \/ k = N + 1
  BY <1>3
<1>6. \A k \in 1 .. N : handled[k][1] \in 1 .. i /\ s.items[handled[k][1]].len > 0
  BY <1>3 DEF Taken
<1>7. ASSUME NEW k \in 1 .. N + 1
      PROVE  new[k][1] \in 1 .. i + 1 /\ s.items[new[k][1]].len > 0
  <2>1. CASE k \in 1 .. N
    <3>1. new[k] = handled[k]
      BY <1>3, <2>1
    <3>2. handled[k][1] \in 1 .. i /\ s.items[handled[k][1]].len > 0
      BY <1>6, <2>1
    <3>3. handled[k][1] \in 1 .. i + 1
      BY <1>1, <3>2
    <3> QED
      BY <3>1, <3>2, <3>3
  <2>2. CASE k = N + 1
    BY <1>1, <1>4, <2>2
  <2> QED
    BY <1>5, <2>1, <2>2
<1>8. ASSUME NEW j \in 1 .. i + 1, s.items[j].len > 0
      PROVE  \E k \in 1 .. N + 1 : new[k][1] = j
  <2>1. CASE j = i + 1
    BY <1>3, <1>4, <2>1
  <2>2. CASE j # i + 1
    <3>1. j \in 1 .. i
      BY <1>1, <2>2
    <3>2. PICK k \in 1 .. N : handled[k][1] = j
      BY <1>3, <1>8, <3>1 DEF Taken
    <3>3. k \in 1 .. N + 1 /\ new[k][1] = j
      BY <1>3, <3>2
    <3> QED
      BY <3>3
  <2> QED
    BY <2>1, <2>2
<1>9. ASSUME NEW k \in 1 .. N + 1, NEW l \in 1 .. N + 1, k < l PROVE new[k][1] < new[l][1]
  <2>1. k \in 1 .. N
    BY <1>3, <1>9
  <2>2. CASE l \in 1 .. N
    BY <1>3, <1>9, <2>1, <2>2 DEF Taken
  <2>3. CASE l = N + 1
    <3>1. new[k] = handled[k] /\ handled[k][1] \in 1 .. i
      BY <1>3, <1>6, <2>1
    <3> QED
      BY <1>1, <1>4, <2>3, <3>1
  <2> QED
    BY <1>5, <2>2, <2>3
<1>10. Taken(s, new, i + 1)
  BY <1>3, <1>7, <1>8, <1>9 DEF Taken
<1> QED
  BY <1>3, <1>10 DEF new

\* or, for a keep-alive, none.
LEMMA TakenKeepAlive ==
  ASSUME NEW s, Good(s), NEW i \in 0 .. Len(s.items) - 1, NEW handled, Taken(s, handled, i),
         s.items[i + 1].len = 0
  PROVE  Taken(s, handled, i + 1)
<1>1. i \in Nat
  BY ItemType
<1>2. \A j \in 1 .. i + 1 : j \in 1 .. i \/ j = i + 1
  BY <1>1
<1>3. \A j \in 1 .. i : j \in 1 .. i + 1
  BY <1>1
<1>4. \A j \in 1 .. i + 1 : s.items[j].len > 0 => \E k \in DOMAIN handled : handled[k][1] = j
  BY <1>2 DEF Taken
<1> QED
  BY <1>3, <1>4 DEF Taken

\* An extended message goes where the table of its time says.
LEMMA GivenStep ==
  ASSUME NEW s, Good(s), NEW i \in 0 .. Len(s.items) - 1,
         NEW assoc \in [1 .. MaxNumber -> Targets], Assigned(s, assoc, i),
         NEW handled \in Seq(Nat \X Targets), Given(s, handled), NEW name \in Targets,
         s.items[i + 1].kind = "extended" => name = assoc[s.items[i + 1].number]
  PROVE  Given(s, Append(handled, <<i + 1, name>>))
<1> DEFINE new == Append(handled, <<i + 1, name>>)
           N == Len(handled)
<1>1. i \in Nat /\ (i + 1) - 1 = i /\ i + 1 \in 1 .. Len(s.items)
  BY ItemType
<1>2. <<i + 1, name>> \in Nat \X Targets
  BY <1>1
<1>3. /\ N \in Nat /\ DOMAIN handled = 1 .. N /\ DOMAIN new = 1 .. N + 1
      /\ \A k \in 1 .. N : new[k] = handled[k]
      /\ new[N + 1] = <<i + 1, name>>
  BY <1>2
<1> HIDE DEF new, N
<1> DEFINE Right(h) == s.items[h[1]].kind = "extended" =>
                         \A x \in ExtNames :
                           h[2] = x <=> NamedBy(s, s.items[h[1]].number, x, h[1] - 1)
<1>4. \A k \in DOMAIN handled : Right(handled[k])
  BY DEF Given
<1>5. Right(<<i + 1, name>>)
  <2> DEFINE n == s.items[i + 1].number
  <2> SUFFICES ASSUME s.items[i + 1].kind = "extended", NEW x \in ExtNames
               PROVE  name = x <=> NamedBy(s, n, x, (i + 1) - 1)
    OBVIOUS
  <2>1. n \in 0 .. MaxNumber /\ n # 0
    BY <1>1, ItemType
  <2>2. n \in 1 .. MaxNumber
    BY <2>1, ScaleAssumption
  <2> QED
    BY <1>1, <2>2 DEF Assigned
<1>6. \A k \in 1 .. N + 1 : k \in 1 .. N \/ k = N + 1
  BY <1>3
<1>7. \A k \in DOMAIN new : Right(new[k])
  <2> HIDE DEF Right
  <2> QED
    BY <1>3, <1>4, <1>5, <1>6
<1> QED
  BY <1>7 DEF Given, new

-----------------------------------------------------------------------------
(* The loop. *)

\* What is left when n bytes are taken from the buffer.
LEMMA GotLeaves ==
  ASSUME NEW p \in Parsers, NEW n \in Nat, n \leq Len(p.buf)
  PROVE  /\ Got(p, n) \in Parsers
         /\ Len(Got(p, n).buf) = Len(p.buf) - n
         /\ Got(p, n) = [p EXCEPT !.buf = Got(p, n).buf]
         /\ \A s, from, to : Holds(s, p.buf, from, to) /\ from \in Nat /\ to \in Nat
                               => Holds(s, Got(p, n).buf, from + n, to)
<1> DEFINE rest == SubSeq(p.buf, n + 1, Len(p.buf))
<1>1. p.buf \in Seq(Nat \X Nat) /\ Len(p.buf) \in Nat
  BY DEF Parsers
<1>2. Got(p, n) = [p EXCEPT !.buf = rest]
  BY DEF Got
<1>3. /\ rest \in Seq(Nat \X Nat) /\ Len(rest) = Len(p.buf) - n
      /\ \A k \in 1 .. Len(p.buf) - n : rest[k] = p.buf[n + k]
  <2>1. /\ rest \in Seq(Nat \X Nat)
        /\ Len(rest) = Len(p.buf) - n
        /\ \A k \in 1 .. Len(p.buf) - n : rest[k] = p.buf[(n + 1) + k - 1]
    <3> DEFINE L == Len(p.buf)
    <3>1. n + 1 \in 1 .. L + 1 /\ L \in (n + 1) - 1 .. L /\ L - (n + 1) + 1 = L - n
      BY <1>1
    <3>2. /\ rest \in Seq(Nat \X Nat)
          /\ Len(rest) = L - (n + 1) + 1
          /\ \A k \in 1 .. L - (n + 1) + 1 : rest[k] = p.buf[(n + 1) + k - 1]
      BY <1>1, <3>1, SubSeqProperties
    <3> QED
      BY <3>1, <3>2
  <2>2. \A k \in 1 .. Len(p.buf) - n : (n + 1) + k - 1 = n + k
    BY <1>1
  <2> QED
    BY <2>1, <2>2
<1> HIDE DEF rest
<1>4. Got(p, n) \in Parsers /\ Got(p, n).buf = rest
  BY <1>2, <1>3 DEF Parsers
<1>5. ASSUME NEW s, NEW from \in Nat, NEW to \in Nat, Holds(s, p.buf, from, to)
      PROVE  Holds(s, rest, from + n, to)
  <2>1. Len(p.buf) = to - from /\ \A k \in 1 .. Len(p.buf) : p.buf[k] = Bytes(s)[from + k]
    BY <1>5 DEF Holds
  <2>2. Len(rest) = to - (from + n)
    BY <1>1, <1>3, <2>1
  <2>3. ASSUME NEW k \in 1 .. Len(rest) PROVE rest[k] = Bytes(s)[(from + n) + k]
    <3>1. k \in 1 .. Len(p.buf) - n /\ n + k \in 1 .. Len(p.buf)
      BY <1>1, <1>3
    <3>2. from + (n + k) = (from + n) + k
      BY <1>1, <3>1
    <3> QED
      BY <1>3, <2>1, <3>1, <3>2
  <2> QED
    BY <2>2, <2>3 DEF Holds
<1> QED
  BY <1>2, <1>3, <1>4, <1>5

\* A message that is complete is processed and leaves the next item.
LEMMA MessageStep ==
  ASSUME Good(stream), NEW t \in Nat, NEW i \in 0 .. Len(stream.items) - 1,
         NEW p \in Parsers, NEW r \in Reports,
         AwaitsBody(stream, p, i, t), ReadUpTo(stream, p, r, i), p.nextLen \leq Len(p.buf)
  PROVE  LET out == ProcessMessage(p, r)
         IN  /\ out[1] \in Parsers /\ out[2] \in Reports
             /\ out[1].hadHandshake = p.hadHandshake /\ out[1].wrong = p.wrong
             /\ Len(out[1].buf) = Len(p.buf) - p.nextLen
             /\ Holds(stream, out[1].buf, ItemEnd(stream, i + 1), t)
             /\ ReadUpTo(stream, out[1], out[2], i + 1)
<1> DEFINE m == stream.items[i + 1]
           at == p.buf[1]
           rest(name) == [Got(p, p.nextLen) EXCEPT !.handled = Append(@, <<at[1], name>>)]
           out == ProcessMessage(p, r)
<1>1. /\ i \in Nat /\ i + 1 \in 1 .. Len(stream.items) /\ m.len \in Nat
      /\ m.number \in 0 .. MaxNumber
      /\ m.len = 0 => m.kind = "keepalive"
      /\ m.kind = "extended" => m.number # 0
  BY ItemType
<1>2. /\ p.nextLen = m.len /\ p.nextLen \in Nat
      /\ Holds(stream, p.buf, ItemEnd(stream, i) + PrefixLen, t)
  BY <1>1 DEF AwaitsBody
<1>3. /\ Reported(stream, r, i) /\ Assigned(stream, p.assoc, i)
      /\ Taken(stream, p.handled, i) /\ Given(stream, p.handled)
      /\ p.assoc \in [1 .. MaxNumber -> Targets] /\ p.handled \in Seq(Nat \X Targets)
  BY DEF ReadUpTo, Parsers
<1>4. /\ ItemEnd(stream, i) + PrefixLen \in Nat
      /\ (ItemEnd(stream, i) + PrefixLen) + m.len = ItemEnd(stream, i + 1)
  <2>1. i \in 0 .. Len(stream.items)
    BY <1>1
  <2>2. ItemEnd(stream, i) \in Nat
    BY <2>1, ItemEndsGrow
  <2>3. ItemEnd(stream, i + 1) = ItemEnd(stream, i) + PrefixLen + m.len
    BY ItemEnds
  <2>4. PrefixLen \in Nat /\ m.len \in Nat
    BY <1>1, Scale
  <2> HIDE DEF m
  <2> QED
    BY <2>2, <2>3, <2>4
<1>5. CASE m.len = 0
  <2>1. out = <<p, r>>
    BY <1>2, <1>5 DEF ProcessMessage
  <2>2. m.kind = "keepalive"
    BY <1>1, <1>5
  <2>3. Reported(stream, r, i + 1)
    <3>1. NewMessage(r, m) = r
      BY <2>2, OtherMessage
    <3> QED
      BY <1>3, <3>1, ReportedStep
  <2>4. Assigned(stream, p.assoc, i + 1)
    BY <1>3, <2>2, AssignedByOther
  <2>5. Taken(stream, p.handled, i + 1)
    BY <1>3, <1>5, TakenKeepAlive
  <2>6. ItemEnd(stream, i + 1) = ItemEnd(stream, i) + PrefixLen
    BY <1>4, <1>5
  <2>7. Len(p.buf) \in Nat /\ Len(p.buf) = Len(p.buf) - p.nextLen
    BY <1>2, <1>5 DEF Parsers
  <2>8. ReadUpTo(stream, p, r, i + 1)
    BY <1>3, <2>3, <2>4, <2>5 DEF ReadUpTo
  <2>9. Holds(stream, p.buf, ItemEnd(stream, i + 1), t)
    BY <1>2, <2>6
  <2> QED
    BY <2>1, <2>7, <2>8, <2>9
<1>6. CASE m.len # 0
  <2>1. at = <<i + 1, PrefixLen>>
    <3>1. 1 \in 1 .. Len(p.buf) /\ PrefixLen + 1 \in 1 .. PrefixLen + m.len
      <4>1. Len(p.buf) \in Nat
        BY DEF Parsers
      <4> QED
        BY <1>1, <1>2, <1>6, <4>1, Scale
    <3>2. at = Bytes(stream)[(ItemEnd(stream, i) + PrefixLen) + 1]
      BY <1>2, <3>1 DEF Holds
    <3>3. (ItemEnd(stream, i) + PrefixLen) + 1 = ItemEnd(stream, i) + (PrefixLen + 1)
      <4>1. ItemEnd(stream, i) \in Nat
        <5>1. i \in 0 .. Len(stream.items)
          BY <1>1
        <5> QED
          BY <5>1, ItemEndsGrow
      <4> QED
        BY <4>1, Scale
    <3>4. Bytes(stream)[ItemEnd(stream, i) + (PrefixLen + 1)] = <<i + 1, (PrefixLen + 1) - 1>>
      BY <3>1, ByteOfItem
    <3>5. (PrefixLen + 1) - 1 = PrefixLen
      BY Scale
    <3> QED
      BY <3>2, <3>3, <3>4, <3>5
  <2>2. at[1] = i + 1 /\ at[2] = PrefixLen /\ i + 1 # 0
    BY <1>1, <2>1
  <2>3. /\ Got(p, p.nextLen) \in Parsers
        /\ Len(Got(p, p.nextLen).buf) = Len(p.buf) - p.nextLen
        /\ Got(p, p.nextLen) = [p EXCEPT !.buf = Got(p, p.nextLen).buf]
        /\ Holds(stream, Got(p, p.nextLen).buf, ItemEnd(stream, i + 1), t)
    <3> DEFINE from == ItemEnd(stream, i) + PrefixLen  n == p.nextLen
    <3>1. /\ from \in Nat /\ n \in Nat /\ n \leq Len(p.buf) /\ from + n = ItemEnd(stream, i + 1)
          /\ Holds(stream, p.buf, from, t)
      BY <1>2, <1>4
    <3> HIDE DEF from, n
    <3>2. /\ Got(p, n) \in Parsers
          /\ Len(Got(p, n).buf) = Len(p.buf) - n
          /\ Got(p, n) = [p EXCEPT !.buf = Got(p, n).buf]
      BY <3>1, GotLeaves
    <3>3. Holds(stream, Got(p, n).buf, from + n, t)
      BY <3>1, GotLeaves
    <3> QED
      BY <3>1, <3>2, <3>3 DEF n
  <2> DEFINE b == Got(p, p.nextLen).buf
  <2>4. \A name : rest(name) = [p EXCEPT !.buf = b, !.handled = Append(@, <<i + 1, name>>)]
    <3>1. b \in Seq(Nat \X Nat)
      BY <2>3 DEF Parsers
    <3> HIDE DEF b
    <3> QED
      BY <2>2, <2>3, <3>1 DEF Parsers, b
  <2>5. b \in Seq(Nat \X Nat)
    BY <2>3 DEF Parsers
  <2> HIDE DEF b
  <2>6. \A name \in Targets :
          /\ Append(p.handled, <<i + 1, name>>) \in Seq(Nat \X Targets)
          /\ Taken(stream, Append(p.handled, <<i + 1, name>>), i + 1)
    BY <1>3, <1>6, TakenMessage
  <2>7. \A name \in Targets :
          /\ rest(name) \in Parsers
          /\ rest(name).buf = b /\ rest(name).assoc = p.assoc
          /\ rest(name).hadHandshake = p.hadHandshake /\ rest(name).wrong = p.wrong
          /\ rest(name).handled = Append(p.handled, <<i + 1, name>>)
    <3> HIDE DEF rest
    <3> QED
      BY <2>4, <2>5, <2>6 DEF Parsers
  <2>8. Len(b) = Len(p.buf) - p.nextLen /\ Holds(stream, b, ItemEnd(stream, i + 1), t)
    BY <2>3 DEF b
  <2>9. NewMessage(r, m) \in Reports /\ Reported(stream, NewMessage(r, m), i + 1)
    BY <1>3, ReportedStep
  <2>10. out = IF m.kind = "exthandshake"
                 THEN <<[rest(NoName) EXCEPT !.assoc = Associate(@, m)], r>>
                 ELSE <<rest(Extension(p, m)), NewMessage(r, m)>>
    <3>1. stream.items[at[1]] = m
      BY <2>2
    <3>2. p.nextLen # 0
      BY <1>2, <1>6
    <3> HIDE DEF rest, m, at
    <3> QED
      BY <2>2, <3>1, <3>2 DEF ProcessMessage, rest, at
  <2>11. CASE m.kind = "exthandshake"
    <3>1. NoName \in Targets
      BY DEF Targets
    <3> DEFINE q == [rest(NoName) EXCEPT !.assoc = Associate(@, m)]
    <3>2. /\ Associate(p.assoc, m) \in [1 .. MaxNumber -> Targets]
          /\ Assigned(stream, Associate(p.assoc, m), i + 1)
      BY <1>3, <2>11, AssignedByHandshake
    <3>3. /\ q \in Parsers /\ q.buf = b /\ q.assoc = Associate(p.assoc, m)
          /\ q.hadHandshake = p.hadHandshake /\ q.wrong = p.wrong
          /\ q.handled = Append(p.handled, <<i + 1, NoName>>)
      <4> HIDE DEF rest, m
      <4> QED
        BY <2>7, <3>1, <3>2 DEF Parsers
    <3>4. NewMessage(r, m) = r
      BY <2>11, OtherMessage
    <3>5. Given(stream, Append(p.handled, <<i + 1, NoName>>))
      <4>1. m.kind = "extended" => NoName = p.assoc[m.number]
        BY <2>11
      <4> QED
        BY <1>3, <3>1, <4>1, GivenStep
    <3>6. out = <<q, r>>
      BY <2>10, <2>11
    <3>7. ReadUpTo(stream, q, r, i + 1)
      <4>1. Reported(stream, r, i + 1)
        BY <2>9, <3>4
      <4>2. Taken(stream, Append(p.handled, <<i + 1, NoName>>), i + 1)
        BY <2>6, <3>1
      <4> HIDE DEF q
      <4> QED
        BY <3>2, <3>3, <3>5, <4>1, <4>2 DEF ReadUpTo
    <3> HIDE DEF q, out
    <3> QED
      BY <2>8, <3>3, <3>6, <3>7 DEF out
  <2>12. CASE m.kind # "exthandshake"
    <3> DEFINE name == Extension(p, m)  q == rest(name)
    <3>1. name \in Targets /\ (m.kind = "extended" => name = p.assoc[m.number])
      <4>1. m.kind = "extended" => m.number \in 1 .. MaxNumber
        BY <1>1, ScaleAssumption
      <4> QED
        BY <1>3, <4>1 DEF Extension, Targets
    <3> HIDE DEF name
    <3>2. /\ q \in Parsers /\ q.buf = b /\ q.assoc = p.assoc
          /\ q.hadHandshake = p.hadHandshake /\ q.wrong = p.wrong
          /\ q.handled = Append(p.handled, <<i + 1, name>>)
      BY <2>7, <3>1
    <3>3. Given(stream, Append(p.handled, <<i + 1, name>>))
      BY <1>3, <3>1, GivenStep
    <3>4. Assigned(stream, p.assoc, i + 1)
      BY <1>3, <2>12, AssignedByOther
    <3>5. Taken(stream, Append(p.handled, <<i + 1, name>>), i + 1)
      BY <2>6, <3>1
    <3>6. out = <<q, NewMessage(r, m)>>
      BY <2>10, <2>12 DEF name
    <3> HIDE DEF q
    <3>7. ReadUpTo(stream, q, NewMessage(r, m), i + 1)
      BY <2>9, <3>2, <3>3, <3>4, <3>5 DEF ReadUpTo
    <3> HIDE DEF out
    <3> QED
      BY <2>8, <2>9, <3>2, <3>6, <3>7 DEF out
  <2> QED
    BY <2>11, <2>12
<1> QED
  BY <1>5, <1>6

\* Twice the bytes in the buffer, and one more in front of a message.
Left(pr) == 2 * Len(pr[1].buf) + (IF pr[1].readingLen THEN 0 ELSE 1)

LEMMA LeftType ==
  ASSUME NEW pr \in Parsers \X Reports
  PROVE  Left(pr) \in Nat /\ Left(pr) \leq 2 * Len(pr[1].buf) + 1 /\ Len(pr[1].buf) \in Nat
<1> DEFINE n == Len(pr[1].buf)  c == IF pr[1].readingLen THEN 0 ELSE 1
<1>1. n \in Nat
  BY DEF Parsers
<1>2. c \in 0 .. 1
  OBVIOUS
<1>3. Left(pr) = 2 * n + c
  BY DEF Left
<1> HIDE DEF n, c
<1>4. Left(pr) \in Nat /\ Left(pr) \leq 2 * n + 1
  BY <1>1, <1>2, <1>3
<1> QED
  BY <1>1, <1>4 DEF n

\* What the result of ExpectLength is made of.
LEMMA ExpectsLength ==
  ASSUME NEW p \in Parsers, NEW r \in Reports
  PROVE  LET q == ExpectLength(<<p, r>>)[1]
         IN  /\ ExpectLength(<<p, r>>) \in Parsers \X Reports /\ ExpectLength(<<p, r>>)[2] = r
             /\ q.buf = p.buf /\ q.readingLen /\ q.nextLen = PrefixLen
             /\ q.hadHandshake = p.hadHandshake /\ q.wrong = p.wrong
             /\ q.assoc = p.assoc /\ q.handled = p.handled
<1> DEFINE q == [p EXCEPT !.readingLen = TRUE, !.nextLen = PrefixLen]
<1>1. ExpectLength(<<p, r>>) = <<q, r>>
  BY DEF ExpectLength
<1>2. /\ q \in Parsers /\ q.buf = p.buf /\ q.readingLen /\ q.nextLen = PrefixLen
      /\ q.hadHandshake = p.hadHandshake /\ q.wrong = p.wrong
      /\ q.assoc = p.assoc /\ q.handled = p.handled
  BY Scale DEF Parsers
<1> HIDE DEF q
<1>3. <<q, r>>[1] = q /\ <<q, r>>[2] = r /\ <<q, r>> \in Parsers \X Reports
  BY <1>2
<1> QED
  BY <1>1, <1>2, <1>3, Zenon

\* Which items have been read does not depend on the rest of the parser.
LEMMA ReadSame ==
  ASSUME NEW s, NEW p, NEW q, NEW r, NEW i, ReadUpTo(s, p, r, i),
         q.assoc = p.assoc, q.handled = p.handled
  PROVE  ReadUpTo(s, q, r, i)
BY DEF ReadUpTo

LEMMA HandshakeRound ==
  ASSUME Good(stream), stream.ok, NEW t \in Nat, NEW p \in Parsers, NEW r \in Reports,
         AwaitsHandshake(stream, p, 0, t), ReadUpTo(stream, p, r, 0), p.nextLen \leq Len(p.buf)
  PROVE  /\ Round(<<p, r>>) \in Reading(stream, t)
         /\ Left(Round(<<p, r>>)) < Left(<<p, r>>)
<1> DEFINE g == Got(p, HandshakeLen)
           q == [g EXCEPT !.wrong = ~stream.ok, !.hadHandshake = TRUE]
           out == ExpectLength(<<q, r>>)
<1>1. /\ ~p.hadHandshake /\ ~p.readingLen /\ p.nextLen = HandshakeLen
      /\ Holds(stream, p.buf, 0, t) /\ Len(p.buf) \in Nat /\ HandshakeLen \in Nat
  BY Scale DEF AwaitsHandshake, Parsers
<1>2. /\ g \in Parsers /\ Len(g.buf) = Len(p.buf) - HandshakeLen
      /\ g = [p EXCEPT !.buf = g.buf]
      /\ Holds(stream, g.buf, 0 + HandshakeLen, t)
  BY <1>1, GotLeaves
<1>3. g.assoc = p.assoc /\ g.handled = p.handled
  <2> DEFINE b == g.buf
  <2>1. g = [p EXCEPT !.buf = b]
    BY <1>2
  <2> HIDE DEF b, g
  <2> QED
    BY <2>1 DEF Parsers
<1> HIDE DEF g
<1>4. /\ q \in Parsers /\ q.buf = g.buf /\ q.assoc = p.assoc /\ q.handled = p.handled
      /\ ~q.wrong /\ q.hadHandshake
  BY <1>2, <1>3 DEF Parsers
<1>5. Round(<<p, r>>) = out
  <2>1. ~(Len(p.buf) < p.nextLen)
    BY <1>1
  <2> QED
    BY <1>1, <2>1 DEF Round, ProcessHandshake, g
<1> HIDE DEF q
<1>6. /\ out \in Parsers \X Reports /\ out[2] = r
      /\ out[1].buf = q.buf /\ out[1].readingLen /\ out[1].nextLen = PrefixLen
      /\ out[1].hadHandshake = q.hadHandshake /\ out[1].wrong = q.wrong
      /\ out[1].assoc = q.assoc /\ out[1].handled = q.handled
  BY <1>4, ExpectsLength
<1> HIDE DEF out
<1>7. ItemEnd(stream, 0) = 0 + HandshakeLen
  BY ItemEnds, Scale
<1>8. AwaitsPrefix(stream, out[1], 0, t)
  BY <1>2, <1>4, <1>6, <1>7 DEF AwaitsPrefix
<1>9. ReadUpTo(stream, out[1], out[2], 0)
  BY <1>4, <1>6, ReadSame
<1>10. 0 \in 0 .. Len(stream.items)
  BY ItemType
<1>11. out \in Reading(stream, t)
  BY <1>4, <1>6, <1>8, <1>9, <1>10 DEF Reading, Stage
<1>12. Left(out) < Left(<<p, r>>)
  <2>1. Left(out) = 2 * (Len(p.buf) - HandshakeLen)
    BY <1>1, <1>2, <1>4, <1>6 DEF Left
  <2>2. Left(<<p, r>>) = 2 * Len(p.buf) + 1
    BY <1>1 DEF Left
  <2> QED
    BY <1>1, <2>1, <2>2
<1> QED
  BY <1>5, <1>11, <1>12

LEMMA PrefixRound ==
  ASSUME Good(stream), NEW t \in 0 .. Len(Bytes(stream)), NEW p \in Parsers, NEW r \in Reports,
         ~p.wrong, NEW i \in 0 .. Len(stream.items),
         AwaitsPrefix(stream, p, i, t), ReadUpTo(stream, p, r, i), p.nextLen \leq Len(p.buf)
  PROVE  /\ Round(<<p, r>>) \in Reading(stream, t)
         /\ Left(Round(<<p, r>>)) < Left(<<p, r>>)
<1> DEFINE g == Got(p, PrefixLen)
           len == UnpackLength(SubSeq(p.buf, 1, PrefixLen))
           q == [g EXCEPT !.readingLen = FALSE, !.nextLen = len]
<1>1. /\ p.hadHandshake /\ p.readingLen /\ p.nextLen = PrefixLen
      /\ Holds(stream, p.buf, ItemEnd(stream, i), t)
      /\ Len(p.buf) \in Nat /\ PrefixLen \in Nat /\ PrefixLen > 0
      /\ Len(p.buf) = t - ItemEnd(stream, i)
  BY Scale DEF AwaitsPrefix, Parsers, Holds
<1>2. ItemEnd(stream, i) \in Nat /\ t \in Nat /\ t \leq ItemEnd(stream, Len(stream.items))
  <2>1. ItemEnd(stream, i) \in Nat
    BY ItemEndsGrow
  <2>2. /\ Len(Bytes(stream)) = ItemEnd(stream, Len(stream.items))
        /\ Len(Bytes(stream)) \in Nat
    BY BytesType
  <2> QED
    BY <2>1, <2>2
<1>3. i \in 0 .. Len(stream.items) - 1
  <2>1. i # Len(stream.items)
    BY <1>1, <1>2
  <2> QED
    BY <2>1, ItemType
<1>4. stream.items[i + 1].len \in Nat /\ i + 1 > 0 /\ i + 1 \in Nat
  BY <1>3, ItemType
<1>5. len = stream.items[i + 1].len
  <2> DEFINE bytes == SubSeq(p.buf, 1, PrefixLen)
  <2>1. 1 \in 1 .. PrefixLen + stream.items[i + 1].len /\ 1 \in 1 .. Len(p.buf)
    BY <1>1, <1>4, SMTT(30)
  <2>2. bytes[1] = p.buf[1]
    <3>1. /\ PrefixLen \in 1 - 1 .. Len(p.buf) /\ 1 \in 1 .. Len(p.buf) + 1
          /\ 1 \in 1 .. PrefixLen - 1 + 1
      BY <1>1
    <3>2. p.buf \in Seq(Nat \X Nat)
      BY DEF Parsers
    <3>3. \A k \in 1 .. PrefixLen - 1 + 1 : bytes[k] = p.buf[1 + k - 1]
      BY <3>1, <3>2, SubSeqProperties
    <3> QED
      BY <3>1, <3>3
  <2>3. p.buf[1] = Bytes(stream)[ItemEnd(stream, i) + 1]
    BY <1>1, <2>1 DEF Holds
  <2>4. Bytes(stream)[ItemEnd(stream, i) + 1] = <<i + 1, 1 - 1>>
    BY <1>3, <2>1, ByteOfItem
  <2>5. bytes[1][1] = i + 1 /\ bytes[1][2] = 0
    <3>1. bytes[1] = <<i + 1, 1 - 1>>
      BY <2>2, <2>3, <2>4
    <3>2. <<i + 1, 1 - 1>>[1] = i + 1 /\ <<i + 1, 1 - 1>>[2] = 0
      OBVIOUS
    <3> QED
      BY <3>1, <3>2, Zenon
  <2> HIDE DEF bytes
  <2>6. UnpackLength(bytes) = stream.items[i + 1].len
    BY <1>4, <2>5 DEF UnpackLength
  <2> QED
    BY <2>6 DEF bytes
<1> HIDE DEF len
<1>6. /\ g \in Parsers /\ Len(g.buf) = Len(p.buf) - PrefixLen
      /\ g = [p EXCEPT !.buf = g.buf]
      /\ Holds(stream, g.buf, ItemEnd(stream, i) + PrefixLen, t)
  BY <1>1, <1>2, GotLeaves
<1>7. /\ g.assoc = p.assoc /\ g.handled = p.handled
      /\ g.wrong = p.wrong /\ g.hadHandshake = p.hadHandshake
  <2> DEFINE b == g.buf
  <2>1. g = [p EXCEPT !.buf = b]
    BY <1>6
  <2> HIDE DEF b, g
  <2> QED
    BY <2>1 DEF Parsers
<1> HIDE DEF g
<1>8. /\ q \in Parsers /\ q.buf = g.buf /\ q.assoc = p.assoc /\ q.handled = p.handled
      /\ ~q.wrong /\ q.hadHandshake /\ ~q.readingLen /\ q.nextLen = len
  BY <1>1, <1>4, <1>5, <1>6, <1>7 DEF Parsers
<1>9. Round(<<p, r>>) = <<q, r>>
  <2>1. ~(Len(p.buf) < p.nextLen)
    BY <1>1
  <2> QED
    BY <1>1, <2>1 DEF Round, g, len
<1> HIDE DEF q
<1>10. AwaitsBody(stream, q, i, t)
  <2>1. i < Len(stream.items)
    BY <1>3, ItemType
  <2> QED
    BY <1>5, <1>6, <1>8, <2>1 DEF AwaitsBody
<1>11. ReadUpTo(stream, q, r, i)
  BY <1>8, ReadSame
<1>12. <<q, r>> \in Reading(stream, t)
  BY <1>8, <1>10, <1>11 DEF Reading, Stage
<1>13. Left(<<q, r>>) < Left(<<p, r>>)
  <2>1. Left(<<q, r>>) = 2 * (Len(p.buf) - PrefixLen) + 1
    BY <1>1, <1>6, <1>8 DEF Left
  <2>2. Left(<<p, r>>) = 2 * Len(p.buf)
    <3>1. <<p, r>>[1] = p
      OBVIOUS
    <3>2. Left(<<p, r>>) = 2 * Len(p.buf) + 0
      BY <1>1, <3>1, Zenon DEF Left
    <3> QED
      BY <1>1, <3>2
  <2> QED
    BY <1>1, <2>1, <2>2
<1> QED
  BY <1>9, <1>12, <1>13

LEMMA BodyRound ==
  ASSUME Good(stream), NEW t \in Nat, NEW p \in Parsers, NEW r \in Reports,
         ~p.wrong, NEW i \in 0 .. Len(stream.items),
         AwaitsBody(stream, p, i, t), ReadUpTo(stream, p, r, i), p.nextLen \leq Len(p.buf)
  PROVE  /\ Round(<<p, r>>) \in Reading(stream, t)
         /\ Left(Round(<<p, r>>)) < Left(<<p, r>>)
<1> DEFINE done == ProcessMessage(p, r)
           out == ExpectLength(done)
<1>1. /\ p.hadHandshake /\ ~p.readingLen /\ i < Len(stream.items)
      /\ p.nextLen = stream.items[i + 1].len
      /\ Len(p.buf) \in Nat
  BY DEF AwaitsBody, Parsers
<1>2. i \in 0 .. Len(stream.items) - 1 /\ i + 1 \in 0 .. Len(stream.items) /\ p.nextLen \in Nat
  BY <1>1, ItemType
<1>3. /\ done[1] \in Parsers /\ done[2] \in Reports
      /\ done[1].hadHandshake = p.hadHandshake /\ done[1].wrong = p.wrong
      /\ Len(done[1].buf) = Len(p.buf) - p.nextLen
      /\ Holds(stream, done[1].buf, ItemEnd(stream, i + 1), t)
      /\ ReadUpTo(stream, done[1], done[2], i + 1)
  BY <1>2, MessageStep
<1>4. Round(<<p, r>>) = out
  <2>1. ~(Len(p.buf) < p.nextLen)
    BY <1>1, <1>2
  <2> QED
    BY <1>1, <2>1 DEF Round
<1>5. out = ExpectLength(<<done[1], done[2]>>)
  BY DEF ExpectLength
<1> HIDE DEF done
<1>6. /\ out \in Parsers \X Reports /\ out[2] = done[2]
      /\ out[1].buf = done[1].buf /\ out[1].readingLen /\ out[1].nextLen = PrefixLen
      /\ out[1].hadHandshake = done[1].hadHandshake /\ out[1].wrong = done[1].wrong
      /\ out[1].assoc = done[1].assoc /\ out[1].handled = done[1].handled
  <2> HIDE DEF out
  <2> QED
    BY <1>3, <1>5, ExpectsLength
<1> HIDE DEF out
<1>7. AwaitsPrefix(stream, out[1], i + 1, t)
  BY <1>1, <1>3, <1>6 DEF AwaitsPrefix
<1>8. ReadUpTo(stream, out[1], out[2], i + 1)
  BY <1>3, <1>6, ReadSame
<1>9. out \in Reading(stream, t)
  BY <1>2, <1>3, <1>6, <1>7, <1>8 DEF Reading, Stage
<1>10. Left(out) < Left(<<p, r>>)
  <2>1. Left(out) = 2 * (Len(p.buf) - p.nextLen)
    BY <1>1, <1>2, <1>3, <1>6 DEF Left
  <2>2. Left(<<p, r>>) = 2 * Len(p.buf) + 1
    BY <1>1 DEF Left
  <2> QED
    BY <1>1, <1>2, <2>1, <2>2
<1> QED
  BY <1>4, <1>9, <1>10

\* A pass of the loop keeps the parser in step with the stream and, unless the
\* loop has ended, leaves less to do.
LEMMA RoundStep ==
  ASSUME Good(stream), stream.ok, NEW t \in 0 .. Len(Bytes(stream)), NEW pr \in Reading(stream, t)
  PROVE  /\ Round(pr) \in Reading(stream, t)
         /\ Len(pr[1].buf) < pr[1].nextLen => Round(pr) = pr
         /\ ~(Len(pr[1].buf) < pr[1].nextLen) => Left(Round(pr)) < Left(pr)
<1> DEFINE p == pr[1]  r == pr[2]
<1>1. /\ p \in Parsers /\ r \in Reports /\ pr = <<p, r>> /\ ~p.wrong
      /\ Len(p.buf) \in Nat /\ p.nextLen \in Nat
  BY DEF Reading, Parsers
<1>2. t \in Nat
  BY BytesType
<1>3. PICK i \in 0 .. Len(stream.items) : Stage(stream, p, i, t) /\ ReadUpTo(stream, p, r, i)
  BY DEF Reading
<1> HIDE DEF p, r
<1>4. CASE Len(p.buf) < p.nextLen
  <2>1. Round(pr) = pr
    BY <1>4 DEF Round, p
  <2> QED
    BY <1>4, <2>1 DEF p
<1>5. CASE ~(Len(p.buf) < p.nextLen)
  <2>1. p.nextLen \leq Len(p.buf)
    BY <1>1, <1>5
  <2>2. CASE AwaitsHandshake(stream, p, i, t)
    <3>1. i = 0
      BY <2>2 DEF AwaitsHandshake
    <3>2. /\ Round(<<p, r>>) \in Reading(stream, t)
          /\ Left(Round(<<p, r>>)) < Left(<<p, r>>)
      BY <1>1, <1>2, <1>3, <2>1, <2>2, <3>1, HandshakeRound
    <3> QED
      BY <1>1, <1>5, <3>2 DEF p
  <2>3. CASE AwaitsPrefix(stream, p, i, t)
    <3>1. /\ Round(<<p, r>>) \in Reading(stream, t)
          /\ Left(Round(<<p, r>>)) < Left(<<p, r>>)
      BY <1>1, <1>3, <2>1, <2>3, PrefixRound
    <3> QED
      BY <1>1, <1>5, <3>1 DEF p
  <2>4. CASE AwaitsBody(stream, p, i, t)
    <3>1. /\ Round(<<p, r>>) \in Reading(stream, t)
          /\ Left(Round(<<p, r>>)) < Left(<<p, r>>)
      BY <1>1, <1>2, <1>3, <2>1, <2>4, BodyRound
    <3> QED
      BY <1>1, <1>5, <3>1 DEF p
  <2> QED
    BY <1>3, <2>2, <2>3, <2>4 DEF Stage
<1> QED
  BY <1>4, <1>5

\* The loop of Consume ends, in step with the stream.
LEMMA ConsumeEnds ==
  ASSUME Good(stream), stream.ok, NEW t \in 0 .. Len(Bytes(stream)), NEW pr \in Reading(stream, t)
  PROVE  /\ Consume(pr) \in Reading(stream, t)
         /\ Len(Consume(pr)[1].buf) < Consume(pr)[1].nextLen
<1> DEFINE T == Reading(stream, t)
           p == [x \in T |-> Round(x)]
           N == 2 * Len(pr[1].buf) + 1
           Ended(x) == Len(x[1].buf) < x[1].nextLen
           eq(g) == g = [k \in Nat |-> IF k = 0 THEN pr ELSE Round(g[k - 1])]
           after == CHOOSE g : eq(g)
<1>1. \A x \in T : /\ Round(x) \in T /\ x \in Parsers \X Reports
                   /\ Ended(x) => Round(x) = x
                   /\ ~Ended(x) => Left(Round(x)) < Left(x)
                   /\ Left(x) \in Nat
  <2>1. \A x \in T : x \in Parsers \X Reports
    BY DEF Reading
  <2>2. \A x \in T : Left(x) \in Nat
    BY <2>1, LeftType
  <2> QED
    BY <2>1, <2>2, RoundStep
<1>2. N \in Nat /\ Left(pr) \leq N
  BY <1>1, LeftType
<1> HIDE DEF T, N, Ended
<1>3. pr \in T
  BY DEF T
<1>4. \E g : eq(g)
  <2>1. p \in Maps(T)
    BY <1>1 DEF Maps
  <2>2. PICK g \in Repeats(p, pr, T) : TRUE
    <3> HIDE DEF p
    <3> QED
      BY <1>3, <2>1, Iterates
  <2>3. g \in [Nat -> T] /\ g[0] = pr /\ \A n \in Nat : g[n + 1] = Round(g[n])
    BY <2>2 DEF Repeats
  <2>4. ASSUME NEW k \in Nat PROVE g[k] = IF k = 0 THEN pr ELSE Round(g[k - 1])
    <3>1. CASE k = 0
      BY <2>3, <3>1
    <3>2. CASE k # 0
      <4>1. k - 1 \in Nat /\ (k - 1) + 1 = k
        BY <3>2
      <4> QED
        BY <2>3, <3>2, <4>1
    <3> QED
      BY <3>1, <3>2
  <2>5. eq(g)
    BY <2>3, <2>4
  <2> QED
    BY <2>5
<1>5. eq(after)
  <2> HIDE DEF eq
  <2> QED
    BY <1>4
<1>6. Consume(pr) = after[N]
  BY DEF Consume, N
<1> HIDE DEF after
<1>7. after[0] = pr /\ \A k \in Nat : after[k + 1] = Round(after[k])
  <2>1. \A k \in Nat : after[k] = IF k = 0 THEN pr ELSE Round(after[k - 1])
    BY <1>5
  <2>2. \A k \in Nat : k + 1 \in Nat /\ k + 1 # 0 /\ (k + 1) - 1 = k
    OBVIOUS
  <2> QED
    BY <2>1, <2>2
<1> HIDE DEF eq
<1> DEFINE G == {k \in Nat : /\ after[k] \in T
                             /\ (Ended(after[k]) \/ Left(after[k]) + k \leq Left(pr))}
<1>8. Nat \subseteq G
  <2>1. 0 \in G
    <3>1. Left(pr) + 0 \leq Left(pr)
      BY <1>1, <1>3
    <3> HIDE DEF Left
    <3> QED
      BY <1>3, <1>7, <3>1
  <2>2. ASSUME NEW k \in Nat, k \in G PROVE k + 1 \in G
    <3> DEFINE x == after[k]
    <3>1. x \in T /\ (Ended(x) \/ Left(x) + k \leq Left(pr)) /\ after[k + 1] = Round(x)
      BY <1>7, <2>2
    <3> HIDE DEF x
    <3>2. CASE Ended(x)
      BY <1>1, <3>1, <3>2
    <3>3. CASE ~Ended(x)
      <4>1. Left(Round(x)) < Left(x) /\ Round(x) \in T /\ Left(x) + k \leq Left(pr)
        BY <1>1, <3>1, <3>3
      <4>2. Left(Round(x)) \in Nat /\ Left(x) \in Nat /\ Left(pr) \in Nat
        BY <1>1, <1>3, <3>1, <4>1
      <4>3. Left(Round(x)) + (k + 1) \leq Left(pr)
        BY <4>1, <4>2
      <4> QED
        BY <3>1, <4>1, <4>3
    <3> QED
      BY <3>2, <3>3
  <2> HIDE DEF G
  <2> QED
    BY <2>1, <2>2, NatSetInduction
<1>9. after[N] \in T /\ (Ended(after[N]) \/ Left(after[N]) + N \leq Left(pr))
  BY <1>2, <1>8
<1>10. Ended(after[N])
  <2>1. SUFFICES ASSUME ~Ended(after[N]) PROVE FALSE
    OBVIOUS
  <2> DEFINE x == after[N]
  <2>2. x \in T /\ Left(x) + N \leq Left(pr) /\ Left(x) \in Nat
    BY <1>1, <1>9, <2>1
  <2>3. Left(Round(x)) < Left(x) /\ Left(Round(x)) \in Nat /\ Left(pr) \in Nat
    BY <1>1, <1>3, <2>1, <2>2
  <2> HIDE DEF x
  <2> QED
    BY <1>2, <2>2, <2>3
<1> QED
  BY <1>6, <1>9, <1>10 DEF T, Ended

-----------------------------------------------------------------------------
(* The invariant. *)

LEMMA ParsedInit == Init => Parsed
<1> SUFFICES ASSUME Init PROVE Parsed
  OBVIOUS
<1>1. stream \in Streams /\ Good(stream) /\ taken = 0
  BY StreamsAreGood DEF Init
<1>2. taken \in 0 .. Len(Bytes(stream))
  BY <1>1, BytesType
<1>3. /\ parser = [buf |-> << >>, nextLen |-> HandshakeLen, readingLen |-> FALSE,
                   hadHandshake |-> FALSE, wrong |-> FALSE,
                   assoc |-> [n \in 1 .. MaxNumber |-> NoName], handled |-> << >>]
      /\ report = [pieces |-> -1, maxPieceLen |-> -1, sentPieces |-> 0]
  BY DEF Init
<1>4. /\ parser.buf = << >> /\ parser.nextLen = HandshakeLen /\ ~parser.readingLen
      /\ ~parser.hadHandshake /\ ~parser.wrong /\ parser.handled = << >>
      /\ parser.assoc = [n \in 1 .. MaxNumber |-> NoName]
      /\ report.pieces = -1 /\ report.maxPieceLen = -1 /\ report.sentPieces = 0
  BY <1>3
<1>5. parser \in Parsers /\ report \in Reports
  <2>1. << >> \in Seq(Nat \X Nat) /\ << >> \in Seq(Nat \X Targets)
    OBVIOUS
  <2>2. [n \in 1 .. MaxNumber |-> NoName] \in [1 .. MaxNumber -> Targets]
    BY DEF Targets
  <2>3. parser \in Parsers
    BY <1>3, <2>1, <2>2, Scale DEF Parsers
  <2> QED
    BY <1>3, <2>3 DEF Reports
<1>6. Len(parser.buf) = 0 /\ 1 .. 0 = {} /\ DOMAIN parser.handled = {}
  BY <1>4
<1>7. AwaitsHandshake(stream, parser, 0, taken)
  <2>1. Holds(stream, parser.buf, 0, taken)
    BY <1>1, <1>6 DEF Holds
  <2> QED
    BY <1>4, <2>1 DEF AwaitsHandshake
<1>8. \A kinds : Before(stream, kinds, 0) = {} /\ Args(stream, kinds, 0) = {}
  BY <1>6 DEF Before, Args
<1>9. Reported(stream, report, 0)
  BY <1>4, <1>8, FS_EmptySet DEF Reported, Greatest, Covers
<1>10. Assigned(stream, parser.assoc, 0)
  BY <1>4, <1>8, ScaleAssumption DEF Assigned, NamedBy
<1>11. Taken(stream, parser.handled, 0) /\ Given(stream, parser.handled)
  BY <1>6 DEF Taken, Given
<1>12. ReadUpTo(stream, parser, report, 0)
  BY <1>9, <1>10, <1>11 DEF ReadUpTo
<1>13. <<parser, report>> \in Reading(stream, taken)
  <2>1. 0 \in 0 .. Len(stream.items)
    BY <1>1, ItemType
  <2> QED
    BY <1>4, <1>5, <1>7, <1>12, <2>1 DEF Reading, Stage
<1> QED
  BY <1>1, <1>2, <1>4, <1>6, <1>13, Scale DEF Parsed

\* A segment adds to the bytes in the buffer those that follow.
LEMMA SegmentAdds ==
  ASSUME NEW s, Good(s), NEW t \in Nat, NEW n \in Nat, n > 0, t + n \leq Len(Bytes(s)),
         NEW buf \in Seq(Nat \X Nat), NEW from \in Nat, Holds(s, buf, from, t)
  PROVE  Holds(s, buf \o SubSeq(Bytes(s), t + 1, t + n), from, t + n)
<1> DEFINE B == Bytes(s)  payload == SubSeq(B, t + 1, t + n)  new == buf \o payload
<1>1. B \in Seq(Nat \X Nat) /\ Len(B) \in Nat
  BY BytesType
<1>2. /\ payload \in Seq(Nat \X Nat) /\ Len(payload) = n
      /\ \A k \in 1 .. n : payload[k] = B[t + k]
  <2>1. t + 1 \in 1 .. Len(B) + 1 /\ t + n \in (t + 1) - 1 .. Len(B) /\ (t + n) - (t + 1) + 1 = n
    BY <1>1
  <2>2. /\ payload \in Seq(Nat \X Nat) /\ Len(payload) = (t + n) - (t + 1) + 1
        /\ \A k \in 1 .. (t + n) - (t + 1) + 1 : payload[k] = B[(t + 1) + k - 1]
    <3> HIDE DEF B
    <3> QED
      BY <1>1, <2>1, SubSeqProperties
  <2>3. \A k \in 1 .. n : (t + 1) + k - 1 = t + k
    OBVIOUS
  <2> QED
    BY <2>1, <2>2, <2>3
<1>3. Len(buf) = t - from /\ \A k \in 1 .. Len(buf) : buf[k] = B[from + k]
  BY DEF Holds
<1> HIDE DEF payload, B
<1>4. Len(buf) \in Nat
  OBVIOUS
<1>5. /\ Len(new) = Len(buf) + n
      /\ \A k \in 1 .. Len(buf) + n :
           new[k] = IF k \leq Len(buf) THEN buf[k] ELSE payload[k - Len(buf)]
  BY <1>2, <1>4, ConcatProperties
<1> HIDE DEF new
<1>6. Len(new) = (t + n) - from
  BY <1>3, <1>4, <1>5
<1>7. ASSUME NEW k \in 1 .. Len(new) PROVE new[k] = B[from + k]
  <2>1. k \in 1 .. Len(buf) + n
    BY <1>5
  <2>2. CASE k \leq Len(buf)
    <3>1. k \in 1 .. Len(buf)
      BY <1>4, <2>1, <2>2
    <3> QED
      BY <1>3, <1>5, <2>1, <2>2, <3>1
  <2>3. CASE ~(k \leq Len(buf))
    <3>1. k - Len(buf) \in 1 .. n /\ t + (k - Len(buf)) = from + k
      BY <1>3, <1>4, <2>1, <2>3
    <3>2. new[k] = payload[k - Len(buf)]
      BY <1>5, <2>1, <2>3
    <3> QED
      BY <1>2, <3>1, <3>2
  <2> QED
    BY <2>2, <2>3
<1>8. Holds(s, new, from, t + n)
  BY <1>6, <1>7 DEF Holds, B
<1> QED
  BY <1>8 DEF new, payload, B

\* Then the loop starts in step with the stream.
LEMMA SegmentStarts ==
  ASSUME Good(stream), NEW t \in Nat, NEW n \in Nat, n > 0, t + n \leq Len(Bytes(stream)),
         NEW p \in Parsers, NEW r \in Reports, <<p, r>> \in Reading(stream, t)
  PROVE  <<[p EXCEPT !.buf = @ \o SubSeq(Bytes(stream), t + 1, t + n)], r>>
           \in Reading(stream, t + n)
<1> DEFINE b == p.buf \o SubSeq(Bytes(stream), t + 1, t + n)
           q == [p EXCEPT !.buf = b]
<1>1. p.buf \in Seq(Nat \X Nat) /\ ~p.wrong
  BY DEF Parsers, Reading
<1>2. b \in Seq(Nat \X Nat)
  <2> DEFINE B == Bytes(stream)
  <2>1. B \in Seq(Nat \X Nat) /\ Len(B) \in Nat
    BY BytesType
  <2>2. t + 1 \in 1 .. Len(B) + 1 /\ t + n \in (t + 1) - 1 .. Len(B)
    BY <2>1
  <2> HIDE DEF B
  <2>3. SubSeq(B, t + 1, t + n) \in Seq(Nat \X Nat)
    BY <2>1, <2>2, SubSeqProperties
  <2>4. p.buf \o SubSeq(B, t + 1, t + n) \in Seq(Nat \X Nat)
    BY <1>1, <2>3, ConcatProperties
  <2> QED
    BY <2>4 DEF B
<1>3. \A from \in Nat : Holds(stream, p.buf, from, t) => Holds(stream, b, from, t + n)
  BY <1>1, SegmentAdds
<1> HIDE DEF b
<1>4. /\ q \in Parsers /\ q.buf = b /\ q.nextLen = p.nextLen /\ q.readingLen = p.readingLen
      /\ q.hadHandshake = p.hadHandshake /\ q.wrong = p.wrong /\ q.assoc = p.assoc
      /\ q.handled = p.handled
  BY <1>2 DEF Parsers
<1> HIDE DEF q
<1>5. PICK i \in 0 .. Len(stream.items) : Stage(stream, p, i, t) /\ ReadUpTo(stream, p, r, i)
  BY DEF Reading
<1>6. ReadUpTo(stream, q, r, i)
  BY <1>4, <1>5, ReadSame
<1>7. /\ 0 \in Nat /\ ItemEnd(stream, i) \in Nat
      /\ ItemEnd(stream, i) + PrefixLen \in Nat
  <2>1. ItemEnd(stream, i) \in Nat
    BY ItemEndsGrow
  <2> QED
    BY <2>1, Scale
<1>8. AwaitsHandshake(stream, p, i, t) => AwaitsHandshake(stream, q, i, t + n)
  BY <1>3, <1>4, <1>7 DEF AwaitsHandshake
<1>9. AwaitsPrefix(stream, p, i, t) => AwaitsPrefix(stream, q, i, t + n)
  BY <1>3, <1>4, <1>7 DEF AwaitsPrefix
<1>10. AwaitsBody(stream, p, i, t) => AwaitsBody(stream, q, i, t + n)
  BY <1>3, <1>4, <1>7 DEF AwaitsBody
<1>11. Stage(stream, q, i, t + n)
  BY <1>5, <1>8, <1>9, <1>10 DEF Stage
<1>12. <<q, r>> \in Reading(stream, t + n)
  BY <1>1, <1>4, <1>6, <1>11 DEF Reading
<1>13. [p EXCEPT !.buf = @ \o SubSeq(Bytes(stream), t + 1, t + n)] = q
  BY DEF q, b
<1> QED
  BY <1>12, <1>13

LEMMA ParsedNext == Parsed /\ [Next]_vars => Parsed'
<1> SUFFICES ASSUME Parsed, [Next]_vars PROVE Parsed'
  OBVIOUS
<1>1. CASE UNCHANGED vars
  BY <1>1 DEF vars, Parsed
<1>2. ASSUME NEW n \in 1 .. MaxSegment, Segment(n) PROVE Parsed'
  <2>1. n \in Nat /\ n > 0
    BY ScaleAssumption
  <2>2. /\ stream \in Streams /\ Good(stream) /\ taken \in 0 .. Len(Bytes(stream))
        /\ Len(Bytes(stream)) \in Nat
    BY StreamsAreGood, BytesType DEF Parsed
  <2>3. /\ taken + n \leq Len(Bytes(stream)) /\ taken' = taken + n /\ stream' = stream
        /\ ProcessSegment(SubSeq(Bytes(stream), taken + 1, taken + n))
    BY <1>2 DEF Segment
  <2>4. taken + n \in 0 .. Len(Bytes(stream)) /\ taken \in Nat
    BY <2>1, <2>2, <2>3
  <2>5. ASSUME stream.ok
        PROVE  <<parser', report'>> \in Reading(stream, taken + n)
               /\ Len(parser'.buf) < parser'.nextLen
    <3> DEFINE start == <<[parser EXCEPT !.buf =
                             @ \o SubSeq(Bytes(stream), taken + 1, taken + n)], report>>
               done == Consume(start)
    <3>1. <<parser, report>> \in Reading(stream, taken)
      BY <2>5 DEF Parsed
    <3>2. parser \in Parsers /\ report \in Reports /\ ~parser.wrong
      BY <3>1 DEF Reading
    <3>3. start \in Reading(stream, taken + n)
      BY <2>1, <2>2, <2>3, <2>4, <3>1, <3>2, SegmentStarts
    <3>4. parser' = done[1] /\ report' = done[2]
      BY <2>3, <3>2 DEF ProcessSegment
    <3> HIDE DEF start
    <3>5. done \in Reading(stream, taken + n) /\ Len(done[1].buf) < done[1].nextLen
      BY <2>2, <2>4, <2>5, <3>3, ConsumeEnds
    <3> HIDE DEF done
    <3>6. done = <<done[1], done[2]>>
      BY <3>5 DEF Reading
    <3> QED
      BY <3>4, <3>5, <3>6
  <2> QED
    BY <2>2, <2>3, <2>4, <2>5 DEF Parsed
<1> QED
  BY <1>1, <1>2 DEF Next

\* The parser is in step with every stream that begins with the handshake.
THEOREM BtpParserInvariant == Spec => []Parsed
<1>1. Init => Parsed
  BY ParsedInit
<1>2. Parsed /\ [Next]_vars => Parsed'
  BY ParsedNext
<1> QED
  BY <1>1, <1>2, PTL DEF Spec

-----------------------------------------------------------------------------
(* The properties. *)

\* When the loop has ended, the items that are complete have been read.
LEMMA CompleteRead ==
  ASSUME Parsed, stream.ok
  PROVE  /\ Good(stream)
         /\ \E i \in 0 .. Len(stream.items) :
              Complete = 1 .. i /\ ReadUpTo(stream, parser, report, i)
<1> DEFINE L == Len(stream.items)
           e(i) == ItemEnd(stream, i)
<1>1. /\ Good(stream) /\ <<parser, report>> \in Reading(stream, taken)
      /\ Len(parser.buf) < parser.nextLen /\ taken \in 0 .. Len(Bytes(stream))
  BY StreamsAreGood DEF Parsed
<1>2. PICK i \in 0 .. L :
        Stage(stream, parser, i, taken) /\ ReadUpTo(stream, parser, report, i)
  BY <1>1 DEF Reading
<1>3. L \in Nat /\ i \in Nat /\ i \leq L /\ taken \in Nat
  BY <1>1, ItemType, BytesType
<1>4. \A j, k \in 0 .. L : (j \leq k => e(j) \leq e(k)) /\ e(j) \in Nat /\ HandshakeLen \leq e(j)
  BY <1>1, ItemEndsGrow
<1>5. \A j \in 0 .. L - 1 : /\ e(j + 1) = e(j) + PrefixLen + stream.items[j + 1].len
                            /\ stream.items[j + 1].len \in Nat
  BY <1>1, <1>3, ItemEnds, ItemType
<1>6. e(0) = HandshakeLen
  BY <1>1, ItemEnds
<1>7. Complete = {j \in 1 .. L : e(j) \leq taken}
  BY DEF Complete
<1> HIDE DEF e
<1>8. /\ i = 0 \/ e(i) \leq taken
      /\ i < L => taken < e(i + 1)
  <2>1. CASE AwaitsHandshake(stream, parser, i, taken)
    <3>1. i = 0 /\ taken < HandshakeLen
      BY <1>1, <1>3, <2>1, Scale DEF AwaitsHandshake, Holds
    <3>2. i < L => i + 1 \in 0 .. L
      BY <1>3
    <3> QED
      BY <1>3, <1>4, <3>1, <3>2, Scale
  <2>2. CASE AwaitsPrefix(stream, parser, i, taken)
    <3>1. Len(parser.buf) = taken - e(i) /\ Len(parser.buf) < PrefixLen
      BY <1>1, <2>2 DEF AwaitsPrefix, Holds, e
    <3>2. Len(parser.buf) \in Nat /\ e(i) \in Nat
      BY <1>1, <1>4 DEF Reading, Parsers
    <3>3. i < L => i \in 0 .. L - 1
      BY <1>3
    <3> DEFINE N == Len(parser.buf)  l == stream.items[i + 1].len  a == e(i)  z == e(i + 1)
    <3>4. i < L => z = a + PrefixLen + l /\ l \in Nat
      BY <1>5, <3>3
    <3>5. N = taken - a /\ N < PrefixLen /\ N \in Nat /\ a \in Nat
      BY <3>1, <3>2
    <3> HIDE DEF N, l, a, z
    <3>6. a \leq taken /\ (i < L => taken < z)
      BY <1>3, <3>4, <3>5, Scale
    <3> QED
      BY <3>6 DEF a, z
  <2>3. CASE AwaitsBody(stream, parser, i, taken)
    <3>1. /\ Len(parser.buf) = taken - (e(i) + PrefixLen) /\ i < L
          /\ Len(parser.buf) < stream.items[i + 1].len
      BY <1>1, <2>3 DEF AwaitsBody, Holds, e
    <3>2. Len(parser.buf) \in Nat /\ e(i) \in Nat
      BY <1>1, <1>4 DEF Reading, Parsers
    <3>3. i \in 0 .. L - 1
      BY <1>3, <3>1
    <3> DEFINE N == Len(parser.buf)  l == stream.items[i + 1].len  a == e(i)  z == e(i + 1)
    <3>4. z = a + PrefixLen + l /\ l \in Nat
      BY <1>5, <3>3
    <3>5. N = taken - (a + PrefixLen) /\ N < l /\ N \in Nat /\ a \in Nat /\ i < L
      BY <3>1, <3>2
    <3> HIDE DEF N, l, a, z
    <3>6. a \leq taken /\ taken < z
      BY <1>3, <3>4, <3>5, Scale
    <3> QED
      BY <3>6 DEF a, z
  <2> QED
    BY <1>2, <2>1, <2>2, <2>3 DEF Stage
<1>9. \A j \in 1 .. L : e(j) \leq taken <=> j \leq i
  <2> SUFFICES ASSUME NEW j \in 1 .. L PROVE e(j) \leq taken <=> j \leq i
    OBVIOUS
  <2>1. j \in 0 .. L /\ e(j) \in Nat /\ e(i) \in Nat
    BY <1>3, <1>4
  <2>2. CASE j \leq i
    <3>1. e(j) \leq e(i) /\ i # 0
      BY <1>3, <1>4, <2>1, <2>2
    <3> QED
      BY <1>3, <1>8, <2>1, <2>2, <3>1
  <2>3. CASE ~(j \leq i)
    <3>1. i < L /\ i + 1 \in 0 .. L /\ i + 1 \leq j
      BY <1>3, <2>3
    <3>2. e(i + 1) \leq e(j) /\ e(i + 1) \in Nat
      BY <1>4, <2>1, <3>1
    <3> QED
      BY <1>3, <1>8, <2>1, <2>3, <3>1, <3>2
  <2> QED
    BY <2>2, <2>3
<1>10. Complete = 1 .. i
  <2>1. \A j : j \in Complete <=> j \in 1 .. L /\ j \leq i
    BY <1>7, <1>9
  <2>2. \A j : j \in 1 .. i <=> j \in 1 .. L /\ j \leq i
    BY <1>3
  <2> QED
    BY <2>1, <2>2
<1> QED
  BY <1>1, <1>2, <1>10

LEMMA FramedHolds == Parsed => Framed
<1> SUFFICES ASSUME Parsed, stream.ok
             PROVE  /\ {h[1] : h \in Range(parser.handled)}
                         = {i \in Complete : stream.items[i].len > 0}
                    /\ \A k, l \in DOMAIN parser.handled :
                         k < l => parser.handled[k][1] < parser.handled[l][1]
  BY DEF Framed
<1>1. PICK i \in 0 .. Len(stream.items) :
        Complete = 1 .. i /\ ReadUpTo(stream, parser, report, i)
  BY CompleteRead
<1>2. Taken(stream, parser.handled, i)
  BY <1>1 DEF ReadUpTo
<1>3. \A j : (\E h \in Range(parser.handled) : h[1] = j)
               <=> \E k \in DOMAIN parser.handled : parser.handled[k][1] = j
  BY DEF Range
<1>4. \A j : (\E k \in DOMAIN parser.handled : parser.handled[k][1] = j)
               <=> j \in Complete /\ stream.items[j].len > 0
  BY <1>1, <1>2 DEF Taken
<1>5. {h[1] : h \in Range(parser.handled)} = {j \in Complete : stream.items[j].len > 0}
  <2> DEFINE A == {h[1] : h \in Range(parser.handled)}
             B == {j \in Complete : stream.items[j].len > 0}
  <2>1. \A j : j \in A <=> \E h \in Range(parser.handled) : h[1] = j
    OBVIOUS
  <2>2. \A j : j \in B <=> j \in Complete /\ stream.items[j].len > 0
    OBVIOUS
  <2> SUFFICES A = B
    OBVIOUS
  <2> HIDE DEF A, B
  <2>3. \A j : j \in A <=> j \in B
    BY <1>3, <1>4, <2>1, <2>2
  <2> QED
    BY <2>3
<1> QED
  BY <1>2, <1>5 DEF Taken

LEMMA MaxIs ==
  ASSUME NEW S \in SUBSET Int, NEW v \in S, \A x \in S : x \leq v
  PROVE  Max(S) = v
<1>1. \A x \in S : (\A y \in S : x \geq y) => x = v
  OBVIOUS
<1>2. \A y \in S : v \geq y
  OBVIOUS
<1> QED
  BY <1>1, <1>2 DEF Max

LEMMA ReportHolds == Parsed => ReportMatches
<1> SUFFICES ASSUME Parsed, stream.ok PROVE ReportMatches
  BY DEF ReportMatches
<1>1. PICK i \in 0 .. Len(stream.items) :
        Complete = 1 .. i /\ ReadUpTo(stream, parser, report, i)
  BY CompleteRead
<1>2. Good(stream) /\ Reported(stream, report, i) /\ report.maxPieceLen \in Int
  BY <1>1, CompleteRead DEF ReadUpTo, Parsed, Reading, Reports
<1>3. \A kinds : OfKind(kinds) = Before(stream, kinds, i)
  BY <1>1 DEF OfKind, Before
<1>4. \A kinds : Args(stream, kinds, i) \in SUBSET Nat
  <2> SUFFICES ASSUME NEW kinds
               PROVE  \A j \in Before(stream, kinds, i) : stream.items[j].arg \in Nat
    BY DEF Args
  <2>1. \A j \in Before(stream, kinds, i) : j \in 1 .. Len(stream.items)
    BY <1>2, ItemType DEF Before
  <2> QED
    BY <1>2, <2>1, ItemType
<1>5. report.sentPieces = Cardinality(OfKind({"piece"}))
  BY <1>2, <1>3 DEF Reported
<1>6. report.pieces = MaxOr({8 * stream.items[j].arg : j \in OfKind({"bitfield"})}, -1)
  <2> DEFINE A == Args(stream, {"bitfield"}, i)
             S == {8 * stream.items[j].arg : j \in OfKind({"bitfield"})}
  <2>1. PICK bytes \in {-1} \cup A :
          Greatest(bytes, A) /\ report.pieces = IF bytes = -1 THEN -1 ELSE 8 * bytes
    BY <1>2 DEF Reported
  <2>2. A \in SUBSET Nat /\ S = {8 * x : x \in A}
    BY <1>3, <1>4 DEF Args
  <2> SUFFICES report.pieces = MaxOr(S, -1)
    OBVIOUS
  <2> HIDE DEF A, S
  <2>3. CASE A = {}
    BY <2>1, <2>2, <2>3 DEF Greatest, MaxOr
  <2>4. CASE A # {}
    <3>1. bytes \in A /\ \A x \in A : x \leq bytes
      BY <2>1, <2>4 DEF Greatest
    <3>2. report.pieces = 8 * bytes /\ bytes \in Nat
      BY <2>1, <2>2, <3>1
    <3>3. 8 * bytes \in S /\ S \in SUBSET Int /\ \A x \in S : x \leq 8 * bytes
      BY <2>2, <3>1, <3>2
    <3>4. Max(S) = 8 * bytes
      BY <3>3, MaxIs
    <3> QED
      BY <3>2, <3>3, <3>4 DEF MaxOr
  <2> QED
    BY <2>3, <2>4
<1> DEFINE S == {stream.items[j].arg : j \in OfKind({"request", "cancel"})}
           reach == MaxOr(S, -1)
<1>7. IF reach = -1 THEN report.maxPieceLen = -1
      ELSE /\ report.maxPieceLen \geq reach
           /\ report.maxPieceLen \in {PowerOfTwo[k] : k \in 0 .. reach}
           /\ report.maxPieceLen \div 2 < Max({reach, 1})
  <2>1. S = Args(stream, {"request", "cancel"}, i) /\ S \in SUBSET Nat
    BY <1>3, <1>4 DEF Args
  <2>2. PICK v \in {-1} \cup S : Greatest(v, S) /\ Covers(report.maxPieceLen, v)
    BY <1>2, <2>1 DEF Reported
  <2> HIDE DEF S
  <2>3. reach = v
    <3>1. CASE S = {}
      BY <2>2, <3>1 DEF Greatest, MaxOr
    <3>2. CASE S # {}
      <4>1. v \in S /\ S \in SUBSET Int /\ \A x \in S : x \leq v
        BY <2>1, <2>2, <3>2 DEF Greatest
      <4>2. Max(S) = v
        BY <4>1, MaxIs
      <4> QED
        BY <3>2, <4>2 DEF MaxOr
    <3> QED
      BY <3>1, <3>2
  <2> HIDE DEF reach
  <2>4. v \in Int
    BY <2>1
  <2>5. CASE v = -1
    BY <2>2, <2>3, <2>5 DEF Covers
  <2>6. CASE v # -1
    <3>1. /\ report.maxPieceLen \geq v
          /\ \E k \in 0 .. v : report.maxPieceLen = PowerOfTwo[k]
          /\ (report.maxPieceLen \div 2 < v \/ report.maxPieceLen \div 2 < 1)
      BY <2>2, <2>6 DEF Covers
    <3> DEFINE w == IF v > 1 THEN v ELSE 1
    <3>2. Max({v, 1}) = w
      <4>1. w \in {v, 1} /\ {v, 1} \in SUBSET Int /\ \A x \in {v, 1} : x \leq w
        BY <2>4
      <4> HIDE DEF w
      <4> QED
        BY <4>1, MaxIs
    <3>3. report.maxPieceLen \div 2 < w
      <4>1. report.maxPieceLen \div 2 \in Int
        BY <1>2
      <4> QED
        BY <2>4, <3>1, <4>1
    <3> HIDE DEF w
    <3> QED
      BY <2>3, <2>6, <3>1, <3>2, <3>3
  <2> QED
    BY <2>5, <2>6
<1> QED
  BY <1>5, <1>6, <1>7 DEF ReportMatches

LEMMA RightExtensionHolds == Parsed => RightExtension
<1> SUFFICES ASSUME Parsed, stream.ok, NEW h \in Range(parser.handled),
                    stream.items[h[1]].kind = "extended", NEW x \in ExtNames
             PROVE  h[2] = x <=> Names(stream.items[h[1]].number, x, h[1])
  BY DEF RightExtension
<1>1. PICK i \in 0 .. Len(stream.items) :
        Complete = 1 .. i /\ ReadUpTo(stream, parser, report, i)
  BY CompleteRead
<1>2. PICK k \in DOMAIN parser.handled : h = parser.handled[k]
  BY DEF Range
<1>3. Taken(stream, parser.handled, i) /\ Given(stream, parser.handled)
  BY <1>1 DEF ReadUpTo
<1>4. h[1] \in 1 .. i
  BY <1>2, <1>3 DEF Taken
<1> DEFINE n == stream.items[h[1]].number
<1>5. h[2] = x <=> NamedBy(stream, n, x, h[1] - 1)
  BY <1>2, <1>3 DEF Given
<1>6. Before(stream, {"exthandshake"}, h[1] - 1) = {j \in OfKind({"exthandshake"}) : j < h[1]}
  <2>1. i \in Int
    OBVIOUS
  <2>2. \A j : j \in 1 .. h[1] - 1 <=> j \in Complete /\ j < h[1]
    BY <1>1, <1>4, <2>1
  <2> QED
    BY <2>2 DEF Before, OfKind
<1>7. NamedBy(stream, n, x, h[1] - 1) <=> Names(n, x, h[1])
  BY <1>6 DEF NamedBy, Names
<1> QED
  BY <1>5, <1>7

\* Exactly the complete messages are handled, once each and in order.
THEOREM BtpParserFramed == Spec => []Framed
BY BtpParserInvariant, FramedHolds, PTL

\* The monitor's record is that of the complete messages.
THEOREM BtpParserReport == Spec => []ReportMatches
BY BtpParserInvariant, ReportHolds, PTL

\* Extended messages go to the extension their number stood for.
THEOREM BtpParserRightExtension == Spec => []RightExtension
BY BtpParserInvariant, RightExtensionHolds, PTL

=============================================================================

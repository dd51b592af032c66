------------------------- MODULE UtpReassemblyProofs -------------------------
(***************************************************************************)
(* Reassembly hands over the sender's packets in order, for every width of *)
(* the sequence numbers, every length of the stream, every first number    *)
(* and every window the ring can tell apart; and it implements the ordered *)
(* stream its callbacks promise.                                           *)
(***************************************************************************)
EXTENDS UtpReassembly, SequenceTheorems, SetInduction

-----------------------------------------------------------------------------
(* Serial numbers. *)

LEMMA ModuloType == Modulo \in Nat /\ Modulo > 0 /\ Modulo = 2 * Half
BY HalfAssumption DEF Modulo

LEMMA Division ==
  \A a \in Int : /\ a % Modulo \in Serial
                 /\ a \div Modulo \in Int
                 /\ a = Modulo * (a \div Modulo) + (a % Modulo)
<1> DEFINE M == Modulo
<1>1. M \in Nat /\ M > 0
  BY ModuloType
<1> HIDE DEF M
<1>2. \A a \in Int : /\ a % M \in 0 .. M - 1
                     /\ a \div M \in Int
                     /\ a = M * (a \div M) + (a % M)
  BY <1>1, Divides
<1> QED
  BY <1>2 DEF M, Serial

LEMMA DivisionUnique ==
  ASSUME NEW q \in Int, NEW p \in Int, NEW r \in Serial, NEW s \in Serial,
         Modulo * q + r = Modulo * p + s
  PROVE  q = p /\ r = s
BY ModuloType, DividesOnce DEF Serial

\* Adding on the ring is adding on the line and then wrapping.
LEMMA SerialAddWraps ==
  ASSUME NEW a \in Int, NEW n \in Int
  PROVE  SerialAdd(a % Modulo, n) = (a + n) % Modulo
BY ModuloType, RemainderOfSum DEF SerialAdd

\* Two positions less than a full turn apart have different numbers.
LEMMA RingInjective ==
  ASSUME NEW a \in Int, NEW b \in Int,
         a - b < Modulo, b - a < Modulo, a % Modulo = b % Modulo
  PROVE  a = b
BY ModuloType, RemainderInjective

\* The ring orders the positions around b as the line does: fewer than Half
\* behind it is less, up to Half ahead of it (or at it) is not.
LEMMA RingOrder ==
  ASSUME NEW a \in Int, NEW b \in Int, b - a < Half, a - b \leq Half
  PROVE  SerialLess(a % Modulo, b % Modulo) <=> a < b
BY ModuloType, HalfAssumption, RemainderOrder, SMTT(30) DEF SerialLess

-----------------------------------------------------------------------------
(* Positions of the stream and their numbers on the ring. *)

LEMMA WireSeqType ==
  ASSUME isn \in [Dirs -> Serial], NEW d \in Dirs, NEW k \in Int
  PROVE  WireSeq(d, k) \in Serial
<1>1. isn[d] + (k - 1) \in Int
  BY ModuloType DEF Serial
<1> QED
  BY <1>1, Division DEF WireSeq, SerialAdd

LEMMA WireSeqAdd ==
  ASSUME isn \in [Dirs -> Serial], NEW d \in Dirs, NEW k \in Int, NEW i \in Int
  PROVE  SerialAdd(WireSeq(d, k), i) = WireSeq(d, k + i)
<1> DEFINE a == isn[d] + (k - 1)
<1>1. a \in Int /\ a + i = isn[d] + (k + i - 1)
  BY ModuloType DEF Serial
<1>2. SerialAdd(a % Modulo, i) = (a + i) % Modulo
  BY <1>1, SerialAddWraps
<1> QED
  BY <1>1, <1>2 DEF WireSeq, SerialAdd

LEMMA WireSeqInjective ==
  ASSUME isn \in [Dirs -> Serial], NEW d \in Dirs, NEW j \in Int, NEW k \in Int,
         j - k < Modulo, k - j < Modulo, WireSeq(d, j) = WireSeq(d, k)
  PROVE  j = k
<1> DEFINE a == isn[d] + (j - 1)
           b == isn[d] + (k - 1)
<1>1. a \in Int /\ b \in Int /\ a - b < Modulo /\ b - a < Modulo
  BY ModuloType DEF Serial
<1>2. a = b
  BY <1>1, RingInjective DEF WireSeq, SerialAdd
<1> QED
  BY <1>2, ModuloType DEF Serial

LEMMA WireSeqOrder ==
  ASSUME isn \in [Dirs -> Serial], NEW d \in Dirs, NEW j \in Int, NEW k \in Int,
         k - j < Half, j - k \leq Half
  PROVE  SerialGreater(WireSeq(d, j), WireSeq(d, k)) <=> j \geq k
<1> DEFINE a == isn[d] + (j - 1)
           b == isn[d] + (k - 1)
<1>1. a \in Int /\ b \in Int /\ b - a < Half /\ a - b \leq Half
  BY ModuloType, HalfAssumption DEF Serial
<1>2. SerialLess(a % Modulo, b % Modulo) <=> a < b
  BY <1>1, RingOrder
<1>3. (a < b) <=> ~(j \geq k)
  BY ModuloType DEF Serial
<1> QED
  BY <1>2, <1>3 DEF SerialGreater, WireSeq, SerialAdd

\* A counter followed by the numbers after it is one run of numbers.
LEMMA CountFrom ==
  ASSUME NEW n \in Nat, NEW r \in Nat
  PROVE  <<n + 1>> \o [i \in 1 .. r |-> n + 1 + i] = [i \in 1 .. r + 1 |-> n + i]
<1> DEFINE s == <<n + 1>>
           t == [i \in 1 .. r |-> n + 1 + i]
           u == [i \in 1 .. r + 1 |-> n + i]
<1>1. s \in Seq(Nat) /\ t \in Seq(Nat) /\ u \in Seq(Nat)
  OBVIOUS
<1>2. Len(s) = 1 /\ Len(t) = r /\ Len(u) = r + 1
  OBVIOUS
<1>3. s \o t \in Seq(Nat) /\ Len(s \o t) = r + 1
  BY <1>1, <1>2, ConcatProperties
<1>4. \A i \in 1 .. r + 1 : (s \o t)[i] = u[i]
  <2> SUFFICES ASSUME NEW i \in 1 .. r + 1 PROVE (s \o t)[i] = n + i
    OBVIOUS
  <2>1. (s \o t)[i] = IF i \leq Len(s) THEN s[i] ELSE t[i - Len(s)]
    BY <1>1, <1>2, ConcatProperties
  <2>2. CASE i = 1
    BY <1>2, <2>1, <2>2
  <2>3. CASE i # 1
    <3>1. i - 1 \in 1 .. r
      BY <2>3
    <3>2. (s \o t)[i] = t[i - 1]
      BY <1>2, <2>1, <2>3
    <3> QED
      BY <3>1, <3>2
  <2> QED
    BY <2>2, <2>3
<1> HIDE DEF s, t, u
<1>5. s \o t = u
  BY <1>1, <1>2, <1>3, <1>4, SeqEqual
<1> QED
  BY <1>5 DEF s, t, u

\* Appending the numbers that follow keeps a sequence that counts from one.
LEMMA AppendCount ==
  ASSUME NEW N \in Nat, NEW s \in Seq(1 .. N), NEW r \in Nat, Len(s) + r \leq N,
         \A i \in 1 .. Len(s) : s[i] = i
  PROVE  LET u == s \o [i \in 1 .. r |-> Len(s) + i]
         IN  /\ u \in Seq(1 .. N)
             /\ Len(u) = Len(s) + r
             /\ \A i \in 1 .. Len(u) : u[i] = i
<1> DEFINE n == Len(s)
           t == [i \in 1 .. r |-> n + i]
           u == s \o t
<1>1. n \in Nat /\ \A i \in 1 .. r : n + i \in 1 .. N
  OBVIOUS
<1>2. t \in Seq(1 .. N) /\ Len(t) = r
  <2> HIDE DEF n
  <2> QED
    BY <1>1
<1>3. \A i \in 1 .. r : t[i] = n + i
  OBVIOUS
<1> HIDE DEF t
<1>4. u \in Seq(1 .. N) /\ Len(u) = n + r
  BY <1>2, ConcatProperties
<1>5. ASSUME NEW i \in 1 .. n + r PROVE u[i] = i
  <2>1. u[i] = IF i \leq n THEN s[i] ELSE t[i - n]
    BY <1>2, <1>5, ConcatProperties
  <2>2. CASE i \leq n
    BY <1>1, <2>1, <2>2
  <2>3. CASE ~(i \leq n)
    <3>1. i - n \in 1 .. r /\ n + (i - n) = i
      BY <1>1, <2>3
    <3> QED
      BY <1>3, <2>1, <2>3, <3>1
  <2> QED
    BY <2>2, <2>3
<1> QED
  BY <1>4, <1>5 DEF t
-----------------------------------------------------------------------------
(* The two halves of add_segment. *)

\* The position the drain starts from in direction c, when packet k of
\* direction d arrives.
From(d, k, c) ==
  IF c = d /\ k = NextPacket(d) THEN NextPacket(c) + 1 ELSE NextPacket(c)

\* The first half: the packet is recognised as the next one, as one to park
\* or as a repeated one, by its number alone.
LEMMA Classified ==
  ASSUME IInv, NEW d \in Dirs, NEW k \in 1 .. NumPackets,
         NextPacket(d) - Behind \leq k, k \leq NextPacket(d) + Ahead
  PROVE  LET e      == Packet(d, k)
             parked == Parked(fseq, pending, e)
             bumped == Bumped(fseq, e)
         IN  /\ Expected(fseq, e) <=> k = NextPacket(d)
             /\ e \in Entries
             /\ bumped \in [Dirs -> Serial]
             /\ \A c \in Dirs : /\ From(d, k, c) \in Nat \ {0}
                                /\ bumped[c] = WireSeq(c, From(d, k, c))
             /\ parked \subseteq Entries
             /\ \A p \in parked :
                  /\ p.seq = WireSeq(p.dir, p.data)
                  /\ From(d, k, p.dir) \leq p.data
                  /\ p.data \leq From(d, k, p.dir) + Ahead
                  /\ p.data = From(d, k, p.dir)
                       => p.dir = d /\ k = NextPacket(d)
<1> DEFINE e      == Packet(d, k)
           parked == Parked(fseq, pending, e)
           bumped == Bumped(fseq, e)
<1>0. /\ isn \in [Dirs -> Serial] /\ fseq \in [Dirs -> Serial]
      /\ pending \subseteq Entries
      /\ \A c \in Dirs : NextPacket(c) \in Nat \ {0}
      /\ \A c \in Dirs : fseq[c] = WireSeq(c, NextPacket(c))
  BY DEF IInv, TypeOK, Synchronised, NextPacket
<1>w. /\ Ahead \in Nat /\ Ahead \leq Half /\ Behind \in Nat /\ Behind < Half
      /\ Half \in Nat /\ Half > 1 /\ Modulo = 2 * Half /\ NumPackets \in Nat
  BY WindowAssumption, ModuloType, HalfAssumption
<1>e. e.dir = d /\ e.data = k /\ e.seq = WireSeq(d, k) /\ k \in Int
  BY <1>w DEF Packet
<1>1. Expected(fseq, e) <=> k = NextPacket(d)
  <2>1. fseq[d] = WireSeq(d, NextPacket(d)) /\ NextPacket(d) \in Int
    BY <1>0
  <2>2. ASSUME WireSeq(d, k) = WireSeq(d, NextPacket(d)) PROVE k = NextPacket(d)
    <3>1. k - NextPacket(d) < Modulo /\ NextPacket(d) - k < Modulo
      BY <1>w, <1>e, <2>1
    <3> QED
      BY <1>0, <1>e, <2>1, <2>2, <3>1, WireSeqInjective
  <2> QED
    BY <1>e, <2>1, <2>2 DEF Expected
<1>2. SerialGreater(e.seq, fseq[e.dir]) <=> k \geq NextPacket(d)
  <2>1. NextPacket(d) - k < Half /\ k - NextPacket(d) \leq Half
    BY <1>w, <1>0, <1>e
  <2> QED
    BY <1>0, <1>e, <2>1, WireSeqOrder
<1>3. e \in Entries
  BY <1>0, <1>e, WireSeqType DEF Entries, Packet
<1>4. \A c \in Dirs : From(d, k, c) \in Nat \ {0}
  BY <1>0 DEF From
<1>5. /\ bumped \in [Dirs -> Serial]
      /\ \A c \in Dirs : bumped[c] = WireSeq(c, From(d, k, c))
  <2>1. CASE k = NextPacket(d)
    <3>1. bumped = [fseq EXCEPT ![d] = SerialAdd(fseq[d], 1)]
      BY <1>1, <1>e, <2>1 DEF Bumped
    <3>2. SerialAdd(fseq[d], 1) = WireSeq(d, NextPacket(d) + 1)
      BY <1>0, WireSeqAdd
    <3>3. WireSeq(d, NextPacket(d) + 1) \in Serial
      BY <1>0, WireSeqType
    <3> QED
      BY <1>0, <2>1, <3>1, <3>2, <3>3 DEF From
  <2>2. CASE k # NextPacket(d)
    BY <1>0, <1>1, <2>2 DEF Bumped, From
  <2> QED
    BY <2>1, <2>2
<1>6. \A p \in pending : /\ p.seq = WireSeq(p.dir, p.data)
                         /\ p \in Entries /\ p.dir \in Dirs /\ p.data \in Nat
                         /\ NextPacket(p.dir) < p.data
                         /\ p.data \leq NextPacket(p.dir) + Ahead
  BY <1>0, <1>w DEF IInv, PendingAhead, Entries
<1>7. \A p \in pending : /\ From(d, k, p.dir) \leq p.data
                         /\ p.data \leq From(d, k, p.dir) + Ahead
                         /\ p.data = From(d, k, p.dir)
                              => p.dir = d /\ k = NextPacket(d)
  BY <1>0, <1>6, <1>w DEF From
<1>8. CASE k > NextPacket(d)
  <2>1. parked = pending \cup {e}
    BY <1>0, <1>1, <1>2, <1>e, <1>8 DEF Parked
  <2>2. From(d, k, d) = NextPacket(d)
    BY <1>8, <1>0, <1>e DEF From
  <2>3. e.data > From(d, k, e.dir) /\ e.data \leq From(d, k, e.dir) + Ahead
    BY <1>e, <1>8, <2>2
  <2> QED
    BY <1>1, <1>3, <1>4, <1>5, <1>6, <1>7, <1>e, <2>1, <2>2, <2>3
<1>9. CASE ~(k > NextPacket(d))
  <2>1. parked = pending
    BY <1>0, <1>1, <1>2, <1>e, <1>9 DEF Parked
  <2> QED
    BY <1>1, <1>3, <1>4, <1>5, <1>6, <1>7, <2>1
<1> QED
  BY <1>8, <1>9

\* The second half: from a pending list that holds only packets at or beyond
\* From, the loop hands over the consecutive packets from there on, and what
\* it leaves lies strictly beyond the packet expected next.
LEMMA Drained ==
  ASSUME isn \in [Dirs -> Serial], NumPackets \in Nat, Ahead \in 0 .. Half,
         NEW at \in [Dirs -> Nat \ {0}], NEW f \in [Dirs -> Serial],
         NEW parked \in SUBSET Entries, NEW run \in Runs,
         \A c \in Dirs : f[c] = WireSeq(c, at[c]),
         \A p \in parked : /\ p.seq = WireSeq(p.dir, p.data)
                           /\ at[p.dir] \leq p.data
                           /\ p.data \leq at[p.dir] + Ahead,
         IsRun(f, parked, run)
  PROVE  /\ \A c \in Dirs : /\ RunPayload(f, parked, run, c)
                                 = [i \in 1 .. run[c] |-> at[c] - 1 + i]
                            /\ \A i \in 1 .. run[c] : /\ at[c] - 1 + i \leq NumPackets
                                                      /\ \E p \in parked :
                                                           p.dir = c /\ p.data = at[c] - 1 + i
                            /\ Advanced(f, run)[c] = WireSeq(c, at[c] + run[c])
         /\ Advanced(f, run) \in [Dirs -> Serial]
         /\ \A p \in Remaining(f, parked, run) :
              p \in parked /\ at[p.dir] + run[p.dir] < p.data
<1>w. /\ Ahead \in Nat /\ Ahead \leq Half /\ Half \in Nat /\ Half > 1
      /\ Modulo = 2 * Half /\ Modulo \in Nat
  BY ModuloType, HalfAssumption
<1>r. \A c \in Dirs : run[c] \in 0 .. Modulo - 1 /\ run[c] \in Nat /\ at[c] \in Nat
  BY <1>w DEF Runs
<1>p. \A p \in parked : p.dir \in Dirs /\ p.data \in Nat /\ p.data \leq NumPackets
                        /\ p.seq \in Serial
  BY DEF Entries
<1>a. \A c \in Dirs : \A i \in Int : SerialAdd(f[c], i) = WireSeq(c, at[c] + i)
  BY <1>r, WireSeqAdd
\* Within the window a number on the ring stands for one packet only.
<1>1. ASSUME NEW p \in parked, NEW i \in 0 .. Modulo - 1,
             p.seq = SerialAdd(f[p.dir], i)
      PROVE  p.data = at[p.dir] + i
  <2>1. WireSeq(p.dir, p.data) = WireSeq(p.dir, at[p.dir] + i)
    BY <1>1, <1>a, <1>p, <1>w
  <2>2. /\ p.dir \in Dirs /\ p.data \in Int /\ at[p.dir] + i \in Int
        /\ p.data - (at[p.dir] + i) < Modulo /\ (at[p.dir] + i) - p.data < Modulo
    BY <1>w, <1>r, <1>p
  <2> QED
    BY <2>1, <2>2, WireSeqInjective
<1>2. ASSUME NEW c \in Dirs, NEW i \in 1 .. run[c]
      PROVE  /\ PayloadAt(parked, c, SerialAdd(f[c], i - 1)) = at[c] - 1 + i
             /\ at[c] - 1 + i \leq NumPackets
             /\ \E p \in parked : p.dir = c /\ p.data = at[c] - 1 + i
  <2> DEFINE s == SerialAdd(f[c], i - 1)
             q == CHOOSE p \in parked : p.dir = c /\ p.seq = s
  <2>1. i - 1 \in 0 .. run[c] - 1 /\ i - 1 \in 0 .. Modulo - 1
    BY <1>r, <1>w, <1>2
  <2>2. \E p \in parked : p.dir = c /\ p.seq = s
    BY <2>1 DEF IsRun, PendingSeqs
  <2>3. q \in parked /\ q.dir = c /\ q.seq = s
    BY <2>2
  <2>4. q.data = at[c] + (i - 1)
    BY <1>1, <2>1, <2>3
  <2>5. at[c] + (i - 1) = at[c] - 1 + i
    BY <1>r, <2>1
  <2> QED
    BY <1>p, <2>3, <2>4, <2>5 DEF PayloadAt
<1>3. \A c \in Dirs : RunPayload(f, parked, run, c)
                        = [i \in 1 .. run[c] |-> at[c] - 1 + i]
  BY <1>2 DEF RunPayload
<1>4. \A c \in Dirs : Advanced(f, run)[c] = WireSeq(c, at[c] + run[c])
  BY <1>a, <1>r DEF Advanced
<1>5. Advanced(f, run) \in [Dirs -> Serial]
  <2>1. \A c \in Dirs : WireSeq(c, at[c] + run[c]) \in Serial
    BY <1>r, WireSeqType
  <2> QED
    BY <1>4, <2>1 DEF Advanced
<1>6. ASSUME NEW p \in Remaining(f, parked, run)
      PROVE  p \in parked /\ at[p.dir] + run[p.dir] < p.data
  <2>1. p \in parked /\ p.dir \in Dirs
    BY <1>p DEF Remaining
  <2> DEFINE i == p.data - at[p.dir]
  <2>2. i \in Nat /\ p.data = at[p.dir] + i
    BY <1>p, <1>r, <2>1
  <2>3. p.seq = SerialAdd(f[p.dir], i)
    BY <1>a, <2>1, <2>2
  <2>4. ~(i < run[p.dir])
    <3>1. i < run[p.dir] => i \in 0 .. run[p.dir] - 1
      BY <1>r, <2>1, <2>2
    <3> QED
      BY <2>3, <3>1 DEF Remaining
  <2>5. i # run[p.dir]
    BY <2>1, <2>3 DEF IsRun, PendingSeqs
  <2> QED
    BY <1>r, <2>1, <2>2, <2>4, <2>5
<1> QED
  BY <1>2, <1>3, <1>4, <1>5, <1>6

\* One packet: what every variable of the flow is after it, in terms of how
\* many packets m[c] the step hands over in each direction.
LEMMA ArrivalEffect ==
  ASSUME IInv, NEW d \in Dirs, NEW k \in 1 .. NumPackets, Arrive(d, k)
  PROVE  \E m \in [Dirs -> Nat] :
           /\ \A c \in Dirs :
                /\ c # d => m[c] = 0
                /\ Len(delivered[c]) + m[c] \leq NumPackets
                /\ delivered'[c] = delivered[c]
                     \o [i \in 1 .. m[c] |-> Len(delivered[c]) + i]
                /\ fseq'[c] = WireSeq(c, NextPacket(c) + m[c])
           /\ delivered' = [c \in Dirs |-> delivered'[c]]
           /\ fseq' \in [Dirs -> Serial]
           /\ pending' \subseteq Entries
           /\ \A p \in pending' :
                /\ p.seq = WireSeq(p.dir, p.data)
                /\ NextPacket(p.dir) + m[p.dir] < p.data
                /\ p.data \leq NextPacket(p.dir) + m[p.dir] + Ahead
<1> DEFINE e      == Packet(d, k)
           parked == Parked(fseq, pending, e)
           bumped == Bumped(fseq, e)
           at     == [c \in Dirs |-> From(d, k, c)]
<1>w. Ahead \in 0 .. Half /\ Ahead \in Nat /\ NumPackets \in Nat
  BY WindowAssumption, HalfAssumption
<1>0. /\ isn \in [Dirs -> Serial]
      /\ delivered \in [Dirs -> Seq(1 .. NumPackets)]
      /\ \A c \in Dirs : Len(delivered[c]) \in Nat
      /\ \A c \in Dirs : NextPacket(c) = Len(delivered[c]) + 1
  BY DEF IInv, TypeOK, NextPacket
<1>1. PICK run \in Runs :
        /\ IsRun(bumped, parked, run)
        /\ delivered' = [c \in Dirs |->
                           delivered[c] \o Handed(fseq, pending, e, run, c)]
        /\ fseq' = Advanced(bumped, run)
        /\ pending' = Remaining(bumped, parked, run)
  BY DEF Arrive, AddSegment
<1>2. /\ Expected(fseq, e) <=> k = NextPacket(d)
      /\ bumped \in [Dirs -> Serial]
      /\ \A c \in Dirs : /\ From(d, k, c) \in Nat \ {0}
                         /\ bumped[c] = WireSeq(c, From(d, k, c))
      /\ parked \subseteq Entries
      /\ \A p \in parked :
           /\ p.seq = WireSeq(p.dir, p.data)
           /\ From(d, k, p.dir) \leq p.data
           /\ p.data \leq From(d, k, p.dir) + Ahead
           /\ p.data = From(d, k, p.dir) => p.dir = d /\ k = NextPacket(d)
  BY Classified DEF Arrive
<1>3. \A p \in parked : p.dir \in Dirs /\ p.data \in Nat
  BY <1>2, <1>w DEF Entries
<1>4. at \in [Dirs -> Nat \ {0}] /\ \A c \in Dirs : at[c] = From(d, k, c)
  BY <1>2
<1>5. /\ \A c \in Dirs : bumped[c] = WireSeq(c, at[c])
      /\ \A p \in parked : /\ p.seq = WireSeq(p.dir, p.data)
                           /\ at[p.dir] \leq p.data
                           /\ p.data \leq at[p.dir] + Ahead
  BY <1>2, <1>3, <1>4
<1>6. /\ \A c \in Dirs : /\ RunPayload(bumped, parked, run, c)
                              = [i \in 1 .. run[c] |-> at[c] - 1 + i]
                         /\ \A i \in 1 .. run[c] : /\ at[c] - 1 + i \leq NumPackets
                                                   /\ \E p \in parked :
                                                        p.dir = c /\ p.data = at[c] - 1 + i
                         /\ Advanced(bumped, run)[c] = WireSeq(c, at[c] + run[c])
      /\ Advanced(bumped, run) \in [Dirs -> Serial]
      /\ \A p \in Remaining(bumped, parked, run) :
           p \in parked /\ at[p.dir] + run[p.dir] < p.data
  <2> HIDE DEF at, parked, bumped, e
  <2> QED
    BY <1>0, <1>w, <1>1, <1>2, <1>4, <1>5, Drained
<1>7. \A c \in Dirs : run[c] \in Nat
  BY ModuloType DEF Runs
<1> DEFINE m == [c \in Dirs |-> at[c] + run[c] - NextPacket(c)]
<1>8. \A c \in Dirs : /\ m[c] \in Nat
                      /\ NextPacket(c) + m[c] = at[c] + run[c]
                      /\ c # d => m[c] = 0
                      /\ Len(delivered[c]) + m[c] \leq NumPackets
  <2> SUFFICES ASSUME NEW c \in Dirs
               PROVE  /\ m[c] \in Nat
                      /\ NextPacket(c) + m[c] = at[c] + run[c]
                      /\ c # d => m[c] = 0
                      /\ Len(delivered[c]) + m[c] \leq NumPackets
    OBVIOUS
  <2>1. at[c] \in Nat /\ at[c] \geq NextPacket(c) /\ NextPacket(c) \in Nat
    BY <1>0, <1>2, <1>4 DEF From
  <2>2. c # d => run[c] = 0
    <3> SUFFICES ASSUME c # d, run[c] # 0 PROVE FALSE
      OBVIOUS
    <3>1. 1 \in 1 .. run[c]
      BY <1>7
    <3>2. PICK p \in parked : p.dir = c /\ p.data = at[c] - 1 + 1
      BY <1>6, <3>1
    <3>3. p.data = From(d, k, p.dir)
      BY <1>4, <2>1, <3>2
    <3> QED
      BY <1>2, <3>2, <3>3
  <2>3. c # d => at[c] = NextPacket(c)
    BY <1>4 DEF From
  <2>4. at[c] - 1 + run[c] \leq NumPackets
    <3>1. CASE run[c] = 0
      <4>1. CASE c = d /\ k = NextPacket(d)
        BY <1>0, <1>4, <1>w, <2>1, <3>1, <4>1 DEF From
      <4>2. CASE ~(c = d /\ k = NextPacket(d))
        <5>1. at[c] = NextPacket(c)
          BY <1>4, <4>2 DEF From
        <5>2. Len(delivered[c]) \leq NumPackets
          <6>1. CASE Len(delivered[c]) = 0
            BY <1>w, <6>1
          <6>2. CASE Len(delivered[c]) # 0
            <7>1. Len(delivered[c]) \in 1 .. Len(delivered[c])
              BY <1>0, <6>2
            <7>2. delivered[c][Len(delivered[c])] \in 1 .. NumPackets
              BY <1>0, <7>1, ElementOfSeq
            <7>3. delivered[c][Len(delivered[c])] = Len(delivered[c])
              BY <7>1 DEF IInv, InOrder
            <7> QED
              BY <1>w, <7>2, <7>3
          <6> QED
            BY <6>1, <6>2
        <5> QED
          BY <1>0, <1>w, <3>1, <5>1, <5>2
      <4> QED
        BY <4>1, <4>2
    <3>2. CASE run[c] # 0
      <4>1. run[c] \in 1 .. run[c]
        BY <1>7, <3>2
      <4> QED
        BY <1>6, <4>1
    <3> QED
      BY <3>1, <3>2
  <2>5. m[c] = at[c] + run[c] - NextPacket(c) /\ run[c] \in Nat
    BY <1>7
  <2>6. NextPacket(c) = Len(delivered[c]) + 1 /\ Len(delivered[c]) \in Nat
    BY <1>0
  <2> HIDE DEF m, at
  <2>7. m[c] \in Nat /\ NextPacket(c) + m[c] = at[c] + run[c]
    BY <2>1, <2>5
  <2>8. c # d => m[c] = 0
    BY <2>1, <2>2, <2>3, <2>5
  <2>9. Len(delivered[c]) + m[c] \leq NumPackets
    BY <1>w, <2>1, <2>4, <2>5, <2>6
  <2> QED
    BY <2>7, <2>8, <2>9
<1>9. \A c \in Dirs : Handed(fseq, pending, e, run, c)
                        = [i \in 1 .. m[c] |-> Len(delivered[c]) + i]
  <2> SUFFICES ASSUME NEW c \in Dirs
               PROVE  Handed(fseq, pending, e, run, c)
                        = [i \in 1 .. m[c] |-> Len(delivered[c]) + i]
    OBVIOUS
  <2> DEFINE rest == [i \in 1 .. run[c] |-> at[c] - 1 + i]
             n    == Len(delivered[c])
  <2>1. n \in Nat /\ run[c] \in Nat /\ NextPacket(c) = n + 1 /\ at[c] \in Nat
    BY <1>0, <1>4, <1>7
  <2>2. rest \in Seq(Int) /\ Len(rest) = run[c]
    BY <2>1
  <2>3. e.data = k /\ e.dir = d
    BY DEF Packet
  <2>4. CASE c = d /\ k = NextPacket(d)
    <3>1. at[c] = n + 2
      BY <1>4, <2>1, <2>4 DEF From
    <3>2. Handed(fseq, pending, e, run, c) = <<k>> \o rest
      BY <1>2, <1>6, <2>3, <2>4 DEF Handed
    <3>3. m[c] = run[c] + 1
      BY <2>1, <3>1
    <3>4. <<k>> \o rest = [i \in 1 .. run[c] + 1 |-> n + i]
      <4>1. k = n + 1 /\ rest = [i \in 1 .. run[c] |-> n + 1 + i]
        BY <2>1, <2>4, <3>1
      <4> HIDE DEF n, at, rest
      <4> QED
        BY <2>1, <4>1, CountFrom
    <3> QED
      BY <3>2, <3>3, <3>4
  <2>5. CASE ~(c = d /\ k = NextPacket(d))
    <3>1. at[c] = n + 1
      BY <1>4, <2>1, <2>5 DEF From
    <3>2. Handed(fseq, pending, e, run, c) = << >> \o rest
      BY <1>2, <1>6, <2>3, <2>5 DEF Handed
    <3>3. m[c] = run[c]
      BY <2>1, <3>1
    <3>4. << >> \o rest = [i \in 1 .. run[c] |-> n + i]
      <4> HIDE DEF n, at
      <4> QED
        BY <2>1, <2>2, <3>1
    <3> QED
      BY <3>2, <3>3, <3>4
  <2> QED
    BY <2>4, <2>5
<1>10. /\ m \in [Dirs -> Nat]
       /\ \A c \in Dirs :
            /\ delivered'[c] = delivered[c]
                 \o [i \in 1 .. m[c] |-> Len(delivered[c]) + i]
            /\ fseq'[c] = WireSeq(c, NextPacket(c) + m[c])
       /\ delivered' = [c \in Dirs |-> delivered'[c]]
       /\ fseq' \in [Dirs -> Serial]
  <2> HIDE DEF at, parked, bumped, e
  <2>1. m \in [Dirs -> Nat]
    BY <1>8
  <2> HIDE DEF m
  <2> QED
    BY <1>1, <1>6, <1>8, <1>9, <2>1
<1>11. \A p \in pending' : /\ p \in Entries /\ p.seq = WireSeq(p.dir, p.data)
                           /\ NextPacket(p.dir) + m[p.dir] < p.data
                           /\ p.data \leq NextPacket(p.dir) + m[p.dir] + Ahead
  <2> SUFFICES ASSUME NEW p \in pending'
               PROVE  /\ p \in Entries /\ p.seq = WireSeq(p.dir, p.data)
                      /\ NextPacket(p.dir) + m[p.dir] < p.data
                      /\ p.data \leq NextPacket(p.dir) + m[p.dir] + Ahead
    OBVIOUS
  <2>1. p \in parked /\ at[p.dir] + run[p.dir] < p.data
    BY <1>1, <1>6
  <2>2. /\ p.dir \in Dirs /\ p.data \in Nat /\ p.data \leq at[p.dir] + Ahead
        /\ at[p.dir] \in Nat /\ run[p.dir] \in Nat
    BY <1>3, <1>4, <1>5, <1>7, <2>1
  <2>3. NextPacket(p.dir) + m[p.dir] = at[p.dir] + run[p.dir]
    BY <1>8, <2>2
  <2> HIDE DEF at, m
  <2> QED
    BY <1>2, <1>5, <1>w, <2>1, <2>2, <2>3
<1> HIDE DEF m
<1> QED
  BY <1>8, <1>10, <1>11
-----------------------------------------------------------------------------
(* Safety. *)

LEMMA InitIInv == Init => IInv
<1> SUFFICES ASSUME Init PROVE IInv
  OBVIOUS
<1>1. InitialSeqs \subseteq Serial
  BY WindowAssumption
<1>2. \A d \in Dirs : delivered[d] = << >> /\ Len(delivered[d]) = 0
  BY DEF Init
<1>3. TypeOK
  BY <1>1 DEF Init, TypeOK
<1>4. InOrder
  BY <1>2 DEF InOrder
<1>5. Synchronised
  <2> SUFFICES ASSUME NEW d \in Dirs PROVE fseq[d] = WireSeq(d, NextPacket(d))
    BY DEF Synchronised
  <2>1. isn[d] \in 0 .. Modulo - 1 /\ fseq[d] = isn[d] /\ NextPacket(d) = 1
    <3>1. isn[d] \in InitialSeqs /\ fseq[d] = isn[d]
      BY DEF Init
    <3>2. NextPacket(d) = 1
      BY <1>2 DEF NextPacket
    <3> QED
      BY <1>1, <3>1, <3>2 DEF Serial
  <2>2. isn[d] % Modulo = isn[d]
    <3>1. /\ isn[d] % Modulo \in Serial
          /\ isn[d] \in Int
      BY <2>1, Division, ModuloType
    <3>2. isn[d] = Modulo * (isn[d] \div Modulo) + (isn[d] % Modulo)
          /\ isn[d] \div Modulo \in Int
      BY <2>1, Division
    <3>3. Modulo * (isn[d] \div Modulo) + (isn[d] % Modulo) = Modulo * 0 + isn[d]
      BY <2>1, <3>2, ModuloType
    <3>4. isn[d] \in Serial
      BY <2>1 DEF Serial
    <3> QED
      BY <3>1, <3>2, <3>3, <3>4, DivisionUnique
  <2>3. isn[d] + (1 - 1) = isn[d]
    BY <2>1, ModuloType
  <2> QED
    BY <2>1, <2>2, <2>3 DEF WireSeq, SerialAdd
<1>6. PendingAhead
  BY DEF Init, PendingAhead
<1> QED
  BY <1>3, <1>4, <1>5, <1>6 DEF IInv

LEMMA NextIInv == IInv /\ [Next]_vars => IInv'
<1> SUFFICES ASSUME IInv, [Next]_vars PROVE IInv'
  OBVIOUS
<1>1. CASE UNCHANGED vars
  BY <1>1 DEF vars, IInv, TypeOK, InOrder, Synchronised, PendingAhead,
              NextPacket, WireSeq
<1>2. CASE Next
  <2>1. PICK d \in Dirs, k \in 1 .. NumPackets : Arrive(d, k)
    BY <1>2 DEF Next
  <2>2. isn' = isn
    BY <2>1 DEF Arrive
  <2>3. PICK m \in [Dirs -> Nat] :
          /\ \A c \in Dirs :
               /\ Len(delivered[c]) + m[c] \leq NumPackets
               /\ delivered'[c] = delivered[c]
                    \o [i \in 1 .. m[c] |-> Len(delivered[c]) + i]
               /\ fseq'[c] = WireSeq(c, NextPacket(c) + m[c])
          /\ delivered' = [c \in Dirs |-> delivered'[c]]
          /\ fseq' \in [Dirs -> Serial]
          /\ pending' \subseteq Entries
          /\ \A p \in pending' :
               /\ p.seq = WireSeq(p.dir, p.data)
               /\ NextPacket(p.dir) + m[p.dir] < p.data
               /\ p.data \leq NextPacket(p.dir) + m[p.dir] + Ahead
    BY <2>1, ArrivalEffect
  <2>4. ASSUME NEW c \in Dirs
        PROVE  /\ delivered'[c] \in Seq(1 .. NumPackets)
               /\ Len(delivered'[c]) = Len(delivered[c]) + m[c]
               /\ \A i \in 1 .. Len(delivered'[c]) : delivered'[c][i] = i
    <3>1. /\ delivered[c] \in Seq(1 .. NumPackets) /\ m[c] \in Nat
          /\ NumPackets \in Nat /\ Len(delivered[c]) + m[c] \leq NumPackets
      BY <2>3, WindowAssumption DEF IInv, TypeOK
    <3>2. \A i \in 1 .. Len(delivered[c]) : delivered[c][i] = i
      BY DEF IInv, InOrder
    <3>3. delivered'[c] = delivered[c]
            \o [i \in 1 .. m[c] |-> Len(delivered[c]) + i]
      BY <2>3
    <3> DEFINE s == delivered[c]
               r == m[c]
    <3>4. LET u == s \o [i \in 1 .. r |-> Len(s) + i]
          IN  /\ u \in Seq(1 .. NumPackets)
              /\ Len(u) = Len(s) + r
              /\ \A i \in 1 .. Len(u) : u[i] = i
      <4> HIDE DEF s, r
      <4>1. /\ s \in Seq(1 .. NumPackets) /\ r \in Nat
            /\ NumPackets \in Nat /\ Len(s) + r \leq NumPackets
        BY <3>1 DEF s, r
      <4>2. \A i \in 1 .. Len(s) : s[i] = i
        BY <3>2 DEF s
      <4> QED
        BY <4>1, <4>2, AppendCount
    <3> QED
      BY <3>3, <3>4
  <2>5. \A c \in Dirs : NextPacket(c)' = NextPacket(c) + m[c]
    <3>1. \A c \in Dirs : Len(delivered[c]) \in Nat /\ m[c] \in Nat
      BY DEF IInv, TypeOK
    <3> SUFFICES ASSUME NEW c \in Dirs
                 PROVE  Len(delivered'[c]) + 1 = Len(delivered[c]) + 1 + m[c]
      BY DEF NextPacket
    <3>2. Len(delivered'[c]) = Len(delivered[c]) + m[c]
      BY <2>4
    <3>3. Len(delivered[c]) \in Nat /\ m[c] \in Nat
      BY <3>1
    <3> QED
      BY <3>2, <3>3
  <2>6. \A c \in Dirs, k1 \in Int : WireSeq(c, k1)' = WireSeq(c, k1)
    BY <2>2 DEF WireSeq
  <2>7. \A c \in Dirs : NextPacket(c) \in Nat /\ m[c] \in Nat
    BY DEF IInv, TypeOK, NextPacket
  <2>8. TypeOK'
    BY <2>2, <2>3, <2>4 DEF IInv, TypeOK
  <2>9. InOrder'
    BY <2>4 DEF InOrder
  <2>10. Synchronised'
    <3> SUFFICES ASSUME NEW c \in Dirs PROVE fseq'[c] = WireSeq(c, NextPacket(c))'
      BY DEF Synchronised
    <3>1. WireSeq(c, NextPacket(c))' = SerialAdd(isn[c], NextPacket(c)' - 1)
      BY <2>2 DEF WireSeq
    <3> QED
      BY <2>3, <2>5, <3>1 DEF WireSeq
  <2>11. PendingAhead'
    <3> SUFFICES ASSUME NEW p \in pending'
                 PROVE  /\ p.seq = WireSeq(p.dir, p.data)'
                        /\ NextPacket(p.dir)' < p.data
                        /\ p.data \leq NextPacket(p.dir)' + Ahead
      BY DEF PendingAhead
    <3>1. p.dir \in Dirs /\ p.data \in 1 .. NumPackets
      BY <2>3 DEF Entries
    <3>2. WireSeq(p.dir, p.data)' = WireSeq(p.dir, p.data)
      BY <2>2 DEF WireSeq
    <3> QED
      BY <2>3, <2>5, <3>1, <3>2
  <2> QED
    BY <2>8, <2>9, <2>10, <2>11 DEF IInv
<1> QED
  BY <1>1, <1>2

\* The inductive invariant holds throughout: whatever the network does within
\* the window, the state of the tracer mirrors the sender's stream.
THEOREM ReassemblyInvariant == Spec => []IInv
BY InitIInv, NextIInv, PTL DEF Spec

\* Every variable keeps its type.
THEOREM ReassemblyTypeOK == Spec => []TypeOK
<1>1. IInv => TypeOK
  BY DEF IInv
<1> QED
  BY <1>1, ReassemblyInvariant, PTL

\* The parsers are handed the sender's packets without a gap, a repetition or
\* a swap.
THEOREM ReassemblyInOrder == Spec => []InOrder
<1>1. IInv => InOrder
  BY DEF IInv
<1> QED
  BY <1>1, ReassemblyInvariant, PTL

\* The number the tracer expects is that of the next packet, however often the
\* ring has gone round.
THEOREM ReassemblySynchronised == Spec => []Synchronised
<1>1. IInv => Synchronised
  BY DEF IInv
<1> QED
  BY <1>1, ReassemblyInvariant, PTL

\* What waits in the pending list lies strictly beyond the expected packet and
\* within the window, so that no number stands for two packets.
THEOREM ReassemblyPendingAhead == Spec => []PendingAhead
<1>1. IInv => PendingAhead
  BY DEF IInv
<1> QED
  BY <1>1, ReassemblyInvariant, PTL
-----------------------------------------------------------------------------
(* Refinement. *)

\* add_segment implements the ordered stream: each arrival hands over a batch
\* of consecutive packets in the direction it came from, or nothing.
THEOREM ReassemblyRefinesStream == Spec => StreamSpec
<1>1. Init => Stream!Init
  BY DEF Init, Stream!Init
<1>2. IInv /\ [Next]_vars => [Stream!Next]_delivered
  <2> SUFFICES ASSUME IInv, [Next]_vars PROVE [Stream!Next]_delivered
    OBVIOUS
  <2>1. CASE UNCHANGED vars
    BY <2>1 DEF vars
  <2>2. CASE Next
    <3>1. PICK d \in Dirs, k \in 1 .. NumPackets : Arrive(d, k)
      BY <2>2 DEF Next
    <3>2. PICK m \in [Dirs -> Nat] :
            /\ \A c \in Dirs :
                 /\ c # d => m[c] = 0
                 /\ Len(delivered[c]) + m[c] \leq NumPackets
                 /\ delivered'[c] = delivered[c]
                      \o [i \in 1 .. m[c] |-> Len(delivered[c]) + i]
            /\ delivered' = [c \in Dirs |-> delivered'[c]]
      BY <3>1, ArrivalEffect
    <3>3. delivered \in [Dirs -> Seq(1 .. NumPackets)]
      BY DEF IInv, TypeOK
    <3>4. \A c \in Dirs : m[c] = 0 => delivered'[c] = delivered[c]
      <4> SUFFICES ASSUME NEW c \in Dirs, m[c] = 0
                   PROVE  delivered'[c] = delivered[c]
        OBVIOUS
      <4>1. [i \in 1 .. m[c] |-> Len(delivered[c]) + i] = << >>
        OBVIOUS
      <4> QED
        BY <3>2, <3>3, <4>1, ConcatEmptySeq
    <3>5. CASE m[d] = 0
      <4>1. \A c \in Dirs : delivered'[c] = delivered[c]
        BY <3>2, <3>4, <3>5
      <4>2. delivered' = delivered
        BY <3>2, <3>3, <4>1
      <4> QED
        BY <4>2
    <3>6. CASE m[d] # 0
      <4>1. m[d] \in 1 .. NumPackets
        BY <3>2, <3>3, <3>6, WindowAssumption
      <4>2. delivered' = [delivered EXCEPT ![d] =
                            delivered[d] \o Stream!Batch(Len(delivered[d]), m[d])]
        <5>1. delivered'[d] = delivered[d] \o Stream!Batch(Len(delivered[d]), m[d])
          BY <3>2 DEF Stream!Batch
        <5>2. \A c \in Dirs : c # d => delivered'[c] = delivered[c]
          BY <3>2, <3>4
        <5> QED
          BY <3>2, <3>3, <5>1, <5>2
      <4>3. Stream!Deliver(d, m[d])
        BY <3>2, <4>2 DEF Stream!Deliver
      <4> QED
        BY <4>1, <4>3 DEF Stream!Next
    <3> QED
      BY <3>5, <3>6
  <2> QED
    BY <2>1, <2>2
<1> QED
  BY <1>1, <1>2, ReassemblyInvariant, PTL DEF Spec, StreamSpec, Stream!Spec
=============================================================================

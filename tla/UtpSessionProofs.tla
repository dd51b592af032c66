-------------------------- MODULE UtpSessionProofs --------------------------
(***************************************************************************)
(* The uTP tracer.  Whatever a capture holds, the pending list of every    *)
(* flow of the table lies ahead of the numbers that are expected.  On the  *)
(* traffic of peers that follow the protocol, for every set of sessions,   *)
(* every width of the numbers and every length of the streams: under which *)
(* conditions a packet is taken for one of its own session, the parsers    *)
(* read the peers' packets without a gap, and what a flow waits for is     *)
(* something that a peer has sent.                                         *)
(***************************************************************************)
EXTENDS UtpSession, SequenceTheorems, SetInduction

-----------------------------------------------------------------------------
(* Serial numbers. *)

LEMMA ModuloType == Modulo \in Nat /\ Modulo > 0 /\ Modulo = 2 * Half
BY HalfAssumption DEF Modulo

LEMMA Division ==
  \A a \in Int : /\ a % Modulo \in Serial
                 /\ a \div Modulo \in Int
                 /\ a = Modulo * (a \div Modulo) + (a % Modulo)
<1> DEFINE M == Modulo
<1>1. M \in Nat /\ M > 0
  BY ModuloType
<1> HIDE DEF M
<1>2. \A a \in Int : /\ a % M \in 0 .. M - 1
                     /\ a \div M \in Int
                     /\ a = M * (a \div M) + (a % M)
  BY <1>1, Divides
<1> QED
  BY <1>2 DEF M, Serial

LEMMA DivisionUnique ==
  ASSUME NEW q \in Int, NEW p \in Int, NEW r \in Serial, NEW s \in Serial,
         Modulo * q + r = Modulo * p + s
  PROVE  q = p /\ r = s
BY ModuloType, DividesOnce DEF Serial

\* Adding on the ring is adding on the line and then wrapping.
LEMMA SerialAddWraps ==
  ASSUME NEW a \in Int, NEW n \in Int
  PROVE  SerialAdd(a % Modulo, n) = (a + n) % Modulo
BY ModuloType, RemainderOfSum DEF SerialAdd

\* Two positions less than a full turn apart have different numbers.
LEMMA RingInjective ==
  ASSUME NEW a \in Int, NEW b \in Int,
         a - b < Modulo, b - a < Modulo, a % Modulo = b % Modulo
  PROVE  a = b
BY ModuloType, RemainderInjective

-----------------------------------------------------------------------------
(* The tracer, in every capture. *)

\* Until the accepter has answered nothing waits, so that its first number may
\* be set to anything.
NothingBeforeAnswer ==
  \A key \in Keys :
    flows[key].state \in {"INIT", "HANDSHAKE"} => flows[key].pending = {}

TracerInv == TypeOK /\ PendingBeyond /\ NothingBeforeAnswer

Beyond(fseq, pending) ==
  \A e \in pending : \E n \in 1 .. Half : e.seq = SerialAdd(fseq[e.dir], n)
-----------------------------------------------------------------------------
(* The ring. *)

LEMMA SerialAddType ==
  ASSUME NEW a \in Serial, NEW n \in Int
  PROVE  SerialAdd(a, n) \in Serial
<1>1. a + n \in Int
  BY ModuloType DEF Serial
<1> QED
  BY <1>1, Division DEF SerialAdd

\* A number reduces to itself, and one lap later too.
LEMMA SmallSums ==
  ASSUME NEW s \in Serial
  PROVE  s % Modulo = s /\ (s + Modulo) % Modulo = s
<1>1. s \in Int /\ s + Modulo \in Int /\ Modulo \in Int
  BY ModuloType DEF Serial
<1>2. /\ s % Modulo \in Serial /\ s \div Modulo \in Int
      /\ Modulo * (s \div Modulo) + (s % Modulo) = Modulo * 0 + s
  BY <1>1, Division
<1>3. /\ (s + Modulo) % Modulo \in Serial /\ (s + Modulo) \div Modulo \in Int
      /\ Modulo * ((s + Modulo) \div Modulo) + ((s + Modulo) % Modulo) = Modulo * 1 + s
  <2> DEFINE M == Modulo
             a == s + Modulo
  <2>1. a \in Int /\ a = M * 1 + s
    <3>1. s \in Int /\ M \in Int /\ a = s + M
      BY <1>1
    <3> HIDE DEF M, a
    <3> QED
      BY <3>1
  <2>2. a % Modulo \in Serial /\ a \div Modulo \in Int /\ a = Modulo * (a \div Modulo) + (a % Modulo)
    <3> HIDE DEF a
    <3> QED
      BY <2>1, Division
  <2> QED
    BY <2>1, <2>2
<1>4. s % Modulo = s
  BY <1>2, DivisionUnique
<1>5. (s + Modulo) % Modulo = s
  BY <1>3, DivisionUnique
<1> QED
  BY <1>4, <1>5

\* What is greater than a number, and not the number, is up to Half ahead.
LEMMA GreaterIsAhead ==
  ASSUME NEW f \in Serial, NEW s \in Serial, s # f, SerialGreater(s, f)
  PROVE  \E n \in 1 .. Half : s = SerialAdd(f, n)
<1>1. f \in Int /\ s \in Int /\ Half \in Nat /\ Modulo = 2 * Half /\ Modulo \in Nat
      /\ f \in 0 .. Modulo - 1 /\ s \in 0 .. Modulo - 1
  BY ModuloType, HalfAssumption DEF Serial
<1>2. CASE s > f
  <2>1. s - f \in 1 .. Half /\ f + (s - f) = s
    BY <1>1, <1>2 DEF SerialGreater, SerialLess
  <2>2. SerialAdd(f, s - f) = s
    BY <2>1, SmallSums DEF SerialAdd
  <2> QED
    BY <2>1, <2>2
<1>3. CASE s < f
  <2>1. s - f + Modulo \in 1 .. Half /\ f + (s - f + Modulo) = s + Modulo
    BY <1>1, <1>3 DEF SerialGreater, SerialLess
  <2>2. SerialAdd(f, s - f + Modulo) = s
    BY <2>1, SmallSums DEF SerialAdd
  <2> QED
    BY <2>1, <2>2
<1> QED
  BY <1>1, <1>2, <1>3

\* Two increments are one.
LEMMA SerialAddTwice ==
  ASSUME NEW f \in Serial, NEW m \in Int, NEW n \in Int
  PROVE  SerialAdd(SerialAdd(f, m), n) = SerialAdd(f, m + n)
<1>1. f \in Int /\ f + m \in Int /\ (f + m) + n = f + (m + n)
  BY ModuloType DEF Serial
<1>2. SerialAdd((f + m) % Modulo, n) = ((f + m) + n) % Modulo
  BY <1>1, SerialAddWraps
<1> QED
  BY <1>1, <1>2 DEF SerialAdd
-----------------------------------------------------------------------------
(* add_segment. *)

\* The first half leaves what waits at or ahead of the next number.
LEMMA BumpedAhead ==
  ASSUME NEW fseq \in [Dirs -> Serial], NEW pending \in SUBSET Entries, NEW e \in Entries,
         Beyond(fseq, pending)
  PROVE  /\ Bumped(fseq, e) \in [Dirs -> Serial]
         /\ Parked(fseq, pending, e) \in SUBSET Entries
         /\ \A p \in Parked(fseq, pending, e) :
              \E n \in 0 .. Half : p.seq = SerialAdd(Bumped(fseq, e)[p.dir], n)
<1>1. e.dir \in Dirs /\ e.seq \in Serial /\ fseq[e.dir] \in Serial /\ Half \in Nat /\ Half > 1
  BY HalfAssumption DEF Entries
<1>2. CASE Expected(fseq, e)
  <2>1. /\ Parked(fseq, pending, e) = pending
        /\ Bumped(fseq, e) = [fseq EXCEPT ![e.dir] = SerialAdd(fseq[e.dir], 1)]
    BY <1>2 DEF Parked, Bumped
  <2>2. SerialAdd(fseq[e.dir], 1) \in Serial
    BY <1>1, SerialAddType
  <2>3. ASSUME NEW p \in pending
        PROVE  \E n \in 0 .. Half : p.seq = SerialAdd(Bumped(fseq, e)[p.dir], n)
    <3>1. p.dir \in Dirs /\ fseq[p.dir] \in Serial
      BY <2>3 DEF Entries
    <3>2. PICK n \in 1 .. Half : p.seq = SerialAdd(fseq[p.dir], n)
      BY <2>3 DEF Beyond
    <3>3. n - 1 \in 0 .. Half /\ n \in 0 .. Half /\ n - 1 \in Int /\ 1 + (n - 1) = n
      BY <1>1, <3>2
    <3>4. CASE p.dir = e.dir
      <4>1. SerialAdd(SerialAdd(fseq[p.dir], 1), n - 1) = SerialAdd(fseq[p.dir], n)
        BY <3>1, <3>3, SerialAddTwice
      <4>2. Bumped(fseq, e)[p.dir] = SerialAdd(fseq[p.dir], 1)
        BY <2>1, <3>1, <3>4
      <4> QED
        BY <3>2, <3>3, <4>1, <4>2
    <3>5. CASE p.dir # e.dir
      <4>1. Bumped(fseq, e)[p.dir] = fseq[p.dir]
        BY <2>1, <3>1, <3>5
      <4> QED
        BY <3>2, <3>3, <4>1
    <3> QED
      BY <3>4, <3>5
  <2> QED
    BY <1>1, <2>1, <2>2, <2>3
<1>3. CASE ~Expected(fseq, e)
  <2>1. Bumped(fseq, e) = fseq
    BY <1>3 DEF Bumped
  <2>2. Parked(fseq, pending, e) \in SUBSET Entries
    BY DEF Parked
  <2>3. ASSUME NEW p \in Parked(fseq, pending, e)
        PROVE  \E n \in 1 .. Half : p.seq = SerialAdd(fseq[p.dir], n)
    <3>1. CASE p \in pending
      BY <3>1 DEF Beyond
    <3>2. CASE p \notin pending
      <4>1. p = e /\ SerialGreater(e.seq, fseq[e.dir]) /\ e.seq # fseq[e.dir]
        BY <1>3, <2>3, <3>2 DEF Parked, Expected
      <4> QED
        BY <1>1, <4>1, GreaterIsAhead
    <3> QED
      BY <3>1, <3>2
  <2>4. \A n \in 1 .. Half : n \in 0 .. Half
    BY <1>1
  <2> QED
    BY <2>1, <2>2, <2>3, <2>4
<1> QED
  BY <1>2, <1>3

\* The loop takes the run from there on, so that the rest is ahead of it.
LEMMA DrainedBeyond ==
  ASSUME NEW fseq \in [Dirs -> Serial], NEW pending \in SUBSET Entries, NEW run \in Runs,
         IsRun(fseq, pending, run),
         \A p \in pending : \E n \in 0 .. Half : p.seq = SerialAdd(fseq[p.dir], n)
  PROVE  /\ Advanced(fseq, run) \in [Dirs -> Serial]
         /\ Remaining(fseq, pending, run) \in SUBSET Entries
         /\ Beyond(Advanced(fseq, run), Remaining(fseq, pending, run))
<1>1. \A d \in Dirs : run[d] \in Nat /\ run[d] \in Int /\ fseq[d] \in Serial
  BY ModuloType DEF Runs
<1>2. Advanced(fseq, run) \in [Dirs -> Serial]
  BY <1>1, SerialAddType DEF Advanced
<1>3. Remaining(fseq, pending, run) \in SUBSET Entries
  BY DEF Remaining
<1>4. ASSUME NEW p \in Remaining(fseq, pending, run)
      PROVE  \E n \in 1 .. Half : p.seq = SerialAdd(Advanced(fseq, run)[p.dir], n)
  <2>1. p \in pending /\ p.dir \in Dirs
    BY <1>4 DEF Remaining, Entries
  <2>2. PICK n \in 0 .. Half : p.seq = SerialAdd(fseq[p.dir], n)
    BY <2>1
  <2> DEFINE r == run[p.dir]
  <2>3. r \in Nat /\ n \in Nat /\ Half \in Nat /\ n \leq Half
    BY <1>1, <2>1, <2>2, HalfAssumption
  <2>4. n \notin 0 .. r - 1
    BY <1>4, <2>2 DEF Remaining
  <2>5. n # r
    BY <2>1, <2>2 DEF IsRun, PendingSeqs
  <2> HIDE DEF r
  <2>6. n - r \in 1 .. Half /\ r + (n - r) = n /\ n - r \in Int /\ r \in Int
    BY <2>3, <2>4, <2>5
  <2>7. SerialAdd(SerialAdd(fseq[p.dir], r), n - r) = SerialAdd(fseq[p.dir], n)
    <3>1. fseq[p.dir] \in Serial
      BY <1>1, <2>1
    <3>2. SerialAdd(SerialAdd(fseq[p.dir], r), n - r) = SerialAdd(fseq[p.dir], r + (n - r))
      BY <2>6, <3>1, SerialAddTwice
    <3> QED
      BY <2>6, <3>2
  <2>8. Advanced(fseq, run)[p.dir] = SerialAdd(fseq[p.dir], r)
    BY <2>1 DEF Advanced, r
  <2> QED
    BY <2>2, <2>6, <2>7, <2>8
<1> QED
  BY <1>2, <1>3, <1>4 DEF Beyond

\* What is handed over are payloads.
LEMMA HandedType ==
  ASSUME NEW fseq \in [Dirs -> Serial], NEW pending \in SUBSET Entries, NEW e \in Entries,
         NEW run \in Runs, NEW d \in Dirs,
         IsRun(Bumped(fseq, e), Parked(fseq, pending, e), run)
  PROVE  Handed(fseq, pending, e, run, d) \in Seq(Payloads)
<1> DEFINE bumped == Bumped(fseq, e)
           parked == Parked(fseq, pending, e)
<1>1. parked \in SUBSET Entries /\ e.data \in Payloads
  BY DEF Parked, Entries
<1>2. run[d] \in Nat
  BY ModuloType DEF Runs
<1>3. \A i \in 0 .. run[d] - 1 : SerialAdd(bumped[d], i) \in PendingSeqs(parked, d)
  BY DEF IsRun
<1> HIDE DEF bumped, parked
<1>4. ASSUME NEW i \in 1 .. run[d]
      PROVE  PayloadAt(parked, d, SerialAdd(bumped[d], i - 1)) \in Payloads
  <2>1. i - 1 \in 0 .. run[d] - 1
    BY <1>2
  <2>2. \E p \in parked : p.dir = d /\ p.seq = SerialAdd(bumped[d], i - 1)
    BY <1>3, <2>1 DEF PendingSeqs
  <2>3. \A p \in parked : p.data \in Payloads
    BY <1>1 DEF Entries
  <2> QED
    BY <2>2, <2>3 DEF PayloadAt
<1>5. RunPayload(bumped, parked, run, d) \in Seq(Payloads)
  BY <1>2, <1>4 DEF RunPayload
<1>6. <<e.data>> \in Seq(Payloads) /\ << >> \in Seq(Payloads)
  BY <1>1
<1> QED
  BY <1>5, <1>6 DEF Handed, bumped, parked

-----------------------------------------------------------------------------
(* The table. *)

LEMMA KeyParts ==
  ASSUME NEW key \in Keys
  PROVE  Tup(key) \in Tups /\ key = <<key[1], key[2], key[3]>>
BY DEF Keys, Tups, Tup

LEMMA FoundIsKey ==
  ASSUME NEW p, Known(p)
  PROVE  Found(p) \in Keys /\ Dir(p) \in Dirs
BY DEF Known, Found, Present, Dir, Dirs

LEMMA InitInv ==
  Init => TracerInv
<1> SUFFICES ASSUME Init PROVE TracerInv
  OBVIOUS
<1>1. 0 \in Serial /\ "INIT" \in States
  BY ModuloType DEF Serial, States
<1>2. NoFlow \in Flows
  BY <1>1 DEF NoFlow, Flows
<1>3. TypeOK
  <2>1. flows \in [Keys -> Flows]
    BY <1>2 DEF Init
  <2>2. open \subseteq Tups /\ crashed \in BOOLEAN
    BY DEF Init
  <2>3. [d \in Dirs |-> << >>] \in [Dirs -> Seq(Payloads)]
    OBVIOUS
  <2>4. streams \in [Tups -> [Dirs -> Seq(Payloads)]]
    BY <2>3 DEF Init
  <2> QED
    BY <2>1, <2>2, <2>4 DEF TypeOK
<1>4. \A key \in Keys : flows[key].pending = {}
  BY DEF Init, NoFlow
<1> QED
  BY <1>3, <1>4 DEF TracerInv, PendingBeyond, NothingBeforeAnswer

\* A step that replaces one flow by another keeps the invariant if the new one
\* is right.
LEMMA FlowReplaced ==
  ASSUME TracerInv, NEW key \in Keys, NEW flow \in Flows,
         flows' = [flows EXCEPT ![key] = flow],
         Beyond(flow.fseq, flow.pending),
         flow.state \in {"INIT", "HANDSHAKE"} => flow.pending = {},
         open' \in SUBSET Tups, crashed' \in BOOLEAN,
         streams' \in [Tups -> [Dirs -> Seq(Payloads)]]
  PROVE  TracerInv'
<1>1. flows' \in [Keys -> Flows] /\ \A k \in Keys : flows'[k] = IF k = key THEN flow ELSE flows[k]
  BY DEF TracerInv, TypeOK
<1>2. TypeOK'
  BY <1>1 DEF TypeOK
<1>3. PendingBeyond'
  BY <1>1 DEF TracerInv, PendingBeyond, Beyond
<1>4. NothingBeforeAnswer'
  BY <1>1 DEF TracerInv, NothingBeforeAnswer
<1> QED
  BY <1>2, <1>3, <1>4 DEF TracerInv

LEMMA TableKept ==
  ASSUME TracerInv, flows' = flows,
         open' \in SUBSET Tups, crashed' \in BOOLEAN, streams' = streams
  PROVE  TracerInv'
BY DEF TracerInv, TypeOK, PendingBeyond, NothingBeforeAnswer

LEMMA OpenKeeps ==
  ASSUME TracerInv, NEW p \in Packets, p.type = "SYN", NEW still \in SUBSET Tups,
         OpenFlow(p, still)
  PROVE  TracerInv'
<1> DEFINE tup == <<p.src, p.dst>>
           key == <<p.src, p.dst, p.connid>>
<1>1. /\ p.src \in Ends /\ p.dst \in Ends /\ p.src # p.dst
      /\ p.connid \in ConnIds /\ p.seq \in Serial
  BY PacketAssumption DEF PacketAssumption
<1>2. tup \in Tups
  BY <1>1 DEF Tups
<1>3. key \in Keys
  BY <1>1, <1>2 DEF Keys
<1>4. SerialAdd(p.seq, 1) \in Serial /\ 0 \in Serial /\ "HANDSHAKE" \in States
  <2>1. SerialAdd(p.seq, 1) \in Serial
    BY <1>1, SerialAddType
  <2>2. 0 \in Serial
    BY ModuloType DEF Serial
  <2> QED
    BY <2>1, <2>2 DEF States
<1>5. NewFlow(p) \in Flows /\ NewFlow(p).pending = {}
  BY <1>4 DEF NewFlow, Flows
<1>6. Beyond(NewFlow(p).fseq, NewFlow(p).pending)
  BY <1>5 DEF Beyond
<1>7. /\ flows' = [flows EXCEPT ![key] = NewFlow(p)]
      /\ open' = still \cup {tup}
      /\ streams' = [streams EXCEPT ![tup] = [d \in Dirs |-> << >>]]
      /\ crashed' = crashed
  BY DEF OpenFlow
<1>8. open' \in SUBSET Tups /\ crashed' \in BOOLEAN
  BY <1>2, <1>7 DEF TracerInv, TypeOK
<1>9. streams' \in [Tups -> [Dirs -> Seq(Payloads)]]
  <2>1. [d \in Dirs |-> << >>] \in [Dirs -> Seq(Payloads)]
    OBVIOUS
  <2> QED
    BY <1>2, <1>7, <2>1 DEF TracerInv, TypeOK
<1> HIDE DEF key, tup
<1> QED
  BY <1>3, <1>5, <1>6, <1>7, <1>8, <1>9, FlowReplaced

LEMMA CloseKeeps ==
  ASSUME TracerInv, NEW key, CloseFlow(key), UNCHANGED <<flows, streams>>
  PROVE  TracerInv'
<1>1. open' \in SUBSET Tups /\ crashed' \in BOOLEAN
  BY DEF CloseFlow, TracerInv, TypeOK
<1> QED
  BY <1>1, TableKept

LEMMA ReopenKeeps ==
  ASSUME TracerInv, NEW p \in Packets, p.type = "SYN", Reopen(p)
  PROVE  TracerInv'
<1>1. CASE Tup(Found(p)) \in open
  <2>1. open \ {Tup(Found(p))} \in SUBSET Tups
    BY DEF TracerInv, TypeOK
  <2> QED
    BY <1>1, <2>1, OpenKeeps DEF Reopen
<1>2. CASE Tup(Found(p)) \notin open
  BY <1>2, CloseKeeps DEF Reopen
<1> QED
  BY <1>1, <1>2

\* add_segment and what its caller does to the parsers.
LEMMA SegmentKeeps ==
  ASSUME TracerInv, NEW p \in Packets, Known(p),
         NEW state \in States \ {"INIT", "HANDSHAKE"}, AddSegment(p, state),
         open' \in SUBSET Tups, crashed' \in BOOLEAN
  PROVE  TracerInv'
<1> DEFINE key == Found(p)
           flow == flows[key]
           e == [dir |-> Dir(p), seq |-> p.seq, data |-> p.data]
           parked == Parked(flow.fseq, flow.pending, e)
           bumped == Bumped(flow.fseq, e)
<1>1. key \in Keys /\ Dir(p) \in Dirs
  BY FoundIsKey
<1>2. /\ flow \in Flows /\ flow.fseq \in [Dirs -> Serial] /\ flow.pending \in SUBSET Entries
      /\ Beyond(flow.fseq, flow.pending)
  BY <1>1 DEF TracerInv, TypeOK, Flows, PendingBeyond, Beyond
<1>3. e \in Entries
  BY <1>1, PacketAssumption DEF PacketAssumption, Entries, Payloads
<1>4. PICK run \in Runs :
        /\ IsRun(bumped, parked, run)
        /\ flows' = [flows EXCEPT ![key] =
                       [state |-> state, fseq |-> Advanced(bumped, run),
                        pending |-> Remaining(bumped, parked, run)]]
        /\ streams' = IF Tup(key) \notin open THEN streams
             ELSE [streams EXCEPT ![Tup(key)] =
                     [d \in Dirs |-> streams[Tup(key)][d]
                        \o Handed(flow.fseq, flow.pending, e, run, d)]]
  BY DEF AddSegment
<1> DEFINE new == [state |-> state, fseq |-> Advanced(bumped, run),
                   pending |-> Remaining(bumped, parked, run)]
<1>5. \A d \in Dirs : Handed(flow.fseq, flow.pending, e, run, d) \in Seq(Payloads)
  <2> HIDE DEF flow, e
  <2> QED
    BY <1>2, <1>3, <1>4, HandedType
<1>6. /\ bumped \in [Dirs -> Serial] /\ parked \in SUBSET Entries
      /\ \A q \in parked : \E n \in 0 .. Half : q.seq = SerialAdd(bumped[q.dir], n)
  <2> HIDE DEF flow, e
  <2> QED
    BY <1>2, <1>3, BumpedAhead
<1>7. /\ Advanced(bumped, run) \in [Dirs -> Serial]
      /\ Remaining(bumped, parked, run) \in SUBSET Entries
      /\ Beyond(Advanced(bumped, run), Remaining(bumped, parked, run))
  <2> HIDE DEF bumped, parked
  <2> QED
    BY <1>4, <1>6, DrainedBeyond
<1>8. streams' \in [Tups -> [Dirs -> Seq(Payloads)]]
  <2>1. Tup(key) \in Tups
    BY <1>1, KeyParts
  <2>2. ASSUME NEW d \in Dirs
        PROVE  streams[Tup(key)][d] \o Handed(flow.fseq, flow.pending, e, run, d) \in Seq(Payloads)
    <3>1. streams[Tup(key)][d] \in Seq(Payloads)
      BY <2>1 DEF TracerInv, TypeOK
    <3>2. Handed(flow.fseq, flow.pending, e, run, d) \in Seq(Payloads)
      BY <1>5
    <3> HIDE DEF flow, e, key
    <3> QED
      BY <3>1, <3>2
  <2> DEFINE after == [d \in Dirs |-> streams[Tup(key)][d]
                         \o Handed(flow.fseq, flow.pending, e, run, d)]
  <2>3. after \in [Dirs -> Seq(Payloads)]
    BY <2>2
  <2>4. streams' = IF Tup(key) \notin open THEN streams ELSE [streams EXCEPT ![Tup(key)] = after]
    BY <1>4
  <2> HIDE DEF after, key
  <2> QED
    BY <2>1, <2>3, <2>4 DEF TracerInv, TypeOK
<1> HIDE DEF key, flow, e, parked, bumped
<1>9. /\ new \in Flows /\ Beyond(new.fseq, new.pending)
      /\ new.state \notin {"INIT", "HANDSHAKE"}
  BY <1>7 DEF Flows
<1>10. flows' = [flows EXCEPT ![key] = new]
  BY <1>4
<1> HIDE DEF new
<1> QED
  BY <1>1, <1>8, <1>9, <1>10, FlowReplaced

LEMMA BecomeKeeps ==
  ASSUME TracerInv, NEW p, Known(p), NEW state \in States \ {"INIT", "HANDSHAKE"},
         Become(p, state)
  PROVE  TracerInv'
<1> DEFINE key == Found(p)
           new == [flows[key] EXCEPT !.state = state]
<1>1. key \in Keys
  BY FoundIsKey
<1>2. flows[key] \in Flows /\ Beyond(flows[key].fseq, flows[key].pending)
  BY <1>1 DEF TracerInv, TypeOK, PendingBeyond, Beyond
<1>3. /\ new \in Flows /\ new.fseq = flows[key].fseq
      /\ new.pending = flows[key].pending /\ new.state = state
  BY <1>2 DEF Flows
<1>4. flows' = [flows EXCEPT ![key] = new] /\ UNCHANGED <<open, streams, crashed>>
  BY DEF Become
<1> HIDE DEF new, key
<1> QED
  BY <1>1, <1>2, <1>3, <1>4, FlowReplaced DEF TracerInv, TypeOK

\* The first number of the accepter is set while nothing waits for it.
LEMMA SynAckKeeps ==
  ASSUME TracerInv, NEW p \in Packets, SynAck(p)
  PROVE  TracerInv'
<1> DEFINE key == Found(p)
           flow == flows[key]
           new == [flow EXCEPT !.state = "SYN_ACKED", !.fseq = [flow.fseq EXCEPT ![1] = p.seq]]
<1>1. key \in Keys /\ flow.state = "HANDSHAKE" /\ p.seq \in Serial
  BY FoundIsKey, PacketAssumption DEF SynAck, In, PacketAssumption
<1>2. flow \in Flows /\ flow.pending = {}
  BY <1>1 DEF TracerInv, TypeOK, NothingBeforeAnswer
<1>3. new \in Flows /\ new.pending = {}
  BY <1>1, <1>2 DEF Flows, Dirs, States
<1>4. flows' = [flows EXCEPT ![key] = new]
  BY <1>1, <1>2 DEF SynAck, TracerInv, TypeOK, Flows
<1>5. UNCHANGED <<open, streams, crashed>>
  BY DEF SynAck
<1>6. Beyond(new.fseq, new.pending)
  BY <1>3 DEF Beyond
<1> HIDE DEF new, key
<1> QED
  BY <1>1, <1>3, <1>4, <1>5, <1>6, FlowReplaced DEF TracerInv, TypeOK

LEMMA TraceKeeps ==
  ASSUME TracerInv, NEW p \in Packets, Trace(p)
  PROVE  TracerInv'
<1>1. open \in SUBSET Tups /\ crashed \in BOOLEAN
  BY DEF TracerInv, TypeOK
<1>2. ASSUME NEW states, In(p, states) PROVE Known(p)
  BY <1>2 DEF In
<1>3. ASSUME NEW state \in States \ {"INIT", "HANDSHAKE"}, Known(p), Become(p, state)
      PROVE  TracerInv'
  BY <1>3, BecomeKeeps
<1>4. ASSUME NEW state \in States \ {"INIT", "HANDSHAKE"}, Known(p), AddSegment(p, state),
             open' \in SUBSET Tups, crashed' \in BOOLEAN
      PROVE  TracerInv'
  BY <1>4, SegmentKeeps
<1>5. \A key : CloseFlow(key) => open' \in SUBSET Tups /\ crashed' \in BOOLEAN
  BY <1>1 DEF CloseFlow
<1>6. {"SYN_ACKED", "CONNECTED", "PENDING_CLOSE"} \cup Closing \subseteq States \ {"INIT", "HANDSHAKE"}
  BY DEF States, Closing
<1>7. CASE Syn(p)
  BY <1>1, <1>7, OpenKeeps DEF Syn
<1>8. CASE SynAck(p)
  BY <1>8, SynAckKeeps
<1>9. CASE SimultaneousSyn(p)
  BY <1>9, ReopenKeeps DEF SimultaneousSyn
<1>10. CASE Data(p)
  BY <1>1, <1>2, <1>4, <1>6, <1>10 DEF Data
<1>11. CASE Reset(p)
  BY <1>11, CloseKeeps DEF Reset
<1>12. CASE FirstFin(p)
  BY <1>2, <1>3, <1>6, <1>12 DEF FirstFin, Closing
<1>13. CASE FirstFinAcked(p)
  BY <1>2, <1>3, <1>6, <1>13 DEF FirstFinAcked, Closing
<1>14. CASE SecondFin(p)
  BY <1>2, <1>3, <1>6, <1>14 DEF SecondFin, Closing
<1>15. CASE FinAfterAck(p)
  BY <1>2, <1>3, <1>6, <1>15 DEF FinAfterAck, Closing
<1>16. CASE BothFinsFirstAck(p)
  BY <1>2, <1>3, <1>6, <1>16 DEF BothFinsFirstAck, Closing
<1>17. CASE LastAck(p)
  <2>1. Known(p)
    BY <1>2, <1>17 DEF LastAck
  <2> QED
    BY <1>3, <1>6, <1>17, <2>1, CloseKeeps DEF LastAck
<1>18. CASE DataBeforeClose(p)
  <2>1. Known(p) /\ AddSegment(p, "PENDING_CLOSE")
    BY <1>2, <1>18 DEF DataBeforeClose
  <2>2. open' \in SUBSET Tups /\ crashed' \in BOOLEAN
    BY <1>1, <1>5, <1>18 DEF DataBeforeClose
  <2> QED
    BY <1>4, <1>6, <2>1, <2>2
<1>19. CASE DataWhileClosing(p)
  <2>1. Known(p) /\ flows[Found(p)].state \in Closing
    BY <1>19 DEF DataWhileClosing, In
  <2>2. open' \in SUBSET Tups /\ crashed' \in BOOLEAN
    BY <1>1, <1>19 DEF DataWhileClosing
  <2> QED
    BY <1>4, <1>6, <1>19, <2>1, <2>2 DEF DataWhileClosing
<1>20. CASE SynWhileClosing(p)
  BY <1>20, ReopenKeeps DEF SynWhileClosing
<1> QED
  BY <1>7, <1>8, <1>9, <1>10, <1>11, <1>12, <1>13, <1>14, <1>15, <1>16, <1>17,
     <1>18, <1>19, <1>20 DEF Trace
-----------------------------------------------------------------------------
\* The invariant of the table of flows, for every capture (UtpTracer.trace and
\* the handlers of state_machine).
THEOREM TracerInvariant ==
  Spec => []TracerInv
<1>1. Init => TracerInv
  BY InitInv
<1>2. TracerInv /\ [Next]_vars => TracerInv'
  <2>1. ASSUME TracerInv, UNCHANGED vars PROVE TracerInv'
    BY <2>1 DEF vars, TracerInv, TypeOK, PendingBeyond, NothingBeforeAnswer
  <2> QED
    BY <2>1, TraceKeeps DEF Next
<1> QED
  BY <1>1, <1>2, PTL DEF Spec

\* The table of flows, the parser pairs and their streams keep their types.
THEOREM TracerTypeOK ==
  Spec => []TypeOK
<1>1. TracerInv => TypeOK
  BY DEF TracerInv
<1> QED
  BY <1>1, TracerInvariant, PTL

\* Whatever packets arrive, nothing that add_segment could hand over waits in
\* flow.pending, and nothing in it was overtaken.
THEOREM TracerPendingBeyond ==
  Spec => []PendingBeyond
<1>1. TracerInv => PendingBeyond
  BY DEF TracerInv
<1> QED
  BY <1>1, TracerInvariant, PTL
-----------------------------------------------------------------------------
(* What a packet does to the state of a flow. *)

\* on_new_flow for the flow: a handshake, and a new parser pair.
Afresh(key) ==
  /\ flows'[key].state = "HANDSHAKE" /\ flows'[key].pending = {}
  /\ Tup(key) \in open' /\ streams'[Tup(key)] = [d \in Dirs |-> << >>]

Forward(key) ==
  Rank(flows'[key].state) < Rank(flows[key].state) => Afresh(key)

Moves == \A key \in Keys : Forward(key)

LEMMA RankValues ==
  /\ Rank("INIT") = 0 /\ Rank("HANDSHAKE") = 1 /\ Rank("SYN_ACKED") = 2
  /\ Rank("CONNECTED") = 3 /\ Rank("PENDING_CLOSE") = 7
  /\ Rank("INITIATOR_SENT_FIN") = 4 /\ Rank("ACCEPTER_SENT_FIN") = 4
  /\ Rank("INITIATOR_FIN_ACKED") = 5 /\ Rank("ACCEPTER_FIN_ACKED") = 5
  /\ Rank("BOTH_SENT_FIN") = 5
  /\ Rank("BOTH_SENT_FIN_INITIATOR_ACKED") = 6
  /\ Rank("BOTH_SENT_FIN_ACCEPTER_ACKED") = 6
BY DEF Rank

LEMMA RankType ==
  ASSUME NEW state \in States
  PROVE  Rank(state) \in Nat
BY RankValues DEF States, Closing

LEMMA TableMoves ==
  ASSUME TracerInv, UNCHANGED flows
  PROVE  Moves
<1> SUFFICES ASSUME NEW key \in Keys PROVE Forward(key)
  BY DEF Moves
<1>1. flows'[key] = flows[key] /\ Rank(flows[key].state) \in Nat
  BY RankType DEF TracerInv, TypeOK, Flows
<1> QED
  BY <1>1 DEF Forward

\* A packet changes one flow.
LEMMA FlowMoves ==
  ASSUME TracerInv, NEW key \in Keys, NEW flow,
         flows' = [flows EXCEPT ![key] = flow],
         Rank(flows[key].state) <= Rank(flow.state), flow.state \in States
  PROVE  Moves
<1> SUFFICES ASSUME NEW k \in Keys PROVE Forward(k)
  BY DEF Moves
<1>1. /\ flows'[k] = IF k = key THEN flow ELSE flows[k]
      /\ flows[k].state \in States
  BY DEF TracerInv, TypeOK, Flows
<1>2. Rank(flows[k].state) \in Nat /\ Rank(flow.state) \in Nat
  BY <1>1, RankType
<1> QED
  BY <1>1, <1>2 DEF Forward

LEMMA OpenMoves ==
  ASSUME TracerInv, NEW p \in Packets, p.type = "SYN", NEW still, OpenFlow(p, still)
  PROVE  Moves
<1> DEFINE tup == <<p.src, p.dst>>
           opened == <<p.src, p.dst, p.connid>>
<1>1. opened \in Keys /\ tup \in Tups /\ Tup(opened) = tup
  BY PacketAssumption DEF PacketAssumption, Keys, Tups, Tup
<1>2. /\ flows' = [flows EXCEPT ![opened] = NewFlow(p)]
      /\ tup \in open'
      /\ streams' = [streams EXCEPT ![tup] = [d \in Dirs |-> << >>]]
  BY DEF OpenFlow
<1>3. NewFlow(p).state = "HANDSHAKE" /\ NewFlow(p).pending = {}
  BY DEF NewFlow
<1>4. streams'[tup] = [d \in Dirs |-> << >>]
  <2> DEFINE none == [d \in Dirs |-> << >>]
  <2>1. streams' = [streams EXCEPT ![tup] = none] /\ DOMAIN streams = Tups
    BY <1>2 DEF TracerInv, TypeOK
  <2> HIDE DEF none, tup
  <2> QED
    BY <1>1, <2>1 DEF none
<1> SUFFICES ASSUME NEW key \in Keys PROVE Forward(key)
  BY DEF Moves
<1>5. flows'[key] = IF key = opened THEN NewFlow(p) ELSE flows[key]
  <2> HIDE DEF opened
  <2> QED
    BY <1>2 DEF TracerInv, TypeOK
<1>6. CASE key = opened
  BY <1>1, <1>2, <1>3, <1>4, <1>5, <1>6 DEF Afresh, Forward
<1>7. CASE key # opened
  <2>1. flows'[key] = flows[key] /\ Rank(flows[key].state) \in Nat
    BY <1>5, <1>7, RankType DEF TracerInv, TypeOK, Flows
  <2> QED
    BY <2>1 DEF Forward
<1> QED
  BY <1>6, <1>7

LEMMA ReopenMoves ==
  ASSUME TracerInv, NEW p \in Packets, p.type = "SYN", Reopen(p)
  PROVE  Moves
BY OpenMoves, TableMoves DEF Reopen

LEMMA SegmentMoves ==
  ASSUME TracerInv, NEW p, Known(p), NEW state \in States, AddSegment(p, state),
         Rank(flows[Found(p)].state) <= Rank(state)
  PROVE  Moves
<1> DEFINE key == Found(p)
<1>1. key \in Keys
  BY FoundIsKey
<1>2. PICK flow : flow.state = state /\ flows' = [flows EXCEPT ![key] = flow]
  BY DEF AddSegment
<1> HIDE DEF key
<1> QED
  BY <1>1, <1>2, FlowMoves DEF key

LEMMA BecomeMoves ==
  ASSUME TracerInv, NEW p, Known(p), NEW state \in States, Become(p, state),
         Rank(flows[Found(p)].state) <= Rank(state)
  PROVE  Moves
<1> DEFINE key == Found(p)
           new == [flows[key] EXCEPT !.state = state]
<1>1. key \in Keys
  BY FoundIsKey
<1>2. new.state = state
  BY <1>1 DEF TracerInv, TypeOK, Flows
<1>3. flows' = [flows EXCEPT ![key] = new]
  BY DEF Become
<1> HIDE DEF new, key
<1> QED
  BY <1>1, <1>2, <1>3, FlowMoves DEF key

LEMMA TraceMoves ==
  ASSUME TracerInv, NEW p \in Packets, Trace(p)
  PROVE  Moves
<1>1. ASSUME NEW states, In(p, states)
      PROVE  Known(p) /\ flows[Found(p)].state \in states
  BY <1>1 DEF In
<1>2. ASSUME NEW state \in States, NEW states, In(p, states), Become(p, state),
             \A s \in states : Rank(s) <= Rank(state)
      PROVE  Moves
  BY <1>1, <1>2, BecomeMoves
<1>3. Closing \subseteq States /\ States = Closing \cup {"INIT", "HANDSHAKE", "SYN_ACKED", "CONNECTED", "PENDING_CLOSE"}
  BY DEF States
<1>4. CASE Syn(p)
  BY <1>4, OpenMoves DEF Syn
<1>5. CASE SynAck(p)
  <2> DEFINE flow == flows[Found(p)]
             new == [flow EXCEPT !.state = "SYN_ACKED", !.fseq = [flow.fseq EXCEPT ![1] = p.seq]]
  <2>1. Found(p) \in Keys /\ flow.state = "HANDSHAKE"
    BY <1>5, FoundIsKey DEF SynAck, In
  <2>2. flow \in Flows
    BY <2>1 DEF TracerInv, TypeOK
  <2>3. flows' = [flows EXCEPT ![Found(p)] = new]
    BY <1>5, <2>1, <2>2 DEF SynAck, TracerInv, TypeOK, Flows
  <2>4. new.state = "SYN_ACKED"
    BY <2>2 DEF Flows
  <2>5. Rank(flow.state) <= Rank("SYN_ACKED")
    BY <2>1, RankValues
  <2> HIDE DEF new
  <2> QED
    BY <1>3, <2>1, <2>3, <2>4, <2>5, FlowMoves
<1>6. CASE SimultaneousSyn(p)
  BY <1>6, ReopenMoves DEF SimultaneousSyn
<1>7. CASE Data(p)
  <2>1. Known(p) /\ Rank(flows[Found(p)].state) <= Rank("CONNECTED")
    BY <1>1, <1>7, RankValues DEF Data
  <2> QED
    BY <1>3, <1>7, <2>1, SegmentMoves DEF Data
<1>8. CASE Reset(p)
  BY <1>8, TableMoves DEF Reset
<1>9. CASE FirstFin(p)
  BY <1>2, <1>9, RankValues DEF FirstFin, Closing, States
<1>10. CASE FirstFinAcked(p)
  BY <1>2, <1>10, RankValues DEF FirstFinAcked, Closing, States
<1>11. CASE SecondFin(p)
  BY <1>2, <1>11, RankValues DEF SecondFin, Closing, States
<1>12. CASE FinAfterAck(p)
  BY <1>2, <1>12, RankValues DEF FinAfterAck, Closing, States
<1>13. CASE BothFinsFirstAck(p)
  BY <1>2, <1>13, RankValues DEF BothFinsFirstAck, Closing, States
<1>14. CASE LastAck(p)
  <2>1. /\ Known(p)
        /\ Rank(flows[Found(p)].state) <= Rank("PENDING_CLOSE")
    BY <1>1, <1>14, RankValues DEF LastAck
  <2> QED
    BY <1>3, <1>14, <2>1, BecomeMoves, TableMoves DEF LastAck
<1>15. CASE DataBeforeClose(p)
  <2>1. Known(p) /\ Rank(flows[Found(p)].state) <= Rank("PENDING_CLOSE")
    BY <1>1, <1>15, RankValues DEF DataBeforeClose
  <2> QED
    BY <1>3, <1>15, <2>1, SegmentMoves DEF DataBeforeClose
<1>16. CASE DataWhileClosing(p)
  <2> DEFINE state == flows[Found(p)].state
  <2>1. Known(p) /\ state \in Closing
    BY <1>1, <1>16 DEF DataWhileClosing
  <2>2. state \in States /\ Rank(state) <= Rank(state)
    BY <1>3, <2>1, RankType
  <2>3. AddSegment(p, state)
    BY <1>16 DEF DataWhileClosing
  <2> HIDE DEF state
  <2> QED
    BY <2>1, <2>2, <2>3, SegmentMoves DEF state
<1>17. CASE SynWhileClosing(p)
  BY <1>17, ReopenMoves DEF SynWhileClosing
<1> QED
  BY <1>4, <1>5, <1>6, <1>7, <1>8, <1>9, <1>10, <1>11, <1>12, <1>13, <1>14, <1>15,
     <1>16, <1>17 DEF Trace

LEMMA NextMoves ==
  ASSUME TracerInv, [Next]_vars
  PROVE  Moves
BY TraceMoves, TableMoves DEF Next, vars
-----------------------------------------------------------------------------
\* Whatever the capture holds, a packet takes no flow back to an earlier state,
\* but for the SYN that starts it afresh.
THEOREM TracerNeverBack ==
  Spec => NeverBack
<1>1. TracerInv /\ [Next]_vars =>
        [\A key \in Keys :
           LET old == flows[key]
               new == flows'[key]
           IN  Rank(new.state) < Rank(old.state)
                 => /\ new.state = "HANDSHAKE" /\ new.pending = {}
                    /\ Tup(key) \in open' /\ streams'[Tup(key)] = [d \in Dirs |-> << >>]]_vars
  BY NextMoves DEF Moves, Forward, Afresh
<1> QED
  BY <1>1, TracerInvariant, PTL DEF Spec, NeverBack

-----------------------------------------------------------------------------
(* The captures of sessions. *)

\* The sessions that the other end opens at the same time have ids of their
\* own: neither the id of this session's SYN nor that of its data.
IdsApart ==
  \A s, r \in Sessions :
    r.ini = s.acc /\ r.acc = s.ini => r.connid # s.connid /\ r.connid # SendId(s, 0)

\* No end opens two sessions to the same other end.
TupsApart ==
  \A s, r \in Sessions : s.ini = r.ini /\ s.acc = r.acc => s = r

\* The flows in the table are those of the sessions.
OwnFlows ==
  \A key \in Keys : flows[key].state # "INIT" => \E s \in Sessions : key = Key(s)

\* q, what the parser of direction d has read, ends just before packet x.
Upto(d, q, x) ==
  IF q = << >> THEN d = 0 => x = 1 ELSE q[Len(q)] = x - 1

\* What waits in a session's flow are data packets of the session, each with
\* its number.
PendingOwn(s) ==
  \A e \in flows[Key(s)].pending :
    e.data \in 1 .. NumPackets /\ e.seq = DataSeq(s, e.dir, e.data)

\* Once opened, the flow expects a packet of the session, and the parsers, as
\* long as it has them, have read all before it.  Until then nothing is read.
Following(s) ==
  LET flow == flows[Key(s)]
      read == streams[Tup(Key(s))]
      mine == Tup(Key(s)) \in open
  IN  /\ flow.state = "HANDSHAKE" =>
           /\ flow.fseq[0] = DataSeq(s, 0, 1)
           /\ mine => read = [d \in Dirs |-> << >>]
      /\ flow.state \notin {"INIT", "HANDSHAKE"} =>
           \A d \in Dirs : \E x \in 1 .. NumPackets + 1 :
             flow.fseq[d] = DataSeq(s, d, x) /\ (mine => Upto(d, read[d], x))

SInv ==
  /\ TracerInv
  /\ OwnFlows
  /\ \A s \in Sessions : PendingOwn(s) /\ Following(s)
  /\ StreamsContiguous
-----------------------------------------------------------------------------
(* The packets of a session. *)

\* Before a session's first data packet lies one number, of its SYN or of none.
Base(s, d) == IF d = 0 THEN s.isn[0] ELSE s.isn[1] - 1

\* The number of the k-th data packet, as a sum on the ring.
LEMMA DataSeqIs ==
  ASSUME NEW s \in Sessions, NEW d \in Dirs, NEW k \in Int
  PROVE  /\ Base(s, d) \in Int
         /\ DataSeq(s, d, k) = (Base(s, d) + k) % Modulo
         /\ DataSeq(s, d, k) \in Serial
<1>1. s.isn \in [Dirs -> Serial]
  BY SessionAssumption
<1>2. Base(s, d) \in Int
  BY <1>1, ModuloType DEF Base, Serial, Dirs
<1>3. DataSeq(s, d, k) = (Base(s, d) + k) % Modulo
  <2>1. CASE d = 0
    BY <2>1 DEF DataSeq, Base, SerialAdd
  <2>2. CASE d = 1
    <3>1. s.isn[1] \in Int
      BY <1>1, ModuloType DEF Serial, Dirs
    <3>2. s.isn[1] + (k - 1) = s.isn[1] - 1 + k
      BY <3>1
    <3> QED
      BY <2>2, <3>2 DEF DataSeq, Base, SerialAdd
  <2> QED
    BY <2>1, <2>2 DEF Dirs
<1>4. (Base(s, d) + k) % Modulo \in Serial
  BY <1>2, Division
<1> QED
  BY <1>2, <1>3, <1>4

\* The numbers follow one another round the ring.
LEMMA DataSeqAdd ==
  ASSUME NEW s \in Sessions, NEW d \in Dirs, NEW k \in Int, NEW n \in Int
  PROVE  SerialAdd(DataSeq(s, d, k), n) = DataSeq(s, d, k + n)
<1>1. Base(s, d) \in Int /\ DataSeq(s, d, k) = (Base(s, d) + k) % Modulo
  BY DataSeqIs
<1>2. DataSeq(s, d, k + n) = (Base(s, d) + (k + n)) % Modulo
  BY DataSeqIs
<1>3. Base(s, d) + k \in Int /\ (Base(s, d) + k) + n = Base(s, d) + (k + n)
  BY <1>1
<1>4. SerialAdd((Base(s, d) + k) % Modulo, n) = ((Base(s, d) + k) + n) % Modulo
  BY <1>3, SerialAddWraps
<1> QED
  BY <1>1, <1>2, <1>3, <1>4

\* Packets less than a round apart have different numbers.
LEMMA DataSeqApart ==
  ASSUME NEW s \in Sessions, NEW d \in Dirs, NEW j \in Int, NEW k \in Int,
         j - k < Modulo, k - j < Modulo, DataSeq(s, d, j) = DataSeq(s, d, k)
  PROVE  j = k
<1> DEFINE a == Base(s, d) + j
           b == Base(s, d) + k
<1>1. Base(s, d) \in Int /\ a % Modulo = b % Modulo
  BY DataSeqIs
<1>2. a \in Int /\ b \in Int /\ a - b < Modulo /\ b - a < Modulo
  BY <1>1, ModuloType
<1>3. a = b
  BY <1>1, <1>2, RingInjective
<1> QED
  BY <1>1, <1>3

\* What the tracer can read of the packets of a session.
LEMMA OutgoingForms ==
  ASSUME NEW s \in Sessions, NEW d \in Dirs, NEW n \in Nat, NEW p \in Outgoing(s, d, n)
  PROVE  /\ p.src = From(s, d).src /\ p.dst = From(s, d).dst
         /\ p.type = "SYN" => d = 0 /\ p.connid = s.connid /\ p.seq = s.isn[0]
         /\ d = 0 /\ p.type # "SYN" => p.connid = SendId(s, 0)
         /\ d = 1 => p.connid = s.connid
         /\ p.type = "DATA" =>
              p.data \in 1 .. NumPackets /\ p.seq = DataSeq(s, d, p.data)
         /\ p.type = "STATE" /\ d = 1 =>
              \E k \in 1 .. NumPackets + 1 : p.seq = DataSeq(s, 1, k)
<1>1. NumPackets \in Nat /\ s.isn \in [Dirs -> Serial]
  BY SessionAssumption
<1>2. CASE p \in {IF d = 0 THEN Pkt(s, 0, "SYN", s.connid, s.isn[0], 0)
                           ELSE Pkt(s, 1, "STATE", s.connid, s.isn[1], 0)}
  <2>1. CASE d = 0
    BY <1>2, <2>1 DEF Pkt
  <2>2. CASE d = 1
    <3>1. DataSeq(s, 1, 1) = s.isn[1]
      <4>1. s.isn[1] \in Serial /\ s.isn[1] \in Int
        BY <1>1, ModuloType DEF Dirs, Serial
      <4>2. s.isn[1] % Modulo = s.isn[1]
        BY <4>1, SmallSums
      <4>3. s.isn[1] + (1 - 1) = s.isn[1]
        BY <4>1
      <4> QED
        BY <4>2, <4>3 DEF DataSeq, SerialAdd
    <3>2. 1 \in 1 .. NumPackets + 1
      BY <1>1
    <3> QED
      BY <1>2, <2>2, <3>1, <3>2 DEF Pkt
  <2> QED
    BY <2>1, <2>2 DEF Dirs
<1>3. ASSUME NEW k \in 1 .. NumPackets, p = Pkt(s, d, "DATA", SendId(s, d), DataSeq(s, d, k), k)
      PROVE  p.type = "DATA" /\ p.src = From(s, d).src /\ p.dst = From(s, d).dst
             /\ p.connid = SendId(s, d) /\ p.data = k /\ p.seq = DataSeq(s, d, k)
  BY <1>3 DEF Pkt
<1>4. ASSUME NEW k \in 1 .. NumPackets + 1,
             p = Pkt(s, d, "STATE", SendId(s, d), DataSeq(s, d, k), 0)
      PROVE  p.type = "STATE" /\ p.src = From(s, d).src /\ p.dst = From(s, d).dst
             /\ p.connid = SendId(s, d) /\ p.seq = DataSeq(s, d, k)
  BY <1>4 DEF Pkt
<1>5. ASSUME p = Pkt(s, d, "FIN", SendId(s, d), DataSeq(s, d, NumPackets + 1), 0)
      PROVE  p.type = "FIN" /\ p.src = From(s, d).src /\ p.dst = From(s, d).dst
             /\ p.connid = SendId(s, d)
  BY <1>5 DEF Pkt
<1>6. (d = 1 => SendId(s, d) = s.connid) /\ (d = 0 => SendId(s, d) = SendId(s, 0))
  BY DEF SendId
<1>7. \/ p \in {IF d = 0 THEN Pkt(s, 0, "SYN", s.connid, s.isn[0], 0)
                         ELSE Pkt(s, 1, "STATE", s.connid, s.isn[1], 0)}
      \/ \E k \in 1 .. NumPackets : p = Pkt(s, d, "DATA", SendId(s, d), DataSeq(s, d, k), k)
      \/ \E k \in 1 .. NumPackets + 1 : p = Pkt(s, d, "STATE", SendId(s, d), DataSeq(s, d, k), 0)
      \/ p = Pkt(s, d, "FIN", SendId(s, d), DataSeq(s, d, NumPackets + 1), 0)
  <2>1. \A k \in 2 .. NumPackets + 1 : k \in 1 .. NumPackets + 1
    OBVIOUS
  <2> QED
    BY <2>1 DEF Outgoing
<1> QED
  BY <1>2, <1>3, <1>4, <1>5, <1>6, <1>7

SentOK == sent \in [Sessions -> [Dirs -> 0 .. Done]]

\* What has been sent is part of what is sent in all.
LEMMA OutgoingGrows ==
  ASSUME NEW s \in Sessions, NEW d \in Dirs, NEW n \in 0 .. Done
  PROVE  Outgoing(s, d, n) \subseteq Packets
<1>1. NumPackets \in Nat /\ Outgoing(s, d, Done) \subseteq Packets
  BY SessionAssumption
<1>2. Done = NumPackets + 2
  BY DEF Done
<1>3. ASSUME NEW p \in Outgoing(s, d, n)
      PROVE  p \in Outgoing(s, d, Done)
  <2>1. CASE p \in (IF n = 0 THEN {} ELSE
                     {IF d = 0 THEN Pkt(s, 0, "SYN", s.connid, s.isn[0], 0)
                               ELSE Pkt(s, 1, "STATE", s.connid, s.isn[1], 0)})
    <3>1. Done # 0 /\ n # 0
      BY <1>1, <1>2, <2>1
    <3> QED
      BY <2>1, <3>1 DEF Outgoing
  <2>2. ASSUME NEW k \in {i \in 1 .. NumPackets : i < n},
               p = Pkt(s, d, "DATA", SendId(s, d), DataSeq(s, d, k), k)
        PROVE  p \in Outgoing(s, d, Done)
    <3>1. k \in {i \in 1 .. NumPackets : i < Done}
      BY <1>1, <1>2
    <3> QED
      BY <2>2, <3>1 DEF Outgoing
  <2>3. ASSUME NEW k \in {i \in 2 .. NumPackets + 1 : i \leq n},
               p = Pkt(s, d, "STATE", SendId(s, d), DataSeq(s, d, k), 0)
        PROVE  p \in Outgoing(s, d, Done)
    <3>1. k \in {i \in 2 .. NumPackets + 1 : i \leq Done}
      BY <1>1, <1>2
    <3> QED
      BY <2>3, <3>1 DEF Outgoing
  <2>4. CASE p \in (IF n < Done THEN {} ELSE
                     {Pkt(s, d, "FIN", SendId(s, d), DataSeq(s, d, NumPackets + 1), 0)})
    <3>1. ~(Done < Done) /\ ~(n < Done)
      BY <1>1, <1>2, <2>4
    <3> QED
      BY <2>4, <3>1 DEF Outgoing
  <2> QED
    BY <2>1, <2>2, <2>3, <2>4 DEF Outgoing
<1> QED
  BY <1>1, <1>3

\* A step of the session is a step of the tracer, or none.
LEMMA SessionStep ==
  ASSUME SentOK, [SessionNext]_sessionVars
  PROVE  /\ SentOK'
         /\ UNCHANGED vars \/ \E s \in Sessions, d \in Dirs :
              \E p \in Outgoing(s, d, sent[s][d]) : p \in Packets /\ Trace(p)
<1>1. CASE UNCHANGED sessionVars
  BY <1>1 DEF sessionVars, vars, SentOK
<1>2. ASSUME NEW s \in Sessions, NEW d \in Dirs, Send(s, d)
      PROVE  SentOK' /\ UNCHANGED vars
  <2>1. sent[s][d] + 1 \in 0 .. Done
    <3>1. sent[s][d] \in 0 .. Done /\ sent[s][d] < Done /\ Done \in Nat
      BY <1>2, SessionAssumption DEF Send, SentOK, Done
    <3> QED
      BY <3>1
  <2> QED
    BY <1>2, <2>1 DEF Send, SentOK
<1>3. ASSUME NEW s \in Sessions, NEW d \in Dirs, NEW p \in Outgoing(s, d, sent[s][d]), Capture(p)
      PROVE  SentOK' /\ p \in Packets /\ Trace(p)
  <2>1. sent[s][d] \in 0 .. Done
    BY DEF SentOK
  <2> QED
    BY <1>3, <2>1, OutgoingGrows DEF Capture, SentOK
<1> QED
  BY <1>1, <1>2, <1>3 DEF SessionNext

\* What is proved of the tracer for every capture holds on a session's packets.
THEOREM SessionIsTracing ==
  SessionSpec => Spec /\ []SentOK
<1>1. SessionInit => Init /\ SentOK
  BY SessionAssumption DEF SessionInit, SentOK, Done
<1>2. SentOK /\ [SessionNext]_sessionVars => [Next]_vars /\ SentOK'
  BY SessionStep DEF Next
<1> QED
  BY <1>1, <1>2, PTL DEF SessionSpec, Spec
-----------------------------------------------------------------------------
(* The look-up. *)

\* A packet is looked up under the key of its session.
LEMMA OwnKey ==
  ASSUME NEW s \in Sessions
  PROVE  /\ Key(s) \in Keys /\ Tup(Key(s)) = <<s.ini, s.acc>> /\ Tup(Key(s)) \in Tups
         /\ Key(s)[1] = s.ini /\ s.ini # s.acc
BY SessionAssumption DEF Key, Keys, Tups, Tup

\* Where the ids are apart, no other key that the look-up tries is in the table.
LEMMA OwnPacket ==
  ASSUME IdsApart, OwnFlows, NEW s \in Sessions, NEW d \in Dirs, NEW n \in Nat,
         NEW p \in Outgoing(s, d, n), Known(p)
  PROVE  Found(p) = Key(s) /\ Dir(p) = d
<1> DEFINE byIni == SentByInitiator(p)
           byAcc == SentByAccepter(p)
<1>1. /\ s.connid \in Nat /\ s.connid < ConnIdModulo /\ ConnIdModulo \in Nat /\ ConnIdModulo > 0
      /\ s.ini # s.acc
  <2>1. s.connid \in ConnIds /\ s.connid < ConnIdModulo /\ s.ini # s.acc
    BY SessionAssumption
  <2>2. ConnIdModulo \in Nat \ {0}
    BY SessionAssumption
  <2>3. ConnIds \subseteq Nat
    BY PacketAssumption
  <2>4. ConnIdModulo \in Nat /\ ConnIdModulo > 0
    BY <2>2
  <2>5. s.connid \in Nat
    BY <2>1, <2>3
  <2> QED
    BY <2>1, <2>4, <2>5
<1>2. \A key : Present(key) => \E r \in Sessions : key = <<r.ini, r.acc, r.connid>>
  BY DEF OwnFlows, Present, Key
<1>3. \A r \in Sessions : r.connid \in Nat /\ r.connid < ConnIdModulo
  BY SessionAssumption, PacketAssumption
<1>4. CASE d = 0
  <2>1. p.src = s.ini /\ p.dst = s.acc
    BY <1>4, OutgoingForms DEF From
  <2>2. ~Present(byAcc)
    <3> SUFFICES ASSUME NEW r \in Sessions, byAcc = <<r.ini, r.acc, r.connid>>
                 PROVE  FALSE
      BY <1>2
    <3>1. r.ini = s.acc /\ r.acc = s.ini /\ r.connid = p.connid
      BY <2>1 DEF SentByAccepter
    <3>2. p.connid = s.connid \/ p.connid = SendId(s, 0)
      BY <1>4, OutgoingForms
    <3> QED
      BY <3>1, <3>2 DEF IdsApart
  <2>3. Present(byIni) /\ Found(p) = byIni
    BY <2>2 DEF Known, Found
  <2>4. byIni = Key(s)
    <3>1. CASE p.type = "SYN"
      BY <2>1, <3>1, OutgoingForms DEF SentByInitiator, Key
    <3>2. CASE p.type # "SYN"
      <4>1. p.connid = SendId(s, 0)
        BY <1>4, <3>2, OutgoingForms
      <4>2. PICK r \in Sessions : byIni = <<r.ini, r.acc, r.connid>>
        BY <1>2, <2>3
      <4>3. r.connid = SendId(s, 0) - 1
        BY <3>2, <4>1, <4>2 DEF SentByInitiator
      <4>4. SendId(s, 0) - 1 = s.connid
        <5>1. SendId(s, 0) = (s.connid + 1) % ConnIdModulo
          BY DEF SendId
        <5>2. CASE s.connid + 1 < ConnIdModulo
          BY <1>1, <5>1, <5>2
        <5>3. CASE s.connid + 1 = ConnIdModulo
          <6>1. SendId(s, 0) = 0
            BY <1>1, <5>1, <5>3
          <6> QED
            BY <1>3, <4>3, <6>1
        <5> QED
          BY <1>1, <5>2, <5>3
      <4> QED
        BY <2>1, <3>2, <4>1, <4>4 DEF SentByInitiator, Key
    <3> QED
      BY <3>1, <3>2
  <2>5. Dir(p) = 0
    BY <2>1, <2>3, <2>4, OwnKey DEF Dir
  <2> QED
    BY <1>4, <2>3, <2>4, <2>5
<1>5. CASE d = 1
  <2>1. p.src = s.acc /\ p.dst = s.ini /\ p.connid = s.connid /\ p.type # "SYN"
    BY <1>5, OutgoingForms DEF From
  <2>2. ~Present(byIni)
    <3> SUFFICES ASSUME NEW r \in Sessions, byIni = <<r.ini, r.acc, r.connid>>
                 PROVE  FALSE
      BY <1>2
    <3>1. r.ini = s.acc /\ r.acc = s.ini /\ r.connid = s.connid - 1
      BY <2>1 DEF SentByInitiator
    <3>2. s.connid = SendId(r, 0)
      <4>1. r.connid \in Nat /\ r.connid + 1 = s.connid
        BY <1>1, <1>3, <3>1
      <4>2. (r.connid + 1) % ConnIdModulo = r.connid + 1
        BY <1>1, <4>1
      <4> QED
        BY <4>1, <4>2 DEF SendId
    <3> QED
      BY <3>1, <3>2 DEF IdsApart
  <2>3. Found(p) = byAcc /\ byAcc = Key(s)
    BY <2>1, <2>2 DEF Found, SentByAccepter, Key
  <2>4. Dir(p) = 1
    BY <1>1, <2>1, <2>3, OwnKey DEF Dir
  <2> QED
    BY <1>5, <2>3, <2>4
<1> QED
  BY <1>4, <1>5 DEF Dirs
-----------------------------------------------------------------------------
(* The handlers. *)

\* A handler does one of these to the table.
LEMMA TraceCases ==
  ASSUME TracerInv, NEW p \in Packets, Trace(p)
  PROVE  \/ UNCHANGED <<flows, streams>> /\ open' \subseteq open
         \/ p.type = "SYN" /\ \E still \in SUBSET open : OpenFlow(p, still)
         \/ SynAck(p)
         \/ Known(p) /\ flows[Found(p)].state \notin {"INIT", "HANDSHAKE"} /\
              \E state \in States \ {"INIT", "HANDSHAKE"} :
                \/ Become(p, state)
                \/ p.type = "DATA" /\ AddSegment(p, state) /\ open' \subseteq open
<1> DEFINE Later == States \ {"INIT", "HANDSHAKE"}
           Going == Known(p) /\ flows[Found(p)].state \notin {"INIT", "HANDSHAKE"}
           Closed == UNCHANGED <<flows, streams>> /\ open' \subseteq open
<1>1. ASSUME NEW key, CloseFlow(key), UNCHANGED <<flows, streams>>
      PROVE  Closed
  BY <1>1 DEF CloseFlow
<1>2. ASSUME p.type = "SYN", Reopen(p)
      PROVE  Closed \/ \E still \in SUBSET open : OpenFlow(p, still)
  <2>1. CASE Tup(Found(p)) \in open
    <3>1. open \ {Tup(Found(p))} \in SUBSET open
      OBVIOUS
    <3> QED
      BY <1>2, <2>1, <3>1 DEF Reopen
  <2>2. CASE Tup(Found(p)) \notin open
    BY <1>1, <1>2, <2>2 DEF Reopen
  <2> QED
    BY <2>1, <2>2
<1>3. ASSUME NEW states \in SUBSET Later, In(p, states)
      PROVE  Going
  BY <1>3 DEF In
<1>4. /\ Closing \subseteq Later
      /\ {"SYN_ACKED", "CONNECTED"} \subseteq Later /\ "PENDING_CLOSE" \in Later
      /\ "SYN_ACKED" \in Later /\ "CONNECTED" \in Later
      /\ "INITIATOR_SENT_FIN" \in Closing /\ "ACCEPTER_SENT_FIN" \in Closing
      /\ "INITIATOR_FIN_ACKED" \in Closing /\ "ACCEPTER_FIN_ACKED" \in Closing
      /\ "BOTH_SENT_FIN" \in Closing
      /\ "BOTH_SENT_FIN_INITIATOR_ACKED" \in Closing
      /\ "BOTH_SENT_FIN_ACCEPTER_ACKED" \in Closing
  BY DEF Closing, States
<1>5. \A x \in Later : {x} \subseteq Later
  OBVIOUS
<1>6. \A x \in Closing : x \in Later
  BY <1>4
<1> HIDE DEF Closed, Going, Later
<1>7. CASE Syn(p)
  BY <1>7 DEF Syn
<1>8. CASE SimultaneousSyn(p)
  BY <1>2, <1>8 DEF SimultaneousSyn, Closed
<1>9. CASE SynWhileClosing(p)
  BY <1>2, <1>9 DEF SynWhileClosing, Closed
<1>10. CASE Data(p)
  BY <1>3, <1>4, <1>10 DEF Data, Going, Later
<1>11. CASE Reset(p)
  BY <1>1, <1>11 DEF Reset, Closed
<1>12. CASE FirstFin(p)
  <2>1. Going
    BY <1>3, <1>4, <1>12 DEF FirstFin
  <2>2. \E state \in Later : Become(p, state)
    BY <1>4, <1>6, <1>12 DEF FirstFin
  <2> QED
    BY <2>1, <2>2 DEF Going, Later
<1>13. CASE FirstFinAcked(p)
  <2>1. Going
    BY <1>3, <1>4, <1>5, <1>6, <1>13 DEF FirstFinAcked
  <2>2. \E state \in Later : Become(p, state)
    BY <1>4, <1>6, <1>13 DEF FirstFinAcked
  <2> QED
    BY <2>1, <2>2 DEF Going, Later
<1>14. CASE SecondFin(p)
  <2>1. Going
    BY <1>3, <1>4, <1>5, <1>6, <1>14 DEF SecondFin
  <2>2. \E state \in Later : Become(p, state)
    BY <1>4, <1>6, <1>14 DEF SecondFin
  <2> QED
    BY <2>1, <2>2 DEF Going, Later
<1>15. CASE FinAfterAck(p)
  <2>1. Going
    BY <1>3, <1>4, <1>5, <1>6, <1>15 DEF FinAfterAck
  <2>2. \E state \in Later : Become(p, state)
    BY <1>4, <1>6, <1>15 DEF FinAfterAck
  <2> QED
    BY <2>1, <2>2 DEF Going, Later
<1>16. CASE BothFinsFirstAck(p)
  <2>1. Going
    BY <1>3, <1>4, <1>5, <1>6, <1>16 DEF BothFinsFirstAck
  <2>2. \E state \in Later : Become(p, state)
    BY <1>4, <1>6, <1>16 DEF BothFinsFirstAck
  <2> QED
    BY <2>1, <2>2 DEF Going, Later
<1>17. CASE LastAck(p)
  <2>1. Going
    BY <1>3, <1>4, <1>5, <1>6, <1>17 DEF LastAck
  <2>2. Closed \/ Become(p, "PENDING_CLOSE")
    BY <1>1, <1>17 DEF LastAck
  <2> QED
    BY <1>4, <2>1, <2>2 DEF Going, Later, Closed
<1>18. CASE DataBeforeClose(p)
  <2>1. Going
    BY <1>3, <1>4, <1>5, <1>18 DEF DataBeforeClose
  <2>2. p.type = "DATA" /\ AddSegment(p, "PENDING_CLOSE") /\ open' \subseteq open
    BY <1>18 DEF DataBeforeClose, CloseFlow
  <2> QED
    BY <1>4, <2>1, <2>2 DEF Going, Later
<1>19. CASE DataWhileClosing(p)
  <2>1. Going
    BY <1>3, <1>4, <1>19 DEF DataWhileClosing
  <2>2. /\ p.type = "DATA" /\ AddSegment(p, flows[Found(p)].state) /\ open' \subseteq open
        /\ flows[Found(p)].state \in Later
    BY <1>6, <1>19 DEF DataWhileClosing, In
  <2> QED
    BY <2>1, <2>2 DEF Going, Later
<1> QED
  BY <1>7, <1>8, <1>9, <1>10, <1>11, <1>12, <1>13, <1>14, <1>15, <1>16, <1>17, <1>18, <1>19
     DEF Trace
-----------------------------------------------------------------------------
(* The table holds the flows of the sessions. *)

\* The table holds no flow but those that the sessions opened.
LEMMA OwnFlowsKept ==
  ASSUME TracerInv, OwnFlows, NEW s \in Sessions, NEW d \in Dirs, NEW n \in Nat,
         NEW p \in Outgoing(s, d, n), p \in Packets, Trace(p)
  PROVE  OwnFlows'
<1>1. \A k \in Keys : k \in DOMAIN flows /\ DOMAIN flows = Keys
  BY DEF TracerInv, TypeOK
<1>2. Known(p) => Found(p) \in Keys /\ flows[Found(p)].state # "INIT"
  BY DEF Known, Found, Present
<1>3. ASSUME NEW key, NEW flow, flows' = [flows EXCEPT ![key] = flow],
             key \in Keys => \E r \in Sessions : key = Key(r)
      PROVE  OwnFlows'
  BY <1>1, <1>3 DEF OwnFlows, Key
<1>4. Known(p) => \E r \in Sessions : Found(p) = Key(r)
  BY <1>2 DEF OwnFlows
<1>5. CASE UNCHANGED <<flows, streams>>
  BY <1>5 DEF OwnFlows, Key
<1>6. ASSUME NEW still, OpenFlow(p, still), p.type = "SYN"
      PROVE  OwnFlows'
  <2>1. <<p.src, p.dst, p.connid>> = Key(s)
    BY <1>6, OutgoingForms DEF Key, From
  <2> QED
    BY <1>3, <1>6, <2>1 DEF OpenFlow
<1>7. CASE SynAck(p)
  <2>1. Known(p) /\ flows' = [flows EXCEPT ![Found(p)].state = "SYN_ACKED",
                                           ![Found(p)].fseq[1] = p.seq]
    BY <1>7 DEF SynAck, In
  <2>2. flows' = [flows EXCEPT ![Found(p)] =
                    [flows[Found(p)] EXCEPT !.state = "SYN_ACKED", !.fseq[1] = p.seq]]
    BY <1>1, <1>2, <2>1
  <2> QED
    BY <1>3, <1>4, <2>1, <2>2
<1>8. ASSUME NEW state, Become(p, state), Known(p)
      PROVE  OwnFlows'
  <2>1. flows' = [flows EXCEPT ![Found(p)] = [flows[Found(p)] EXCEPT !.state = state]]
    BY <1>8 DEF Become
  <2> QED
    BY <1>3, <1>4, <1>8, <2>1
<1>9. ASSUME NEW state, AddSegment(p, state), Known(p)
      PROVE  OwnFlows'
  <2>1. \E flow : flows' = [flows EXCEPT ![Found(p)] = flow]
    BY <1>9 DEF AddSegment
  <2> QED
    BY <1>3, <1>4, <1>9, <2>1
<1> QED
  BY <1>5, <1>6, <1>7, <1>8, <1>9, TraceCases

\* The table of a capture of sessions holds only flows of theirs.
THEOREM SessionOwnFlows ==
  SessionSpec => []OwnFlows
<1>1. SessionInit => OwnFlows
  BY DEF SessionInit, Init, OwnFlows, NoFlow
<1>2. TracerInv /\ SentOK /\ OwnFlows /\ [SessionNext]_sessionVars => OwnFlows'
  <2> SUFFICES ASSUME TracerInv, SentOK, OwnFlows, [SessionNext]_sessionVars
               PROVE  OwnFlows'
    OBVIOUS
  <2>1. CASE UNCHANGED vars
    BY <2>1 DEF vars, OwnFlows, Key
  <2>2. ASSUME NEW s \in Sessions, NEW d \in Dirs, NEW p \in Outgoing(s, d, sent[s][d]),
               p \in Packets, Trace(p)
        PROVE  OwnFlows'
    <3>1. sent[s][d] \in Nat
      BY SessionAssumption DEF SentOK, Done
    <3> QED
      BY <2>2, <3>1, OwnFlowsKept
  <2> QED
    BY <2>1, <2>2, SessionStep
<1> QED
  BY <1>1, <1>2, SessionIsTracing, TracerInvariant, PTL DEF SessionSpec

\* As long as the ids of the sessions that two peers open to one another are
\* apart, every packet is taken for one of its own session, in its direction, or
\* of none.
THEOREM SessionFoundByOwnFlow ==
  ASSUME IdsApart
  PROVE  SessionSpec => []FoundByOwnFlow
<1>1. OwnFlows /\ SentOK => FoundByOwnFlow
  <2> SUFFICES ASSUME OwnFlows, SentOK, NEW s \in Sessions, NEW d \in Dirs,
                      NEW p \in Outgoing(s, d, sent[s][d]), Known(p)
               PROVE  Found(p) = Key(s) /\ Dir(p) = d
    BY DEF FoundByOwnFlow
  <2>1. sent[s][d] \in Nat
    BY SessionAssumption DEF SentOK, Done
  <2> QED
    BY <2>1, OwnPacket
<1> QED
  BY <1>1, SessionOwnFlows, SessionIsTracing, PTL
-----------------------------------------------------------------------------
(* What add_segment makes of a session's packets. *)

\* An entry is a data packet of the session, with its number.
OwnEntry(s, e) ==
  e.dir \in Dirs /\ e.data \in 1 .. NumPackets /\ e.seq = DataSeq(s, e.dir, e.data)

\* What is expected is the packet itself, for no two of them share a number.
LEMMA OwnNumber ==
  ASSUME NumPackets < Modulo, NEW s \in Sessions, NEW d \in Dirs,
         NEW j \in 1 .. NumPackets + 1, NEW k \in 1 .. NumPackets + 1,
         DataSeq(s, d, j) = DataSeq(s, d, k)
  PROVE  j = k
<1>1. NumPackets \in Nat /\ Modulo \in Nat
  BY SessionAssumption, ModuloType
<1>2. j \in Int /\ k \in Int /\ j - k < Modulo /\ k - j < Modulo
  BY <1>1
<1> QED
  BY <1>2, DataSeqApart

\* The loop over the pending list takes the packets from y on, as far as they
\* are there.
LEMMA DrainedOwn ==
  ASSUME NumPackets < Modulo, NEW s \in Sessions, NEW f, NEW pending,
         NEW y \in [Dirs -> 1 .. NumPackets + 1], NEW run \in Runs,
         \A c \in Dirs : f[c] = DataSeq(s, c, y[c]),
         \A e \in pending : OwnEntry(s, e),
         IsRun(f, pending, run)
  PROVE  \A c \in Dirs :
           /\ run[c] \in Nat /\ y[c] + run[c] <= NumPackets + 1
           /\ \A i \in 1 .. run[c] :
                PayloadAt(pending, c, SerialAdd(f[c], i - 1)) = y[c] + (i - 1)
           /\ SerialAdd(f[c], run[c]) = DataSeq(s, c, y[c] + run[c])
<1> SUFFICES ASSUME NEW c \in Dirs
             PROVE  /\ run[c] \in Nat /\ y[c] + run[c] <= NumPackets + 1
                    /\ \A i \in 1 .. run[c] :
                         PayloadAt(pending, c, SerialAdd(f[c], i - 1)) = y[c] + (i - 1)
                    /\ SerialAdd(f[c], run[c]) = DataSeq(s, c, y[c] + run[c])
  OBVIOUS
<1> DEFINE N == NumPackets
           x == y[c]
           m == run[c]
<1>1. N \in Nat /\ x \in 1 .. N + 1 /\ m \in Nat /\ Modulo \in Nat
  BY SessionAssumption, ModuloType DEF Runs
<1>2. \A i \in Nat : SerialAdd(f[c], i) = DataSeq(s, c, x + i)
  <2> TAKE i \in Nat
  <2>1. x \in Int /\ i \in Int
    BY <1>1
  <2> QED
    BY <2>1, DataSeqAdd
<1>3. ASSUME NEW i \in 0 .. m - 1
      PROVE  \E e \in pending : e.dir = c /\ e.seq = DataSeq(s, c, x + i)
  <2>1. SerialAdd(f[c], i) \in PendingSeqs(pending, c) /\ i \in Nat
    BY <1>1, <1>3 DEF IsRun
  <2> QED
    BY <1>2, <2>1 DEF PendingSeqs
<1>4. x + m <= N + 1
  <2> SUFFICES ASSUME x + m > N + 1
               PROVE  FALSE
    BY <1>1
  <2>1. N + 1 - x \in 0 .. m - 1 /\ x + (N + 1 - x) = N + 1
    BY <1>1
  <2>2. PICK e \in pending : e.dir = c /\ e.seq = DataSeq(s, c, N + 1)
    BY <1>3, <2>1
  <2>3. e.data \in 1 .. N /\ DataSeq(s, c, e.data) = DataSeq(s, c, N + 1)
    BY <2>2 DEF OwnEntry
  <2>4. e.data \in 1 .. N + 1 /\ N + 1 \in 1 .. N + 1
    BY <1>1, <2>3
  <2>5. e.data = N + 1
    BY <2>3, <2>4, OwnNumber
  <2> QED
    BY <1>1, <2>3, <2>5
<1>5. ASSUME NEW i \in 1 .. m
      PROVE  PayloadAt(pending, c, SerialAdd(f[c], i - 1)) = x + (i - 1)
  <2>1. i - 1 \in 0 .. m - 1 /\ i - 1 \in Nat /\ x + (i - 1) \in 1 .. N + 1
    BY <1>1, <1>4
  <2>2. SerialAdd(f[c], i - 1) = DataSeq(s, c, x + (i - 1))
    BY <1>2, <2>1
  <2>3. \E e \in pending : e.dir = c /\ e.seq = SerialAdd(f[c], i - 1)
    BY <1>3, <2>1, <2>2
  <2> DEFINE e == CHOOSE e \in pending : e.dir = c /\ e.seq = SerialAdd(f[c], i - 1)
  <2>4. e \in pending /\ e.dir = c /\ e.seq = SerialAdd(f[c], i - 1)
    BY <2>3
  <2>5. PayloadAt(pending, c, SerialAdd(f[c], i - 1)) = e.data
    BY DEF PayloadAt
  <2> HIDE DEF e
  <2>6. e.data \in 1 .. N /\ DataSeq(s, c, e.data) = DataSeq(s, c, x + (i - 1))
    BY <2>2, <2>4 DEF OwnEntry
  <2>7. e.data \in 1 .. N + 1
    BY <1>1, <2>6
  <2>8. e.data = x + (i - 1)
    BY <2>1, <2>6, <2>7, OwnNumber
  <2> QED
    BY <2>5, <2>8
<1> QED
  BY <1>1, <1>2, <1>4, <1>5

\* What the expected packets x, the pending list, the packet e and the packets
\* taken from the list make of a session's flow: in each direction the packets
\* from the expected one on are handed over, and the one after them is expected.
ReadsOn(s, fseq, pending, x, e, run) ==
  /\ \A p \in Remaining(Bumped(fseq, e), Parked(fseq, pending, e), run) : OwnEntry(s, p)
  /\ \A c \in Dirs : \E m \in Nat :
       /\ x[c] + m <= NumPackets + 1
       /\ Advanced(Bumped(fseq, e), run)[c] = DataSeq(s, c, x[c] + m)
       /\ Handed(fseq, pending, e, run, c) \in Seq(Nat)
       /\ Len(Handed(fseq, pending, e, run, c)) = m
       /\ \A i \in 1 .. m : Handed(fseq, pending, e, run, c)[i] = x[c] + (i - 1)

\* add_segment does so.
LEMMA SegmentOwn ==
  ASSUME NumPackets < Modulo, NEW s \in Sessions, NEW fseq \in [Dirs -> Serial], NEW pending,
         NEW x \in [Dirs -> 1 .. NumPackets + 1], NEW run \in Runs, NEW e,
         \A c \in Dirs : fseq[c] = DataSeq(s, c, x[c]),
         \A p \in pending : OwnEntry(s, p), OwnEntry(s, e),
         IsRun(Bumped(fseq, e), Parked(fseq, pending, e), run)
  PROVE  ReadsOn(s, fseq, pending, x, e, run)
<1> DEFINE N == NumPackets
           bumped == Bumped(fseq, e)
           parked == Parked(fseq, pending, e)
           y == [c \in Dirs |-> IF Expected(fseq, e) /\ c = e.dir THEN x[c] + 1 ELSE x[c]]
<1>1. N \in Nat /\ Modulo \in Nat
  BY SessionAssumption, ModuloType
<1>2. \A p \in parked : OwnEntry(s, p)
  BY DEF Parked
<1>3. \A p \in Remaining(bumped, parked, run) : OwnEntry(s, p)
  BY <1>2 DEF Remaining
<1>4. e.dir \in Dirs /\ e.data \in 1 .. N /\ e.seq = DataSeq(s, e.dir, e.data)
  BY DEF OwnEntry
<1>5. Expected(fseq, e) => x[e.dir] = e.data /\ x[e.dir] + 1 \in 1 .. N + 1
  <2>1. e.data \in 1 .. N + 1 /\ x[e.dir] \in 1 .. N + 1
    BY <1>1, <1>4
  <2>2. Expected(fseq, e) => DataSeq(s, e.dir, e.data) = DataSeq(s, e.dir, x[e.dir])
    BY <1>4 DEF Expected
  <2>3. Expected(fseq, e) => e.data = x[e.dir]
    BY <1>4, <2>1, <2>2, OwnNumber
  <2> QED
    BY <1>1, <1>4, <2>3
<1>6. y \in [Dirs -> 1 .. N + 1]
  BY <1>5
<1>7. \A c \in Dirs : bumped[c] = DataSeq(s, c, y[c])
  <2> TAKE c \in Dirs
  <2>1. CASE Expected(fseq, e) /\ c = e.dir
    <3>1. bumped[c] = SerialAdd(fseq[c], 1)
      BY <2>1 DEF Bumped
    <3>2. x[c] \in Int
      BY <1>1
    <3>3. SerialAdd(DataSeq(s, c, x[c]), 1) = DataSeq(s, c, x[c] + 1)
      BY <3>2, DataSeqAdd
    <3> QED
      BY <2>1, <3>1, <3>3
  <2>2. CASE ~(Expected(fseq, e) /\ c = e.dir)
    BY <2>2 DEF Bumped
  <2> QED
    BY <2>1, <2>2
<1>8. \A c \in Dirs :
        /\ run[c] \in Nat /\ y[c] + run[c] <= N + 1
        /\ \A i \in 1 .. run[c] :
             PayloadAt(parked, c, SerialAdd(bumped[c], i - 1)) = y[c] + (i - 1)
        /\ SerialAdd(bumped[c], run[c]) = DataSeq(s, c, y[c] + run[c])
  <2>1. IsRun(bumped, parked, run)
    OBVIOUS
  <2> HIDE DEF y, bumped, parked
  <2> QED
    BY <1>2, <1>6, <1>7, <2>1, DrainedOwn, ZenonT(30)
<1>9. ASSUME NEW c \in Dirs
      PROVE  \E m \in Nat :
               /\ x[c] + m <= N + 1
               /\ Advanced(bumped, run)[c] = DataSeq(s, c, x[c] + m)
               /\ Handed(fseq, pending, e, run, c) \in Seq(Nat)
               /\ Len(Handed(fseq, pending, e, run, c)) = m
               /\ \A i \in 1 .. m : Handed(fseq, pending, e, run, c)[i] = x[c] + (i - 1)
  <2> DEFINE h == IF Expected(fseq, e) /\ e.dir = c THEN <<e.data>> ELSE << >>
             t == RunPayload(bumped, parked, run, c)
             n == IF Expected(fseq, e) /\ e.dir = c THEN 1 ELSE 0
  <2>1. x[c] \in Nat /\ n \in Nat /\ y[c] = x[c] + n /\ run[c] \in Nat
    BY <1>1, <1>8
  <2>2. /\ h \in Seq(Nat) /\ Len(h) = n
        /\ \A i \in 1 .. n : h[i] = x[c] + (i - 1)
    <3>1. CASE Expected(fseq, e) /\ e.dir = c
      <4>1. h = <<x[c]>> /\ n = 1
        BY <1>5, <3>1
      <4> QED
        BY <2>1, <4>1
    <3>2. CASE ~(Expected(fseq, e) /\ e.dir = c)
      BY <3>2
    <3> QED
      BY <3>1, <3>2
  <2>3. /\ t \in Seq(Nat) /\ Len(t) = run[c]
        /\ \A i \in 1 .. run[c] : t[i] = y[c] + (i - 1)
    <3>1. t = [i \in 1 .. run[c] |-> PayloadAt(parked, c, SerialAdd(bumped[c], i - 1))]
      BY DEF RunPayload
    <3>2. \A i \in 1 .. run[c] : t[i] = y[c] + (i - 1) /\ t[i] \in Nat
      BY <1>8, <2>1, <3>1
    <3>3. t \in [1 .. run[c] -> Nat]
      BY <3>1, <3>2
    <3> HIDE DEF t
    <3>4. t \in Seq(Nat) /\ Len(t) = run[c]
      BY <2>1, <3>3, SeqDef, SMTT(30)
    <3> QED
      BY <3>2, <3>4
  <2>4. Handed(fseq, pending, e, run, c) = h \o t
    BY DEF Handed
  <2>5. Advanced(bumped, run)[c] = DataSeq(s, c, y[c] + run[c])
    BY <1>8 DEF Advanced
  <2>6. x[c] + (n + run[c]) = y[c] + run[c] /\ n + run[c] \in Nat /\ y[c] + run[c] <= N + 1
    BY <1>8, <2>1
  <2> HIDE DEF h, t, n, y
  <2>7. /\ h \o t \in Seq(Nat)
        /\ Len(h \o t) = Len(h) + Len(t)
        /\ \A i \in 1 .. Len(h) + Len(t) :
             (h \o t)[i] = IF i <= Len(h) THEN h[i] ELSE t[i - Len(h)]
    BY <2>2, <2>3, ConcatProperties
  <2>8. \A i \in 1 .. n + run[c] : (h \o t)[i] = x[c] + (i - 1)
    <3> TAKE i \in 1 .. n + run[c]
    <3>1. CASE i <= n
      <4>1. i \in 1 .. n /\ i \in 1 .. Len(h) + Len(t) /\ i <= Len(h)
        BY <2>1, <2>2, <2>3, <3>1
      <4>2. (h \o t)[i] = h[i]
        BY <2>7, <4>1
      <4> QED
        BY <2>2, <4>1, <4>2
    <3>2. CASE i > n
      <4>1. i - n \in 1 .. run[c] /\ (h \o t)[i] = t[i - n]
        BY <2>1, <2>2, <2>3, <2>7, <3>2, SMTT(30)
      <4>2. t[i - n] = y[c] + ((i - n) - 1)
        BY <2>3, <4>1
      <4>3. y[c] + ((i - n) - 1) = x[c] + (i - 1)
        BY <2>1
      <4> QED
        BY <4>1, <4>2, <4>3
    <3>3. n \in Nat /\ i \in Int
      BY <2>1
    <3>4. i <= n \/ i > n
      BY <3>3
    <3> QED
      BY <3>1, <3>2, <3>4
  <2> WITNESS n + run[c] \in Nat
  <2> QED
    BY <2>2, <2>3, <2>4, <2>5, <2>6, <2>7, <2>8
<1> QED
  BY <1>3, <1>9 DEF ReadsOn
-----------------------------------------------------------------------------
(* The streams. *)

\* A stream without a gap, the initiator's from its first packet on.
Gapless(d, q) ==
  /\ \A i \in 1 .. Len(q) - 1 : q[i + 1] = q[i] + 1
  /\ d = 0 /\ q # << >> => q[1] = 1

\* A stream that ends before packet x goes on without a gap from x on.
LEMMA ReadOn ==
  ASSUME NEW S, NEW q \in Seq(S), NEW h \in Seq(Nat), NEW d, NEW x \in Nat,
         Gapless(d, q), Upto(d, q, x),
         \A i \in 1 .. Len(h) : h[i] = x + (i - 1)
  PROVE  Gapless(d, q \o h) /\ Upto(d, q \o h, x + Len(h))
<1> DEFINE T == S \cup Nat
           u == q \o h
           n == Len(q)
           m == Len(h)
<1>1. q \in Seq(T) /\ h \in Seq(T)
  BY SeqMonotonic
<1>2. /\ u \in Seq(T)
      /\ Len(u) = Len(q) + Len(h)
      /\ \A i \in 1 .. Len(q) + Len(h) : u[i] = IF i <= Len(q) THEN q[i] ELSE h[i - Len(q)]
  BY <1>1, ConcatProperties
<1>3. /\ n \in Nat /\ m \in Nat
      /\ q = << >> <=> n = 0
      /\ u = << >> <=> Len(u) = 0
  BY <1>1, <1>2, LenProperties, EmptySeq
<1> HIDE DEF u
<1>4. /\ Len(u) = n + m
      /\ \A i \in 1 .. n : u[i] = q[i]
      /\ \A i \in n + 1 .. n + m : u[i] = x + ((i - n) - 1)
  <2>1. \A i \in 1 .. n : u[i] = q[i]
    BY <1>2, <1>3
  <2>2. ASSUME NEW i \in n + 1 .. n + m
        PROVE  u[i] = x + ((i - n) - 1)
    <3>1. i \in 1 .. n + m /\ ~(i <= n) /\ i - n \in 1 .. m
      BY <1>3
    <3> QED
      BY <1>2, <3>1
  <2> QED
    BY <1>2, <2>1, <2>2
<1>5. ASSUME NEW i \in 1 .. Len(u) - 1
      PROVE  u[i + 1] = u[i] + 1
  <2>1. CASE i < n
    <3>1. q[i + 1] = q[i] + 1
      BY <1>3, <2>1 DEF Gapless
    <3>2. i \in 1 .. n /\ i + 1 \in 1 .. n
      BY <1>3, <2>1
    <3> QED
      BY <1>4, <3>1, <3>2
  <2>2. CASE i = n
    <3>1. q # << >> /\ i \in 1 .. n /\ i + 1 \in n + 1 .. n + m
      BY <1>3, <1>4, <2>2
    <3>2. u[i] = x - 1
      BY <1>4, <2>2, <3>1 DEF Upto
    <3>3. u[i + 1] = x + (((i + 1) - n) - 1)
      BY <1>4, <3>1
    <3>4. x + (((i + 1) - n) - 1) = x
      BY <1>3, <2>2
    <3> QED
      BY <3>2, <3>3, <3>4
  <2>3. CASE i > n
    <3>1. i \in n + 1 .. n + m /\ i + 1 \in n + 1 .. n + m
      BY <1>3, <1>4, <2>3
    <3>2. u[i] = x + ((i - n) - 1) /\ u[i + 1] = x + (((i + 1) - n) - 1)
      BY <1>4, <3>1
    <3> QED
      BY <1>3, <3>2
  <2>4. i < n \/ i = n \/ i > n
    BY <1>3
  <2> QED
    BY <2>1, <2>2, <2>3, <2>4
<1>6. ASSUME d = 0, u # << >>
      PROVE  u[1] = 1
  <2>1. CASE n = 0
    <3>1. x = 1 /\ 1 \in n + 1 .. n + m
      BY <1>3, <1>4, <1>6, <2>1 DEF Upto
    <3>2. u[1] = x + ((1 - n) - 1)
      BY <1>4, <3>1
    <3> QED
      BY <2>1, <3>1, <3>2
  <2>2. CASE n # 0
    <3>1. 1 \in 1 .. n /\ q # << >>
      BY <1>3, <2>2
    <3> QED
      BY <1>4, <1>6, <3>1 DEF Gapless
  <2> QED
    BY <2>1, <2>2
<1>7. Upto(d, u, x + m)
  <2>1. CASE u = << >>
    <3>1. n = 0 /\ m = 0
      BY <1>3, <1>4, <2>1
    <3> QED
      BY <1>3, <2>1, <3>1 DEF Upto
  <2>2. CASE u # << >> /\ m = 0
    <3>1. n # 0 /\ Len(u) = n /\ n \in 1 .. n
      BY <1>3, <1>4, <2>2
    <3>2. u[Len(u)] = q[n] /\ q # << >>
      BY <1>3, <1>4, <3>1
    <3> QED
      BY <2>2, <3>2 DEF Upto
  <2>3. CASE m # 0
    <3>1. n + m \in n + 1 .. n + m /\ Len(u) = n + m /\ u # << >>
      BY <1>3, <1>4, <2>3
    <3>2. u[Len(u)] = x + (((n + m) - n) - 1)
      BY <1>4, <3>1
    <3>3. x + (((n + m) - n) - 1) = x + m - 1
      BY <1>3
    <3> QED
      BY <3>1, <3>2, <3>3 DEF Upto
  <2> QED
    BY <2>1, <2>2, <2>3
<1> QED
  BY <1>5, <1>6, <1>7 DEF Gapless, u

\* A session whose flow and parsers a step leaves alone is followed as before.
LEMMA OtherKept ==
  ASSUME NEW r \in Sessions, PendingOwn(r), Following(r),
         flows'[Key(r)] = flows[Key(r)],
         streams'[Tup(Key(r))] = streams[Tup(Key(r))],
         Tup(Key(r)) \in open' => Tup(Key(r)) \in open
  PROVE  (PendingOwn(r) /\ Following(r))'
<1> DEFINE k == Key(r)
           t == Tup(Key(r))
<1>1. PendingOwn(r)'
  BY DEF PendingOwn
<1>2. /\ flows'[k].state = flows[k].state /\ flows'[k].fseq = flows[k].fseq
      /\ streams'[t] = streams[t]
  OBVIOUS
<1>3. Following(r)'
  BY <1>2 DEF Following
<1> QED
  BY <1>1, <1>3

\* The property, stream by stream.
LEMMA StreamsAre ==
  StreamsContiguous <=> \A t \in Tups : \A d \in Dirs : Gapless(d, streams[t][d])
BY DEF StreamsContiguous, Gapless

\* The sessions that a step is not about.
LEMMA OthersKept ==
  ASSUME TupsApart, SInv, NEW s \in Sessions,
         \A k \in Keys : k # Key(s) => flows'[k] = flows[k],
         \A t \in Tups : t # Tup(Key(s)) => streams'[t] = streams[t],
         open' \subseteq open \cup {Tup(Key(s))}
  PROVE  \A r \in Sessions : r # s => (PendingOwn(r) /\ Following(r))'
<1> SUFFICES ASSUME NEW r \in Sessions, r # s
             PROVE  (PendingOwn(r) /\ Following(r))'
  OBVIOUS
<1>1. Tup(Key(r)) # Tup(Key(s)) /\ Key(r) # Key(s)
  BY OwnKey DEF TupsApart, Tup, Key
<1>2. Key(r) \in Keys /\ Tup(Key(r)) \in Tups
  BY OwnKey
<1>3. PendingOwn(r) /\ Following(r)
  BY DEF SInv
<1> QED
  BY <1>1, <1>2, <1>3, OtherKept
-----------------------------------------------------------------------------
(* The handlers keep the flows and the parsers in step. *)

\* A session opens: the initiator's data begin after its SYN, and nothing is
\* read before them.
LEMMA OpenFollows ==
  ASSUME TupsApart, SInv, NEW s \in Sessions, NEW d \in Dirs, NEW n \in Nat,
         NEW p \in Outgoing(s, d, n), p.type = "SYN", NEW still \in SUBSET open,
         OpenFlow(p, still)
  PROVE  (\A r \in Sessions : PendingOwn(r) /\ Following(r))' /\ StreamsContiguous'
<1> DEFINE key == Key(s)
           t == Tup(key)
           none == [c \in Dirs |-> << >>]
<1>1. d = 0 /\ p.src = s.ini /\ p.dst = s.acc /\ p.connid = s.connid /\ p.seq = s.isn[0]
  BY OutgoingForms DEF From
<1>2. key \in Keys /\ t \in Tups /\ t = <<s.ini, s.acc>>
  BY OwnKey
<1>3. /\ flows' = [flows EXCEPT ![key] = NewFlow(p)]
      /\ open' = still \cup {t}
      /\ streams' = [streams EXCEPT ![t] = none]
  BY <1>1, <1>2 DEF OpenFlow, Key
<1>4. flows \in [Keys -> Flows] /\ streams \in [Tups -> [Dirs -> Seq(Payloads)]]
  BY DEF SInv, TracerInv, TypeOK
<1>5. /\ flows'[key] = NewFlow(p) /\ streams'[t] = none
      /\ \A k \in Keys : k # key => flows'[k] = flows[k]
      /\ \A u \in Tups : u # t => streams'[u] = streams[u]
  BY <1>2, <1>3, <1>4
<1>6. DataSeq(s, 0, 1) = SerialAdd(s.isn[0], 1)
  BY DEF DataSeq
<1>7. /\ NewFlow(p).state = "HANDSHAKE" /\ NewFlow(p).pending = {}
      /\ NewFlow(p).fseq[0] = DataSeq(s, 0, 1)
  BY <1>1, <1>6 DEF NewFlow, Dirs
<1>8. (PendingOwn(s) /\ Following(s))'
  <2>1. PendingOwn(s)'
    BY <1>5, <1>7 DEF PendingOwn
  <2>2. Following(s)'
    BY <1>5, <1>7 DEF Following
  <2> QED
    BY <2>1, <2>2
<1>9. \A r \in Sessions : r # s => (PendingOwn(r) /\ Following(r))'
  BY <1>3, <1>5, OthersKept
<1>10. StreamsContiguous'
  <2>1. ASSUME NEW u \in Tups, NEW c \in Dirs
        PROVE  Gapless(c, streams'[u][c])
    <3>1. CASE u = t
      BY <1>5, <3>1 DEF Gapless
    <3>2. CASE u # t
      BY <1>5, <3>2, StreamsAre DEF SInv
    <3> QED
      BY <3>1, <3>2
  <2> QED
    BY <2>1 DEF StreamsContiguous, Gapless
<1> QED
  BY <1>8, <1>9, <1>10

\* The accepter's answer: its data begin at the number that the answer carries,
\* or after the packets that came before the answer that was captured.
LEMMA AnswerFollows ==
  ASSUME IdsApart, TupsApart, SInv, NEW s \in Sessions, NEW d \in Dirs, NEW n \in Nat,
         NEW p \in Outgoing(s, d, n), SynAck(p)
  PROVE  (\A r \in Sessions : PendingOwn(r) /\ Following(r))' /\ StreamsContiguous'
<1> DEFINE key == Key(s)
           t == Tup(key)
<1>1. Known(p) /\ Found(p) = key /\ d = 1 /\ p.type = "STATE" /\ flows[key].state = "HANDSHAKE"
  BY OwnPacket DEF SInv, SynAck, In
<1>2. PICK x \in 1 .. NumPackets + 1 : p.seq = DataSeq(s, 1, x)
  BY <1>1, OutgoingForms
<1>3. key \in Keys /\ t \in Tups
  BY OwnKey
<1>4. flows \in [Keys -> Flows] /\ streams \in [Tups -> [Dirs -> Seq(Payloads)]]
  BY DEF SInv, TracerInv, TypeOK
<1>5. /\ flows' = [flows EXCEPT ![key].state = "SYN_ACKED", ![key].fseq[1] = p.seq]
      /\ UNCHANGED <<open, streams>>
  BY <1>1 DEF SynAck
<1>6. /\ flows'[key].state = "SYN_ACKED" /\ flows'[key].pending = flows[key].pending
      /\ flows'[key].fseq[0] = flows[key].fseq[0] /\ flows'[key].fseq[1] = p.seq
      /\ \A k \in Keys : k # key => flows'[k] = flows[k]
  <2>1. flows[key] \in Flows
    BY <1>3, <1>4
  <2>2. flows[key].fseq \in [Dirs -> Serial]
    BY <2>1 DEF Flows
  <2> QED
    BY <1>3, <1>4, <1>5, <2>1, <2>2 DEF Flows, Dirs
<1>7. PendingOwn(s) /\ Following(s)
  BY DEF SInv
<1>8. (PendingOwn(s) /\ Following(s))'
  <2>1. PendingOwn(s)'
    BY <1>6, <1>7 DEF PendingOwn
  <2>2. /\ flows[key].fseq[0] = DataSeq(s, 0, 1)
        /\ t \in open => streams[t] = [c \in Dirs |-> << >>]
    BY <1>1, <1>7 DEF Following
  <2>3. 1 \in 1 .. NumPackets + 1
    BY SessionAssumption
  <2>4. ASSUME NEW c \in Dirs
        PROVE  \E y \in 1 .. NumPackets + 1 :
                 flows'[key].fseq[c] = DataSeq(s, c, y) /\ (t \in open => Upto(c, streams[t][c], y))
    <3>1. CASE c = 0
      BY <1>6, <2>2, <2>3, <3>1 DEF Upto, Dirs
    <3>2. CASE c = 1
      BY <1>2, <1>6, <2>2, <3>2 DEF Upto, Dirs
    <3> QED
      BY <3>1, <3>2 DEF Dirs
  <2>5. Following(s)'
    BY <1>5, <1>6, <2>4 DEF Following
  <2> QED
    BY <2>1, <2>5
<1>9. \A r \in Sessions : r # s => (PendingOwn(r) /\ Following(r))'
  BY <1>5, <1>6, OthersKept
<1>10. StreamsContiguous'
  BY <1>5 DEF SInv, StreamsContiguous
<1> QED
  BY <1>8, <1>9, <1>10

\* A packet that only moves the state machine on.
LEMMA BecomeFollows ==
  ASSUME IdsApart, TupsApart, SInv, NEW s \in Sessions, NEW d \in Dirs, NEW n \in Nat,
         NEW p \in Outgoing(s, d, n), Known(p),
         flows[Found(p)].state \notin {"INIT", "HANDSHAKE"},
         NEW state \in States \ {"INIT", "HANDSHAKE"}, Become(p, state)
  PROVE  (\A r \in Sessions : PendingOwn(r) /\ Following(r))' /\ StreamsContiguous'
<1> DEFINE key == Key(s)
           t == Tup(key)
<1>1. Found(p) = key
  BY OwnPacket DEF SInv
<1>2. key \in Keys /\ t \in Tups
  BY OwnKey
<1>3. flows \in [Keys -> Flows]
  BY DEF SInv, TracerInv, TypeOK
<1>4. flows' = [flows EXCEPT ![key].state = state] /\ UNCHANGED <<open, streams>>
  BY <1>1 DEF Become
<1>5. /\ flows'[key].state = state /\ flows'[key].pending = flows[key].pending
      /\ flows'[key].fseq = flows[key].fseq
      /\ \A k \in Keys : k # key => flows'[k] = flows[k]
  BY <1>2, <1>3, <1>4 DEF Flows
<1>6. PendingOwn(s) /\ Following(s)
  BY DEF SInv
<1>7. PendingOwn(s)'
  BY <1>5, <1>6 DEF PendingOwn
<1>8. Following(s)'
  BY <1>1, <1>4, <1>5, <1>6 DEF Following
<1>9. \A r \in Sessions : r # s => (PendingOwn(r) /\ Following(r))'
  BY <1>4, <1>5, OthersKept
<1>10. StreamsContiguous'
  BY <1>4 DEF SInv, StreamsContiguous
<1> QED
  BY <1>7, <1>8, <1>9, <1>10

\* A data packet: what it hands to the parsers goes on where they were.
LEMMA SegmentFollows ==
  ASSUME IdsApart, TupsApart, NumPackets < Modulo, SInv,
         NEW s \in Sessions, NEW d \in Dirs, NEW n \in Nat,
         NEW p \in Outgoing(s, d, n), p.type = "DATA", Known(p),
         flows[Found(p)].state \notin {"INIT", "HANDSHAKE"},
         NEW state \in States \ {"INIT", "HANDSHAKE"}, AddSegment(p, state),
         open' \subseteq open
  PROVE  (\A r \in Sessions : PendingOwn(r) /\ Following(r))' /\ StreamsContiguous'
<1> DEFINE key == Key(s)
           t == Tup(key)
           flow == flows[key]
           e == [dir |-> d, seq |-> p.seq, data |-> p.data]
           bumped == Bumped(flow.fseq, e)
           parked == Parked(flow.fseq, flow.pending, e)
           At(c, y) == flow.fseq[c] = DataSeq(s, c, y) /\ (t \in open => Upto(c, streams[t][c], y))
           x == [c \in Dirs |-> CHOOSE y \in 1 .. NumPackets + 1 : At(c, y)]
<1>1. Found(p) = key /\ Dir(p) = d
  BY OwnPacket DEF SInv
<1>2. key \in Keys /\ t \in Tups
  BY OwnKey
<1>3. /\ flows \in [Keys -> Flows] /\ streams \in [Tups -> [Dirs -> Seq(Payloads)]]
      /\ PendingOwn(s) /\ Following(s) /\ StreamsContiguous
  BY DEF SInv, TracerInv, TypeOK
<1>4. /\ flow \in Flows /\ flow.fseq \in [Dirs -> Serial]
      /\ flow.pending \subseteq Entries /\ flow.state \notin {"INIT", "HANDSHAKE"}
  BY <1>1, <1>2, <1>3 DEF Flows
<1>5. \A c \in Dirs : \E y \in 1 .. NumPackets + 1 : At(c, y)
  BY <1>3, <1>4 DEF Following
<1>6. x \in [Dirs -> 1 .. NumPackets + 1] /\ \A c \in Dirs : At(c, x[c])
  BY <1>5
<1>7. PICK run \in Runs :
        /\ IsRun(bumped, parked, run)
        /\ flows' = [flows EXCEPT ![key] =
                       [state |-> state, fseq |-> Advanced(bumped, run),
                        pending |-> Remaining(bumped, parked, run)]]
        /\ streams' = IF t \notin open THEN streams
             ELSE [streams EXCEPT ![t] =
                     [c \in Dirs |-> @[c] \o Handed(flow.fseq, flow.pending, e, run, c)]]
  BY <1>1 DEF AddSegment
<1>8. /\ flows'[key].state = state /\ flows'[key].fseq = Advanced(bumped, run)
      /\ flows'[key].pending = Remaining(bumped, parked, run)
      /\ \A k \in Keys : k # key => flows'[k] = flows[k]
  BY <1>2, <1>3, <1>7
<1>9. /\ t \notin open => streams' = streams
      /\ t \in open =>
           \A c \in Dirs :
             streams'[t][c] = streams[t][c] \o Handed(flow.fseq, flow.pending, e, run, c)
      /\ \A u \in Tups : u # t => streams'[u] = streams[u]
  BY <1>2, <1>3, <1>7
<1>10. \A q \in flow.pending : OwnEntry(s, q)
  <2>1. \A q \in flow.pending : q.dir \in Dirs
    BY <1>4 DEF Entries
  <2> QED
    BY <1>3, <2>1 DEF PendingOwn, OwnEntry
<1>11. OwnEntry(s, e)
  BY OutgoingForms DEF OwnEntry
<1> HIDE DEF x
<1>12. /\ \A q \in Remaining(bumped, parked, run) : OwnEntry(s, q)
       /\ \A c \in Dirs : \E m \in Nat :
            /\ x[c] + m <= NumPackets + 1
            /\ Advanced(bumped, run)[c] = DataSeq(s, c, x[c] + m)
            /\ Handed(flow.fseq, flow.pending, e, run, c) \in Seq(Nat)
            /\ Len(Handed(flow.fseq, flow.pending, e, run, c)) = m
            /\ \A i \in 1 .. m : Handed(flow.fseq, flow.pending, e, run, c)[i] = x[c] + (i - 1)
  <2> DEFINE fseq == flow.fseq
             pending == flow.pending
  <2>1. \A c \in Dirs : fseq[c] = DataSeq(s, c, x[c])
    BY <1>6
  <2>2. IsRun(Bumped(fseq, e), Parked(fseq, pending, e), run)
    BY <1>7
  <2>3. /\ fseq \in [Dirs -> Serial] /\ x \in [Dirs -> 1 .. NumPackets + 1]
        /\ \A q \in pending : OwnEntry(s, q)
    BY <1>4, <1>6, <1>10
  <2> HIDE DEF e, fseq, pending
  <2>4. ReadsOn(s, fseq, pending, x, e, run)
    BY <1>11, <2>1, <2>2, <2>3, SegmentOwn
  <2> QED
    BY <2>4 DEF ReadsOn, fseq, pending
<1> HIDE DEF e, flow, key, bumped, parked
<1>13. PendingOwn(s)'
  BY <1>8, <1>12 DEF PendingOwn, OwnEntry, key
<1>14. ASSUME NEW c \in Dirs
       PROVE  /\ \E y \in 1 .. NumPackets + 1 :
                   /\ flows'[key].fseq[c] = DataSeq(s, c, y)
                   /\ t \in open => Upto(c, streams'[t][c], y)
              /\ Gapless(c, streams'[t][c])
  <2> DEFINE h == Handed(flow.fseq, flow.pending, e, run, c)
  <2>1. PICK m \in Nat :
          /\ x[c] + m <= NumPackets + 1
          /\ Advanced(bumped, run)[c] = DataSeq(s, c, x[c] + m)
          /\ h \in Seq(Nat) /\ Len(h) = m
          /\ \A i \in 1 .. m : h[i] = x[c] + (i - 1)
    BY <1>12
  <2>2. x[c] \in Nat /\ x[c] + m \in 1 .. NumPackets + 1
    <3>1. x[c] \in 1 .. NumPackets + 1 /\ NumPackets \in Nat
      BY <1>6, SessionAssumption
    <3> QED
      BY <2>1, <3>1
  <2>3. flows'[key].fseq[c] = DataSeq(s, c, x[c] + m)
    BY <1>8, <2>1
  <2>4. streams[t][c] \in Seq(Payloads) /\ Gapless(c, streams[t][c])
    BY <1>2, <1>3, StreamsAre
  <2>5. CASE t \in open
    <3>1. Upto(c, streams[t][c], x[c])
      BY <1>6, <2>5
    <3> HIDE DEF h
    <3>2. Gapless(c, streams[t][c] \o h) /\ Upto(c, streams[t][c] \o h, x[c] + m)
      BY <2>1, <2>2, <2>4, <3>1, ReadOn
    <3>3. streams'[t][c] = streams[t][c] \o h
      BY <1>9, <2>5 DEF h
    <3> QED
      BY <2>2, <2>3, <3>2, <3>3
  <2>6. CASE t \notin open
    BY <1>9, <2>2, <2>3, <2>4, <2>6
  <2> QED
    BY <2>5, <2>6
<1>15. Following(s)'
  <2>1. flows'[key].state \notin {"INIT", "HANDSHAKE"}
    BY <1>8
  <2>2. t \in open' => t \in open
    OBVIOUS
  <2> QED
    BY <1>14, <2>1, <2>2 DEF Following, key
<1>16. \A r \in Sessions : r # s => (PendingOwn(r) /\ Following(r))'
  BY <1>8, <1>9, OthersKept DEF key
<1>17. StreamsContiguous'
  <2>1. ASSUME NEW u \in Tups, NEW c \in Dirs
        PROVE  Gapless(c, streams'[u][c])
    <3>1. CASE u = t
      BY <1>14, <3>1
    <3>2. CASE u # t
      BY <1>3, <1>9, <3>2, StreamsAre
    <3> QED
      BY <3>1, <3>2
  <2> QED
    BY <2>1 DEF StreamsContiguous, Gapless
<1> QED
  BY <1>13, <1>15, <1>16, <1>17

\* A step that touches no flow and no stream, and at most closes parsers.
LEMMA NothingFollows ==
  ASSUME SInv, UNCHANGED <<flows, streams>>, open' \subseteq open
  PROVE  (\A r \in Sessions : PendingOwn(r) /\ Following(r))' /\ StreamsContiguous'
<1>1. ASSUME NEW r \in Sessions
      PROVE  (PendingOwn(r) /\ Following(r))'
  BY OtherKept DEF SInv
<1>2. StreamsContiguous'
  BY DEF SInv, StreamsContiguous
<1> QED
  BY <1>1, <1>2

\* No handler that a session's packet reaches disturbs the invariant.
LEMMA SInvKept ==
  ASSUME IdsApart, TupsApart, NumPackets < Modulo, SInv, TracerInv', OwnFlows',
         NEW s \in Sessions, NEW d \in Dirs, NEW n \in Nat,
         NEW p \in Outgoing(s, d, n), p \in Packets, Trace(p)
  PROVE  SInv'
<1>1. (\A r \in Sessions : PendingOwn(r) /\ Following(r))' /\ StreamsContiguous'
  <2>1. CASE UNCHANGED <<flows, streams>> /\ open' \subseteq open
    BY <2>1, NothingFollows
  <2>2. CASE p.type = "SYN" /\ \E still \in SUBSET open : OpenFlow(p, still)
    BY <2>2, OpenFollows
  <2>3. CASE SynAck(p)
    BY <2>3, AnswerFollows
  <2>4. ASSUME Known(p), flows[Found(p)].state \notin {"INIT", "HANDSHAKE"},
               NEW state \in States \ {"INIT", "HANDSHAKE"}, Become(p, state)
        PROVE  (\A r \in Sessions : PendingOwn(r) /\ Following(r))' /\ StreamsContiguous'
    BY <2>4, BecomeFollows
  <2>5. ASSUME Known(p), flows[Found(p)].state \notin {"INIT", "HANDSHAKE"},
               NEW state \in States \ {"INIT", "HANDSHAKE"},
               p.type = "DATA", AddSegment(p, state), open' \subseteq open
        PROVE  (\A r \in Sessions : PendingOwn(r) /\ Following(r))' /\ StreamsContiguous'
    BY <2>5, SegmentFollows
  <2>6. TracerInv
    BY DEF SInv
  <2> QED
    BY <2>1, <2>2, <2>3, <2>4, <2>5, <2>6, TraceCases
<1> QED
  BY <1>1 DEF SInv

\* The sessions' flows and their parsers keep in step.
THEOREM SessionFollowed ==
  ASSUME IdsApart, TupsApart, NumPackets < Modulo
  PROVE  SessionSpec => []SInv
<1>1. SessionInit => SInv
  <2> SUFFICES ASSUME SessionInit
               PROVE  SInv
    OBVIOUS
  <2>1. /\ flows = [k \in Keys |-> NoFlow] /\ open = {}
        /\ streams = [t \in Tups |-> [c \in Dirs |-> << >>]]
    BY DEF SessionInit, Init
  <2>2. TracerInv
    BY InitInv DEF SessionInit
  <2>3. OwnFlows
    BY <2>1 DEF OwnFlows, NoFlow
  <2>4. ASSUME NEW s \in Sessions
        PROVE  PendingOwn(s) /\ Following(s)
    <3>1. flows[Key(s)].state = "INIT" /\ flows[Key(s)].pending = {}
      BY <2>1, OwnKey DEF NoFlow
    <3> QED
      BY <3>1 DEF PendingOwn, Following
  <2>5. StreamsContiguous
    BY <2>1 DEF StreamsContiguous
  <2> QED
    BY <2>2, <2>3, <2>4, <2>5 DEF SInv
<1>2. SInv /\ SentOK /\ TracerInv' /\ OwnFlows' /\ [SessionNext]_sessionVars => SInv'
  <2> SUFFICES ASSUME SInv, SentOK, TracerInv', OwnFlows', [SessionNext]_sessionVars
               PROVE  SInv'
    OBVIOUS
  <2>1. CASE UNCHANGED vars
    <3>1. UNCHANGED <<flows, streams>> /\ open' \subseteq open
      BY <2>1 DEF vars
    <3> QED
      BY <3>1, NothingFollows DEF SInv
  <2>2. ASSUME NEW s \in Sessions, NEW d \in Dirs, NEW p \in Outgoing(s, d, sent[s][d]),
               p \in Packets, Trace(p)
        PROVE  SInv'
    <3>1. sent[s][d] \in Nat
      BY SessionAssumption DEF SentOK, Done
    <3> QED
      BY <2>2, <3>1, SInvKept
  <2> QED
    BY <2>1, <2>2, SessionStep
<1> QED
  BY <1>1, <1>2, SessionIsTracing, SessionOwnFlows, TracerInvariant, PTL DEF SessionSpec

\* Where no two sessions share their endpoints, the ids of opposite ones are
\* apart and a stream is shorter than a round of the numbers, the parsers read
\* every session's packets in order and without a gap.
THEOREM SessionStreamsContiguous ==
  ASSUME IdsApart, TupsApart, NumPackets < Modulo
  PROVE  SessionSpec => []StreamsContiguous
<1>1. SInv => StreamsContiguous
  BY DEF SInv
<1> QED
  BY <1>1, SessionFollowed, PTL
-----------------------------------------------------------------------------
(* The gaps. *)

\* The data that an end has sent after n steps: the packets before the n-th.
LEMMA OutgoingData ==
  ASSUME NEW s \in Sessions, NEW d \in Dirs, NEW n \in Nat
  PROVE  /\ \A p \in Outgoing(s, d, n) : p.type = "DATA" => p.data \in 1 .. n - 1
         /\ \A k \in 1 .. NumPackets : k < n =>
              \E p \in Outgoing(s, d, n) : p.type = "DATA" /\ p.seq = DataSeq(s, d, k)
<1>1. ASSUME NEW p \in Outgoing(s, d, n), p.type = "DATA"
      PROVE  p.data \in 1 .. n - 1
  <2>1. \E k \in {i \in 1 .. NumPackets : i < n} :
          p = Pkt(s, d, "DATA", SendId(s, d), DataSeq(s, d, k), k)
    BY <1>1 DEF Outgoing, Pkt
  <2>2. p.data \in 1 .. NumPackets /\ p.data < n /\ NumPackets \in Nat
    BY <2>1, SessionAssumption DEF Pkt
  <2> QED
    BY <2>2
<1>2. ASSUME NEW k \in 1 .. NumPackets, k < n
      PROVE  \E p \in Outgoing(s, d, n) : p.type = "DATA" /\ p.seq = DataSeq(s, d, k)
  <2> DEFINE p == Pkt(s, d, "DATA", SendId(s, d), DataSeq(s, d, k), k)
  <2>1. p \in Outgoing(s, d, n)
    BY <1>2 DEF Outgoing
  <2>2. p.type = "DATA" /\ p.seq = DataSeq(s, d, k)
    BY DEF Pkt
  <2> QED
    BY <2>1, <2>2
<1> QED
  BY <1>1, <1>2

\* What waits in a session's flow has been sent.
PendingSent ==
  \A s \in Sessions : \A e \in flows[Key(s)].pending : e.data \in 1 .. sent[s][e.dir] - 1

\* A session's flow may be replaced by one in which no more waits than before, or
\* than a packet that has been sent.
LEMMA PendingSentMoved ==
  ASSUME TupsApart, PendingSent, flows \in [Keys -> Flows], UNCHANGED sent,
         NEW s \in Sessions, NEW d \in Dirs, NEW flow,
         flows' = [flows EXCEPT ![Key(s)] = flow],
         \A e \in flow.pending :
           e \in flows[Key(s)].pending \/ (e.dir = d /\ e.data \in 1 .. sent[s][d] - 1)
  PROVE  PendingSent'
<1> SUFFICES ASSUME NEW r \in Sessions, NEW e \in flows'[Key(r)].pending
             PROVE  e.data \in 1 .. sent[r][e.dir] - 1
  BY DEF PendingSent, Key
<1>1. Key(s) \in Keys /\ Key(r) \in Keys
  BY OwnKey
<1>2. CASE r = s
  <2>1. flows'[Key(s)] = flow
    BY <1>1
  <2> QED
    BY <1>2, <2>1 DEF PendingSent
<1>3. CASE r # s
  <2>1. Key(r) # Key(s)
    BY <1>3 DEF TupsApart, Key
  <2>2. flows'[Key(r)] = flows[Key(r)]
    BY <1>1, <2>1
  <2> QED
    BY <2>2 DEF PendingSent
<1> QED
  BY <1>2, <1>3

\* A handler puts no more into the pending list than the packet it is called with.
LEMMA PendingSentKept ==
  ASSUME IdsApart, TupsApart, TracerInv, OwnFlows, SentOK, PendingSent,
         NEW s \in Sessions, NEW d \in Dirs,
         NEW p \in Outgoing(s, d, sent[s][d]), p \in Packets, Trace(p), UNCHANGED sent
  PROVE  PendingSent'
<1> DEFINE key == Key(s)
           n == sent[s][d]
<1>1. flows \in [Keys -> Flows] /\ key \in Keys /\ n \in Nat
  BY OwnKey, SessionAssumption DEF TracerInv, TypeOK, SentOK, Done
<1>2. flows[key] \in Flows
  BY <1>1
<1>3. Known(p) => Found(p) = key /\ Dir(p) = d
  BY <1>1, OwnPacket
<1> HIDE DEF key, n
<1>4. CASE UNCHANGED <<flows, streams>>
  BY <1>4 DEF PendingSent, Key
<1>5. ASSUME p.type = "SYN", NEW still, OpenFlow(p, still)
      PROVE  PendingSent'
  <2>1. <<p.src, p.dst, p.connid>> = key
    BY <1>1, <1>5, OutgoingForms DEF Key, From, key, n
  <2>2. flows' = [flows EXCEPT ![key] = NewFlow(p)] /\ NewFlow(p).pending = {}
    BY <1>5, <2>1 DEF OpenFlow, NewFlow
  <2> QED
    BY <1>1, <2>2, PendingSentMoved DEF key
<1>6. CASE SynAck(p)
  <2> DEFINE new == [flows[key] EXCEPT !.state = "SYN_ACKED", !.fseq[1] = p.seq]
  <2>1. Found(p) = key
    BY <1>3, <1>6 DEF SynAck, In
  <2>2. flows' = [flows EXCEPT ![key] = new]
    BY <1>1, <1>6, <2>1 DEF SynAck
  <2>3. new.pending = flows[key].pending
    BY <1>2 DEF Flows
  <2> HIDE DEF new
  <2>4. \A e \in new.pending :
          e \in flows[key].pending \/ (e.dir = d /\ e.data \in 1 .. n - 1)
    BY <2>3
  <2> QED
    BY <1>1, <2>2, <2>4, PendingSentMoved DEF key, n
<1>7. ASSUME Known(p), NEW state, Become(p, state)
      PROVE  PendingSent'
  <2> DEFINE new == [flows[key] EXCEPT !.state = state]
  <2>1. flows' = [flows EXCEPT ![key] = new]
    BY <1>3, <1>7 DEF Become
  <2>2. new.pending = flows[key].pending
    BY <1>2 DEF Flows
  <2> HIDE DEF new
  <2>3. \A e \in new.pending :
          e \in flows[key].pending \/ (e.dir = d /\ e.data \in 1 .. n - 1)
    BY <2>2
  <2> QED
    BY <1>1, <2>1, <2>3, PendingSentMoved DEF key, n
<1>8. ASSUME Known(p), p.type = "DATA", NEW state, AddSegment(p, state)
      PROVE  PendingSent'
  <2> DEFINE flow == flows[key]
             e == [dir |-> d, seq |-> p.seq, data |-> p.data]
             bumped == Bumped(flow.fseq, e)
             parked == Parked(flow.fseq, flow.pending, e)
  <2>1. PICK run \in Runs :
          flows' = [flows EXCEPT ![key] =
                      [state |-> state, fseq |-> Advanced(bumped, run),
                       pending |-> Remaining(bumped, parked, run)]]
    BY <1>3, <1>8 DEF AddSegment
  <2> DEFINE new == [state |-> state, fseq |-> Advanced(bumped, run),
                     pending |-> Remaining(bumped, parked, run)]
  <2>2. new.pending \subseteq flow.pending \cup {e}
    BY DEF Remaining, Parked
  <2>3. e.dir = d /\ e.data \in 1 .. n - 1
    BY <1>1, <1>8, OutgoingData DEF n
  <2>4. flows' = [flows EXCEPT ![key] = new]
    BY <2>1
  <2> HIDE DEF new, e
  <2>5. \A x \in new.pending :
          x \in flows[key].pending \/ (x.dir = d /\ x.data \in 1 .. n - 1)
    BY <2>2, <2>3
  <2> QED
    BY <1>1, <2>4, <2>5, PendingSentMoved DEF key, n
<1> QED
  BY <1>4, <1>5, <1>6, <1>7, <1>8, TraceCases

\* In every direction what waits are packets that the peer has sent.
THEOREM SessionPendingSent ==
  ASSUME IdsApart, TupsApart
  PROVE  SessionSpec => []PendingSent
<1>1. SessionInit => PendingSent
  <2> SUFFICES ASSUME SessionInit, NEW s \in Sessions PROVE flows[Key(s)].pending = {}
    BY DEF PendingSent
  <2> QED
    BY OwnKey DEF SessionInit, Init, NoFlow
<1>2. TracerInv /\ SentOK /\ OwnFlows /\ PendingSent /\ [SessionNext]_sessionVars => PendingSent'
  <2> SUFFICES ASSUME TracerInv, SentOK, OwnFlows, PendingSent, [SessionNext]_sessionVars
               PROVE  PendingSent'
    OBVIOUS
  <2>1. CASE UNCHANGED sessionVars
    BY <2>1 DEF sessionVars, PendingSent, Key
  <2>2. ASSUME NEW s \in Sessions, NEW d \in Dirs, Send(s, d)
        PROVE  PendingSent'
    <3>1. \A r \in Sessions : \A c \in Dirs :
            sent[r][c] \in Int /\ sent'[r][c] \in Int /\ sent[r][c] <= sent'[r][c]
      BY <2>2, SessionAssumption DEF Send, SentOK, Done
    <3>2. ASSUME NEW r \in Sessions, NEW e \in flows[Key(r)].pending
          PROVE  e.data \in 1 .. sent'[r][e.dir] - 1
      <4>1. e.dir \in Dirs /\ e.data \in 1 .. sent[r][e.dir] - 1
        BY OwnKey DEF TracerInv, TypeOK, Flows, Entries, PendingSent
      <4> QED
        BY <3>1, <4>1
    <3> QED
      BY <2>2, <3>2 DEF Send, vars, PendingSent, Key
  <2>3. ASSUME NEW s \in Sessions, NEW d \in Dirs, NEW p \in Outgoing(s, d, sent[s][d]),
               Capture(p)
        PROVE  PendingSent'
    <3>1. p \in Packets
      BY OutgoingGrows DEF SentOK
    <3> QED
      BY <2>3, <3>1, PendingSentKept DEF Capture
  <2> QED
    BY <2>1, <2>2, <2>3 DEF SessionNext
<1> QED
  BY <1>1, <1>2, SessionIsTracing, SessionOwnFlows, TracerInvariant, PTL DEF SessionSpec

\* Where a session's numbers stay within half a ring, and sessions are apart, the
\* number a flow waits for is that of a data packet its peer has sent, so that
\* the gaps of a connection that is being closed can be filled (add_segment and
\* CS_PENDING_CLOSE).
THEOREM SessionGapsFillable ==
  ASSUME IdsApart, TupsApart, NumPackets < Half
  PROVE  SessionSpec => []GapsFillable
<1>1. NumPackets < Modulo
  BY ModuloType, HalfAssumption, SessionAssumption
<1>2. SInv /\ SentOK /\ PendingSent => GapsFillable
  <2> SUFFICES ASSUME SInv, SentOK, PendingSent, NEW s \in Sessions, NEW d \in Dirs, Gap(s, d)
               PROVE  Missing(s, d) # {}
    BY DEF GapsFillable
  <2> DEFINE flow == flows[Key(s)]
  <2>1. PICK e \in flow.pending : e.dir = d
    BY DEF Gap
  <2>2. Key(s) \in Keys
    BY OwnKey
  <2>3. e.data \in 1 .. NumPackets /\ e.seq = DataSeq(s, d, e.data)
    BY <2>1 DEF SInv, PendingOwn
  <2>4. flow.state \notin {"INIT", "HANDSHAKE"}
    BY <2>1, <2>2 DEF SInv, TracerInv, NothingBeforeAnswer
  <2>5. PICK x \in 1 .. NumPackets + 1 : flow.fseq[d] = DataSeq(s, d, x)
    BY <2>4 DEF SInv, Following
  <2>6. PICK n \in 1 .. Half : e.seq = SerialAdd(flow.fseq[d], n)
    BY <2>1, <2>2 DEF SInv, TracerInv, PendingBeyond
  <2>7. NumPackets \in Nat /\ sent[s][d] \in Nat /\ Half \in Int /\ x \in Int /\ n \in Int
    BY SessionAssumption, HalfAssumption DEF SentOK, Done
  <2>8. e.data < sent[s][d]
    <3>1. e.data \in 1 .. sent[s][d] - 1
      BY <2>1 DEF PendingSent
    <3> QED
      BY <2>7, <3>1
  <2>9. DataSeq(s, d, e.data) = DataSeq(s, d, x + n)
    BY <2>3, <2>5, <2>6, <2>7, DataSeqAdd
  <2>10. e.data = x + n
    <3>1. e.data \in Int /\ x + n \in Int /\ e.data - (x + n) < Modulo /\ (x + n) - e.data < Modulo
      BY <2>3, <2>7, ModuloType
    <3> QED
      BY <2>9, <3>1, DataSeqApart
  <2>11. x \in 1 .. NumPackets /\ x < sent[s][d]
    BY <2>3, <2>7, <2>10, <2>8
  <2>12. PICK p \in Outgoing(s, d, sent[s][d]) : p.type = "DATA" /\ p.seq = DataSeq(s, d, x)
    BY <2>7, <2>11, OutgoingData
  <2> QED
    BY <2>5, <2>12 DEF Missing
<1> QED
  BY <1>1, <1>2, SessionFollowed, SessionPendingSent, SessionIsTracing, PTL
=============================================================================

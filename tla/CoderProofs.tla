----------------------------- MODULE CoderProofs -----------------------------
(***************************************************************************)
(* The programs that encrypt and encode.                                   *)
(*                                                                         *)
(* The client and the server, for every number of texts, attempts and      *)
(* retries, and however TCP cuts the streams: what the client reports as   *)
(* delivered the server has printed, it finds the beginning and the end of *)
(* every message as long as none was sent in part, and it prints the texts *)
(* in their order, each at least once before the next.                     *)
(*                                                                         *)
(* The affine cipher, for every file, key and set of known words: what it  *)
(* decrypts is what was encrypted, and what its analysis prints is what    *)
(* the key it has chosen makes of the line.                                *)
(*                                                                         *)
(* The LDPC coder, for every length of the message, parity check matrix    *)
(* and message: what is sent passes every check, and a code word is        *)
(* decoded to the message that it is the code word of.                     *)
(***************************************************************************)
EXTENDS HybridChannel, AffineCipher, LdpcCode, SequenceTheorems, SetInduction

AckParts == [attempt : Attempts, part : {1, 2}]

\* The server acknowledges what it has printed, so that the parts on their way
\* to the client name attempts it has printed.
AcksOfPrinted ==
  \A i \in 1 .. Len(toClient) : toClient[i].attempt \in ToSet(printed)

CInv ==
  /\ toClient \in Seq(AckParts)
  /\ printed \in Seq(Attempts)
  /\ AcksOfPrinted
  /\ DeliveredPrinted
-----------------------------------------------------------------------------
(* Sequences and sets. *)

\* The members of a concatenation are those of its parts: what is printed stays
\* printed.
LEMMA ToSetGrows ==
  ASSUME NEW S, NEW s \in Seq(S), NEW t \in Seq(S)
  PROVE  ToSet(s \o t) = ToSet(s) \cup ToSet(t)
<1>1. /\ s \o t \in Seq(S)
      /\ Len(s \o t) = Len(s) + Len(t)
      /\ \A i \in 1 .. Len(s) + Len(t) :
           (s \o t)[i] = IF i <= Len(s) THEN s[i] ELSE t[i - Len(s)]
  BY ConcatProperties
<1>2. Len(s) \in Nat /\ Len(t) \in Nat
  BY LenProperties
<1>3. /\ DOMAIN (s \o t) = 1 .. Len(s) + Len(t)
      /\ DOMAIN s = 1 .. Len(s) /\ DOMAIN t = 1 .. Len(t)
  BY <1>1, LenProperties
<1>4. ASSUME NEW x \in ToSet(s \o t)
      PROVE  x \in ToSet(s) \cup ToSet(t)
  <2>1. PICK i \in 1 .. Len(s) + Len(t) : x = (s \o t)[i]
    BY <1>3 DEF ToSet
  <2>2. CASE i <= Len(s)
    BY <1>1, <1>2, <1>3, <2>1, <2>2 DEF ToSet
  <2>3. CASE i > Len(s)
    <3>1. i - Len(s) \in 1 .. Len(t) /\ x = t[i - Len(s)]
      BY <1>1, <1>2, <2>1, <2>3
    <3> QED
      BY <1>3, <3>1 DEF ToSet
  <2> QED
    BY <1>2, <2>1, <2>2, <2>3
<1>5. ASSUME NEW x \in ToSet(s)
      PROVE  x \in ToSet(s \o t)
  <2>1. PICK i \in 1 .. Len(s) : x = s[i]
    BY <1>3 DEF ToSet
  <2>2. i \in 1 .. Len(s) + Len(t) /\ (s \o t)[i] = x
    BY <1>1, <1>2, <2>1
  <2> QED
    BY <1>3, <2>2 DEF ToSet
<1>6. ASSUME NEW x \in ToSet(t)
      PROVE  x \in ToSet(s \o t)
  <2>1. PICK i \in 1 .. Len(t) : x = t[i]
    BY <1>3 DEF ToSet
  <2>2. Len(s) + i \in 1 .. Len(s) + Len(t) /\ (s \o t)[Len(s) + i] = x
    BY <1>1, <1>2, <2>1
  <2> QED
    BY <1>3, <2>2 DEF ToSet
<1> QED
  BY <1>4, <1>5, <1>6

\* What is left of a stream of which the first n parts are taken.
LEMMA RestOfSequence ==
  ASSUME NEW S, NEW s \in Seq(S), NEW n \in Nat, n <= Len(s)
  PROVE  /\ SubSeq(s, n + 1, Len(s)) \in Seq(S)
         /\ Len(SubSeq(s, n + 1, Len(s))) = Len(s) - n
         /\ \A i \in 1 .. Len(s) - n : SubSeq(s, n + 1, Len(s))[i] = s[n + i]
<1>1. Len(s) \in Nat /\ \A i \in 1 .. Len(s) : s[i] \in S
  BY LenProperties, ElementOfSeq
<1>2. n + 1 \in Int /\ Len(s) \in Int /\ \A i \in n + 1 .. Len(s) : s[i] \in S
  BY <1>1
<1>3. /\ SubSeq(s, n + 1, Len(s)) \in Seq(S)
      /\ Len(SubSeq(s, n + 1, Len(s))) = IF n + 1 <= Len(s) THEN Len(s) - (n + 1) + 1 ELSE 0
      /\ \A i \in 1 .. Len(s) - (n + 1) + 1 :
           SubSeq(s, n + 1, Len(s))[i] = s[(n + 1) + i - 1]
  BY <1>2, SubSeqProperties
<1>4. \A i \in 1 .. Len(s) - n : (n + 1) + i - 1 = n + i
  BY <1>1
<1> QED
  BY <1>1, <1>3, <1>4

\* The sequence of a set with at most one member holds that member.
LEMMA SetToSeqOfFew ==
  /\ SetToSeq({}) \in Seq({}) /\ ToSet(SetToSeq({})) = {}
  /\ \A a : SetToSeq({a}) \in Seq({a}) /\ ToSet(SetToSeq({a})) = {a}
<1>1. SetToSeq({}) \in Seq({}) /\ ToSet(SetToSeq({})) = {}
  <2>1. Cardinality({}) = 0
    BY FS_EmptySet
  <2>2. << >> \in [1 .. 0 -> {}] /\ IsInjective(<< >>)
    BY DEF IsInjective
  <2>3. SetToSeq({}) \in [1 .. 0 -> {}]
    BY <2>1, <2>2 DEF SetToSeq
  <2>4. SetToSeq({}) \in Seq({}) /\ DOMAIN SetToSeq({}) = {}
    BY <2>3
  <2> QED
    BY <2>4 DEF ToSet
<1>2. ASSUME NEW a
      PROVE  SetToSeq({a}) \in Seq({a}) /\ ToSet(SetToSeq({a})) = {a}
  <2>1. Cardinality({a}) = 1
    BY FS_Singleton
  <2> DEFINE one == [i \in 1 .. 1 |-> a]
  <2>2. one \in [1 .. 1 -> {a}] /\ IsInjective(one)
    BY DEF IsInjective
  <2>3. SetToSeq({a}) \in [1 .. 1 -> {a}]
    BY <2>1, <2>2 DEF SetToSeq
  <2> DEFINE q == SetToSeq({a})
  <2>4. q \in [1 .. 1 -> {a}]
    BY <2>3
  <2> HIDE DEF q
  <2>5. DOMAIN q = {1} /\ q[1] = a
    BY <2>4
  <2>6. q \in Seq({a})
    BY <2>4, 1 \in Nat, SeqDef
  <2> QED
    BY <2>5, <2>6 DEF ToSet, q
<1> QED
  BY <1>1, <1>2

\* ... and nothing but that member.
LEMMA SetToSeqIs ==
  SetToSeq({}) = << >> /\ \A a : SetToSeq({a}) = <<a>>
<1>1. SetToSeq({}) = << >>
  BY SetToSeqOfFew, EmptySeq
<1>2. ASSUME NEW a
      PROVE  SetToSeq({a}) = <<a>>
  <2> DEFINE q == SetToSeq({a})
  <2>1. q \in Seq({a}) /\ ToSet(q) = {a}
    BY SetToSeqOfFew
  <2>2. Cardinality({a}) = 1
    BY FS_Singleton
  <2> DEFINE one == [i \in 1 .. 1 |-> a]
  <2>3. one \in [1 .. 1 -> {a}] /\ IsInjective(one)
    BY DEF IsInjective
  <2>4. q \in [1 .. 1 -> {a}]
    BY <2>2, <2>3 DEF SetToSeq
  <2> HIDE DEF q
  <2>5. DOMAIN q = 1 .. 1 /\ q[1] = a
    BY <2>4
  <2>6. Len(q) = 1
    BY <2>1, <2>5, LenProperties
  <2>7. <<a>> \in Seq({a}) /\ Len(<<a>>) = 1 /\ <<a>>[1] = a
    OBVIOUS
  <2>8. q = <<a>>
    BY <2>1, <2>5, <2>6, <2>7, SeqEqual
  <2> QED
    BY <2>8 DEF q
<1> QED
  BY <1>1, <1>2

\* Two parts are read at a time.
LEMMA FirstTwo ==
  ASSUME NEW S, NEW s \in Seq(S), 2 <= Len(s)
  PROVE  SubSeq(s, 1, 2) = <<s[1], s[2]>>
<1> DEFINE f == SubSeq(s, 1, 2)
           p == <<s[1], s[2]>>
<1>1. Len(s) \in Nat /\ s[1] \in S /\ s[2] \in S
  BY LenProperties, ElementOfSeq
<1>2. \A i \in 1 .. 2 : s[i] \in S
  BY <1>1
<1>3. /\ f \in Seq(S)
      /\ Len(f) = IF 1 <= 2 THEN 2 - 1 + 1 ELSE 0
      /\ \A i \in 1 .. 2 - 1 + 1 : f[i] = s[1 + i - 1]
  BY <1>2, SubSeqProperties
<1>4. p \in Seq(S) /\ Len(p) = 2 /\ p[1] = s[1] /\ p[2] = s[2]
  BY <1>1
<1> HIDE DEF f, p
<1>5. Len(f) = Len(p) /\ \A i \in 1 .. Len(f) : f[i] = p[i]
  <2>1. Len(f) = 2 /\ \A i \in 1 .. 2 : f[i] = s[i]
    BY <1>3
  <2>2. \A i \in 1 .. 2 : i = 1 \/ i = 2
    OBVIOUS
  <2> QED
    BY <1>4, <2>1, <2>2
<1>6. f = p
  BY <1>3, <1>4, <1>5, SeqEqual
<1> QED
  BY <1>6 DEF f, p
-----------------------------------------------------------------------------
(* The steps. *)

\* At most one attempt has the parts that were read.
LEMMA ReadAtMostOne ==
  ASSUME NEW parts
  PROVE  LET read == {a \in Attempts : parts = MessageParts(a)}
         IN  read = {} \/ \E a \in Attempts : read = {a}
<1>1. \A a, b : MessageParts(a) = MessageParts(b) => a = b
  BY DEF MessageParts, Part
<1> QED
  BY <1>1

\* A message that was printed is acknowledged.
LEMMA ProcessKeeps ==
  ASSUME CInv, ProcessMessage
  PROVE  CInv'
<1> DEFINE read == {a \in Attempts : SubSeq(buf, 1, waitingFor) = MessageParts(a)}
<1>1. /\ printed' = printed \o SetToSeq(read)
      /\ toClient' = IF read = {} THEN toClient ELSE toClient \o Ack(Max(read))
      /\ delivered' = delivered
  BY DEF ProcessMessage, clientVars
<1>2. read = {} \/ \E a \in Attempts : read = {a}
  BY ReadAtMostOne
<1> HIDE DEF read
<1>3. SetToSeq(read) \in Seq(Attempts) /\ ToSet(SetToSeq(read)) = read
  <2>1. CASE read = {}
    <3>1. SetToSeq(read) \in Seq({}) /\ ToSet(SetToSeq(read)) = read
      BY <2>1, SetToSeqOfFew
    <3> QED
      BY <3>1, SeqMonotonic
  <2>2. ASSUME NEW a \in Attempts, read = {a}
        PROVE  SetToSeq(read) \in Seq(Attempts) /\ ToSet(SetToSeq(read)) = read
    <3>1. SetToSeq(read) \in Seq({a}) /\ ToSet(SetToSeq(read)) = read
      BY <2>2, SetToSeqOfFew
    <3>2. {a} \subseteq Attempts
      OBVIOUS
    <3> QED
      BY <3>1, <3>2, SeqMonotonic
  <2> QED
    BY <1>2, <2>1, <2>2
<1>4. printed' \in Seq(Attempts) /\ ToSet(printed') = ToSet(printed) \cup read
  <2>1. printed \in Seq(Attempts)
    BY DEF CInv
  <2>2. printed \o SetToSeq(read) \in Seq(Attempts)
    BY <1>3, <2>1, ConcatProperties
  <2>3. ToSet(printed \o SetToSeq(read)) = ToSet(printed) \cup ToSet(SetToSeq(read))
    BY <1>3, <2>1, ToSetGrows
  <2> QED
    BY <1>1, <1>3, <2>2, <2>3
<1>5. toClient' \in Seq(AckParts) /\ AcksOfPrinted'
  <2>1. CASE read = {}
    BY <1>1, <1>4, <2>1 DEF CInv, AcksOfPrinted
  <2>2. ASSUME NEW a \in Attempts, read = {a}
        PROVE  toClient' \in Seq(AckParts) /\ AcksOfPrinted'
    <3>1. Max(read) = a
      BY <2>2, BoundsAssumption DEF Max, Attempts
    <3>2. /\ Ack(a) \in Seq(AckParts) /\ Len(Ack(a)) = 2
          /\ Ack(a)[1].attempt = a /\ Ack(a)[2].attempt = a
      BY DEF Ack, Part, AckParts
    <3>3. toClient' = toClient \o Ack(a)
      BY <1>1, <2>2, <3>1
    <3>4. /\ toClient' \in Seq(AckParts)
          /\ Len(toClient') = Len(toClient) + 2
          /\ \A i \in 1 .. Len(toClient) + 2 :
               toClient'[i] = IF i <= Len(toClient) THEN toClient[i]
                              ELSE Ack(a)[i - Len(toClient)]
      <4> DEFINE ack == Ack(a)
      <4>1. toClient \in Seq(AckParts) /\ ack \in Seq(AckParts) /\ Len(ack) = 2
        BY <3>2 DEF CInv
      <4>2. toClient' = toClient \o ack
        BY <3>3
      <4> HIDE DEF ack
      <4>3. /\ toClient \o ack \in Seq(AckParts)
            /\ Len(toClient \o ack) = Len(toClient) + Len(ack)
            /\ \A i \in 1 .. Len(toClient) + Len(ack) :
                 (toClient \o ack)[i] = IF i <= Len(toClient) THEN toClient[i]
                                        ELSE ack[i - Len(toClient)]
        BY <4>1, ConcatProperties
      <4> QED
        BY <4>1, <4>2, <4>3 DEF ack
    <3>5. ASSUME NEW i \in 1 .. Len(toClient')
          PROVE  toClient'[i].attempt \in ToSet(printed')
      <4>1. Len(toClient) \in Nat
        BY LenProperties DEF CInv
      <4>2. CASE i <= Len(toClient)
        BY <1>4, <3>4, <4>1, <4>2 DEF CInv, AcksOfPrinted
      <4>3. CASE i > Len(toClient)
        <5>1. i - Len(toClient) \in {1, 2}
          BY <3>4, <4>1, <4>3
        <5>2. toClient'[i].attempt = a
          BY <3>2, <3>4, <4>1, <4>3, <5>1
        <5> QED
          BY <1>4, <2>2, <5>2
      <4> QED
        BY <3>4, <4>1, <4>2, <4>3
    <3> QED
      BY <3>4, <3>5 DEF AcksOfPrinted
  <2> QED
    BY <1>2, <2>1, <2>2
<1>6. DeliveredPrinted'
  BY <1>1, <1>4 DEF CInv, DeliveredPrinted
<1> QED
  BY <1>4, <1>5, <1>6 DEF CInv

\* What the client reads is taken from the front.
LEMMA RestKeeps ==
  ASSUME CInv, UNCHANGED printed, NEW n \in Nat, n <= Len(toClient),
         toClient' = SubSeq(toClient, n + 1, Len(toClient))
  PROVE  toClient' \in Seq(AckParts) /\ AcksOfPrinted'
<1>1. toClient \in Seq(AckParts) /\ Len(toClient) \in Nat
  BY LenProperties DEF CInv
<1>2. /\ toClient' \in Seq(AckParts)
      /\ Len(toClient') = Len(toClient) - n
      /\ \A i \in 1 .. Len(toClient) - n : toClient'[i] = toClient[n + i]
  BY <1>1, RestOfSequence
<1>3. ASSUME NEW i \in 1 .. Len(toClient')
      PROVE  toClient'[i].attempt \in ToSet(printed')
  <2>1. n + i \in 1 .. Len(toClient) /\ toClient'[i] = toClient[n + i]
    <3>1. i \in 1 .. Len(toClient) - n /\ Len(toClient) - n \in Nat
      BY <1>1, <1>2
    <3> QED
      BY <1>1, <1>2, <3>1
  <2> QED
    BY <2>1 DEF CInv, AcksOfPrinted
<1> QED
  BY <1>2, <1>3 DEF AcksOfPrinted

\* A piece of an acknowledgement is dropped, and nothing is reported.
LEMMA RecvShortKeeps ==
  ASSUME CInv, RecvShort
  PROVE  CInv'
<1>1. toClient # << >> /\ toClient' = Tail(toClient) /\ UNCHANGED <<printed, delivered>>
  BY DEF RecvShort, serverVars
<1>2. 1 <= Len(toClient) /\ toClient' = SubSeq(toClient, 1 + 1, Len(toClient))
  <2>1. toClient \in Seq(AckParts) /\ Len(toClient) \in Nat /\ Len(toClient) # 0
    BY <1>1, EmptySeq, LenProperties DEF CInv
  <2>2. Tail(toClient) = SubSeq(toClient, 2, Len(toClient))
    BY <1>1, <2>1, TailIsSubSeq
  <2> QED
    BY <1>1, <2>1, <2>2
<1>3. toClient' \in Seq(AckParts) /\ AcksOfPrinted'
  BY <1>1, <1>2, RestKeeps
<1> QED
  BY <1>1, <1>3 DEF CInv, DeliveredPrinted

\* Only the acknowledgement of an attempt counts as one, and it has been printed.
LEMMA RecvAckKeeps ==
  ASSUME CInv, RecvAck
  PROVE  CInv'
<1>1. /\ Len(toClient) >= 2 /\ UNCHANGED printed
      /\ delivered' = IF Answers(SubSeq(toClient, 1, 2)) THEN delivered \cup {Current}
                      ELSE delivered
      /\ toClient' = SubSeq(toClient, 3, Len(toClient))
  BY DEF RecvAck, serverVars
<1>2. toClient' \in Seq(AckParts) /\ AcksOfPrinted'
  BY <1>1, RestKeeps, 2 + 1 = 3
<1>3. DeliveredPrinted'
  <2>1. CASE Answers(SubSeq(toClient, 1, 2))
    <3>1. Len(toClient) \in Nat
      BY LenProperties DEF CInv
    <3>2. SubSeq(toClient, 1, 2)[1] = toClient[1]
      BY <1>1, <3>1 DEF CInv
    <3>3. SubSeq(toClient, 1, 2) = Ack(Current)
      BY <2>1 DEF Answers
    <3>4. Ack(Current)[1] = [attempt |-> Current, part |-> 1]
      BY DEF Ack, Part
    <3>5. toClient[1].attempt = Current
      BY <3>2, <3>3, <3>4
    <3>6. Current \in ToSet(printed)
      BY <1>1, <3>1, <3>5 DEF CInv, AcksOfPrinted
    <3> QED
      BY <1>1, <2>1, <3>6 DEF CInv, DeliveredPrinted
  <2>2. CASE ~Answers(SubSeq(toClient, 1, 2))
    BY <1>1, <2>2 DEF CInv, DeliveredPrinted
  <2> QED
    BY <2>1, <2>2
<1> QED
  BY <1>1, <1>2, <1>3 DEF CInv

\* The other steps touch neither the acknowledgements nor what was printed.
LEMMA StepKeeps ==
  ASSUME CInv, [ChannelNext]_channelVars
  PROVE  CInv'
<1> DEFINE Untouched == UNCHANGED <<toClient, printed, delivered>>
<1>1. ASSUME Untouched PROVE CInv'
  BY <1>1 DEF CInv, AcksOfPrinted, DeliveredPrinted
<1>2. CASE Client
  <2>1. CASE Enter
    BY <1>1, <2>1 DEF Enter, serverVars
  <2>2. CASE Send
    BY <1>1, <2>2 DEF Send, serverVars
  <2>3. ASSUME NEW n \in 0 .. 3, SendFails(n) PROVE CInv'
    BY <1>1, <2>3 DEF SendFails, serverVars
  <2>4. CASE RecvShort
    BY <2>4, RecvShortKeeps
  <2>5. CASE RecvAck
    BY <2>5, RecvAckKeeps
  <2>6. CASE RecvNothing
    BY <1>1, <2>6 DEF RecvNothing, serverVars
  <2>7. CASE RecvTimeout
    BY <1>1, <2>7 DEF RecvTimeout, serverVars
  <2> QED
    BY <1>2, <2>1, <2>2, <2>3, <2>4, <2>5, <2>6, <2>7 DEF Client
<1>3. CASE ServerStep
  <2>1. ASSUME NEW n \in 1 .. 4, Receive(n) PROVE CInv'
    BY <1>1, <2>1 DEF Receive, clientVars
  <2>2. CASE ReadLength
    BY <1>1, <2>2 DEF ReadLength, clientVars
  <2>3. CASE ProcessMessage
    BY <2>3, ProcessKeeps
  <2>4. CASE HandlerEnds
    BY <1>1, <2>4 DEF HandlerEnds, clientVars
  <2> QED
    BY <1>3, <2>1, <2>2, <2>3, <2>4 DEF ServerStep
<1>4. CASE UNCHANGED channelVars
  BY <1>1, <1>4 DEF channelVars, clientVars, serverVars
<1> QED
  BY <1>2, <1>3, <1>4 DEF ChannelNext
-----------------------------------------------------------------------------
\* Acknowledgements on their way, and what the client reports, are of attempts
\* that the server has printed.
THEOREM ChannelInvariant ==
  ChannelSpec => []CInv
<1>1. ChannelInit => CInv
  BY DEF ChannelInit, CInv, AcksOfPrinted, DeliveredPrinted
<1>2. CInv /\ [ChannelNext]_channelVars => CInv'
  BY StepKeeps
<1> QED
  BY <1>1, <1>2, PTL DEF ChannelSpec

\* "The message has been delivered" is never said of an attempt that the server
\* has not printed.
THEOREM ChannelDeliveredPrinted ==
  ChannelSpec => []DeliveredPrinted
<1>1. CInv => DeliveredPrinted
  BY DEF CInv
<1> QED
  BY <1>1, ChannelInvariant, PTL
-----------------------------------------------------------------------------
(* Framing.  What is on its way to the server is described part by part,   *)
(* and by where it begins and ends, for as long as the server reads it.    *)

Parts == [attempt : Attempts, part : 1 .. 4]

Incoming == buf \o toServer

LastIncoming == Incoming[Len(Incoming)]

\* The attempt that is printed next.
Turn == Len(printed) + 1

\* The part after x: the next one of its attempt, the first one of the next
\* attempt, or the first one again where x was the end of half a message.
Follows(x, y) ==
  \/ x.part < 4 /\ y = Part(x.attempt, x.part + 1)
  \/ x.part = 4 /\ y = Part(x.attempt + 1, 1)
  \/ torn /\ x.part < 4 /\ y = Part(x.attempt, 1)

Chained ==
  \A i \in 1 .. Len(Incoming) - 1 : Follows(Incoming[i], Incoming[i + 1])

\* The client's next part follows the last one.
Ends ==
  /\ Incoming # << >> =>
       /\ ~torn => LastIncoming.part = 4
       /\ pc \in {"ack", "input"} => LastIncoming = Part(Current, 4)
       /\ pc = "send" => \/ LastIncoming = Part(Current - 1, 4)
                         \/ LastIncoming.attempt = Current /\ LastIncoming.part < 4
  /\ Incoming = << >> /\ waitingFor = -1 =>
       /\ pc \in {"ack", "input"} => Current = Len(printed)
       /\ pc = "send" => Current = Turn

\* Between messages the server is at the beginning of the next attempt.  Where
\* it waits for a message, either that message comes next, or what comes does
\* not begin one and ends the handler.
Begins ==
  /\ waitingFor = -1 /\ Incoming # << >> => Incoming[1] = Part(Turn, 1)
  /\ waitingFor # -1 /\ Incoming # << >> =>
       \/ Incoming[1].part # 3
       \/ waitingFor = 2 /\ Incoming[1] = Part(Turn, 3)
  /\ waitingFor # -1 /\ ~torn =>
       Incoming # << >> /\ waitingFor = 2 /\ Incoming[1] = Part(Turn, 3)

Framing == serving => Chained /\ Ends /\ Begins

ChannelTypeOK ==
  /\ pc \in {"input", "send", "ack", "halted", "crashed"}
  /\ sent \in Seq(Nat) /\ Len(sent) <= MaxAttempts
  /\ buf \in Seq(Parts) /\ toServer \in Seq(Parts)
  /\ waitingFor \in {-1, 0, 1, 2, 3, Huge}
  /\ torn \in BOOLEAN /\ serving \in BOOLEAN
  /\ printed \in Seq(Attempts)
  /\ toClient \in Seq(AckParts)

\* The attempts repeat a text or go on to the next one.
TextsGrow ==
  /\ pc \in {"send", "ack"} => Len(sent) > 0
  /\ Len(sent) > 0 => sent[1] = 1
  /\ \A i \in 1 .. Len(sent) - 1 : sent[i + 1] = sent[i] \/ sent[i + 1] = sent[i] + 1
  /\ \A i, j \in 1 .. Len(sent) : i <= j => sent[i] <= sent[j]

\* No attempt is known to the server that was not made, and as long as it
\* understands what it reads it prints every one of them.
PrintedEach ==
  /\ \A i \in 1 .. Len(Incoming) : Incoming[i].attempt <= Current
  /\ Len(printed) <= Len(sent)
  /\ \A i \in 1 .. Len(printed) : printed[i] = i

FInv == ChannelTypeOK /\ TextsGrow /\ PrintedEach /\ Framing
-----------------------------------------------------------------------------
(* The stream, and how sending and reading change it. *)

\* The pieces of the stream are one sequence.
LEMMA IncomingType ==
  ASSUME ChannelTypeOK
  PROVE  /\ Incoming \in Seq(Parts)
         /\ Len(buf) \in Nat /\ Len(toServer) \in Nat /\ Len(Incoming) \in Nat
         /\ Len(Incoming) = Len(buf) + Len(toServer)
         /\ \A i \in 1 .. Len(Incoming) :
              /\ Incoming[i] \in Parts
              /\ Incoming[i] = IF i <= Len(buf) THEN buf[i] ELSE toServer[i - Len(buf)]
         /\ Incoming = << >> <=> Len(Incoming) = 0
<1>1. buf \in Seq(Parts) /\ toServer \in Seq(Parts)
  BY DEF ChannelTypeOK
<1>2. /\ Incoming \in Seq(Parts)
      /\ Len(Incoming) = Len(buf) + Len(toServer)
      /\ \A i \in 1 .. Len(buf) + Len(toServer) :
           Incoming[i] = IF i <= Len(buf) THEN buf[i] ELSE toServer[i - Len(buf)]
  BY <1>1, ConcatProperties DEF Incoming
<1>3. Len(buf) \in Nat /\ Len(toServer) \in Nat /\ Len(Incoming) \in Nat
  BY <1>1, <1>2, LenProperties
<1>4. \A i \in 1 .. Len(Incoming) : Incoming[i] \in Parts
  BY <1>2, ElementOfSeq
<1>5. Incoming = << >> <=> Len(Incoming) = 0
  BY <1>2, EmptySeq
<1> QED
  BY <1>2, <1>3, <1>4, <1>5

\* A part belongs to an attempt.
LEMMA PartFields ==
  ASSUME NEW x \in Parts
  PROVE  /\ x = Part(x.attempt, x.part)
         /\ x.attempt \in Nat /\ x.attempt > 0 /\ x.attempt \in Attempts /\ x.part \in 1 .. 4
BY BoundsAssumption DEF Parts, Part, Attempts

\* The bytes of an attempt, or as many of them as were sent.
LEMMA PayloadPrefix ==
  ASSUME NEW a \in Attempts, NEW n \in 0 .. 4
  PROVE  /\ Payload(a) \in Seq(Parts) /\ Len(Payload(a)) = 4
         /\ SubSeq(Payload(a), 1, n) \in Seq(Parts)
         /\ Len(SubSeq(Payload(a), 1, n)) = n
         /\ \A i \in 1 .. n : SubSeq(Payload(a), 1, n)[i] = Part(a, i)
<1> DEFINE q == <<Part(a, 1), Part(a, 2), Part(a, 3), Part(a, 4)>>
<1>1. \A i \in 1 .. 4 : Part(a, i) \in Parts
  BY DEF Part, Parts
<1>2. q \in Seq(Parts) /\ Len(q) = 4 /\ \A i \in 1 .. 4 : q[i] = Part(a, i)
  BY <1>1
<1>3. Payload(a) = q
  <2>1. Payload(a) = <<Part(a, 1), Part(a, 2)>> \o <<Part(a, 3), Part(a, 4)>>
    BY DEF Payload, LengthParts, MessageParts
  <2> DEFINE w == <<Part(a, 1), Part(a, 2)>>
             z == <<Part(a, 3), Part(a, 4)>>
  <2>2. /\ w \in Seq(Parts) /\ Len(w) = 2 /\ w[1] = q[1] /\ w[2] = q[2]
        /\ z \in Seq(Parts) /\ Len(z) = 2 /\ z[1] = q[3] /\ z[2] = q[4]
    BY <1>1
  <2> HIDE DEF w, z, q
  <2>3. /\ w \o z \in Seq(Parts)
        /\ Len(w \o z) = Len(w) + Len(z)
        /\ \A i \in 1 .. Len(w) + Len(z) :
             (w \o z)[i] = IF i <= Len(w) THEN w[i] ELSE z[i - Len(w)]
    BY <2>2, ConcatProperties
  <2>4. \A i \in 1 .. 4 : (w \o z)[i] = q[i]
    <3> TAKE i \in 1 .. 4
    <3>1. i = 1 \/ i = 2 \/ i = 3 \/ i = 4
      OBVIOUS
    <3> QED
      BY <2>2, <2>3, <3>1
  <2>5. w \o z = q
    <3>1. w \o z \in Seq(Parts) /\ q \in Seq(Parts)
      BY <1>2, <2>3
    <3>2. Len(w \o z) = Len(q) /\ \A i \in 1 .. Len(w \o z) : (w \o z)[i] = q[i]
      BY <1>2, <2>2, <2>3, <2>4
    <3> QED
      BY <3>1, <3>2, SeqEqual
  <2> QED
    BY <2>1, <2>5 DEF w, z
<1> HIDE DEF q
<1>4. \A i \in 1 .. n : q[i] \in Parts
  BY <1>1, <1>2
<1>5. /\ SubSeq(q, 1, n) \in Seq(Parts)
      /\ Len(SubSeq(q, 1, n)) = IF 1 <= n THEN n - 1 + 1 ELSE 0
      /\ \A i \in 1 .. n - 1 + 1 : SubSeq(q, 1, n)[i] = q[1 + i - 1]
  BY <1>4, SubSeqProperties
<1>6. n - 1 + 1 = n /\ (~(1 <= n) => n = 0) /\ \A i \in 1 .. n : 1 + i - 1 = i /\ i \in 1 .. 4
  OBVIOUS
<1> QED
  BY <1>2, <1>3, <1>5, <1>6 DEF q

\* What the client sends is put at the end.
LEMMA Appended ==
  ASSUME ChannelTypeOK, NEW q \in Seq(Parts), buf' = buf, toServer' = toServer \o q
  PROVE  /\ toServer' \in Seq(Parts) /\ Incoming' \in Seq(Parts)
         /\ Len(q) \in Nat /\ Len(Incoming') = Len(Incoming) + Len(q)
         /\ \A i \in 1 .. Len(Incoming) + Len(q) :
              Incoming'[i] = IF i <= Len(Incoming) THEN Incoming[i] ELSE q[i - Len(Incoming)]
         /\ Incoming' = << >> <=> Len(Incoming') = 0
<1>1. buf \in Seq(Parts) /\ toServer \in Seq(Parts)
  BY DEF ChannelTypeOK
<1>2. Incoming' = Incoming \o q
  <2>1. (buf \o toServer) \o q = buf \o (toServer \o q)
    BY <1>1, ConcatAssociative, SMTT(30)
  <2>2. Incoming' = buf' \o toServer'
    BY DEF Incoming
  <2> QED
    BY <2>1, <2>2 DEF Incoming
<1>3. toServer' \in Seq(Parts)
  BY <1>1, ConcatProperties
<1>4. Incoming \in Seq(Parts)
  BY IncomingType
<1>5. Incoming' \in Seq(Parts)
  BY <1>2, <1>4, ConcatProperties
<1>6. Len(q) \in Nat
  BY LenProperties
<1> QED
  BY <1>2, <1>3, <1>4, <1>5, <1>6, ConcatProperties, EmptySeq

\* What the server takes out of its buffer is taken from the front.
LEMMA Dropped ==
  ASSUME ChannelTypeOK, NEW n \in Nat, n <= Len(buf),
         buf' = SubSeq(buf, n + 1, Len(buf)), toServer' = toServer
  PROVE  /\ buf' \in Seq(Parts) /\ Incoming' \in Seq(Parts)
         /\ Len(Incoming') = Len(Incoming) - n
         /\ \A i \in 1 .. Len(Incoming) - n : Incoming'[i] = Incoming[n + i]
         /\ Incoming' = << >> <=> Len(Incoming') = 0
<1>1. buf \in Seq(Parts) /\ toServer \in Seq(Parts)
  BY DEF ChannelTypeOK
<1>2. /\ buf' \in Seq(Parts)
      /\ Len(buf') = Len(buf) - n
      /\ \A i \in 1 .. Len(buf) - n : buf'[i] = buf[n + i]
  BY <1>1, RestOfSequence
<1>3. /\ Incoming' \in Seq(Parts)
      /\ Len(Incoming') = Len(buf') + Len(toServer)
      /\ \A i \in 1 .. Len(buf') + Len(toServer) :
           Incoming'[i] = IF i <= Len(buf') THEN buf'[i] ELSE toServer[i - Len(buf')]
  <2>1. Incoming' = buf' \o toServer
    BY DEF Incoming
  <2> QED
    BY <1>1, <1>2, <2>1, ConcatProperties
<1>4. /\ Len(buf) \in Nat /\ Len(toServer) \in Nat /\ Len(Incoming) = Len(buf) + Len(toServer)
      /\ \A i \in 1 .. Len(Incoming) :
           Incoming[i] = IF i <= Len(buf) THEN buf[i] ELSE toServer[i - Len(buf)]
  BY IncomingType
<1>5. \A i \in 1 .. Len(Incoming) - n : Incoming'[i] = Incoming[n + i]
  <2> TAKE i \in 1 .. Len(Incoming) - n
  <2>1. n + i \in 1 .. Len(Incoming) /\ i \in 1 .. Len(buf') + Len(toServer)
    BY <1>2, <1>4
  <2>2. CASE i <= Len(buf) - n
    BY <1>2, <1>3, <1>4, <2>1, <2>2, SMTT(30)
  <2>3. CASE i > Len(buf) - n
    <3>1. /\ Incoming'[i] = toServer[i - (Len(buf) - n)]
          /\ Incoming[n + i] = toServer[(n + i) - Len(buf)]
      BY <1>2, <1>3, <1>4, <2>1, <2>3
    <3>2. i - (Len(buf) - n) = (n + i) - Len(buf)
      BY <1>4
    <3> QED
      BY <3>1, <3>2
  <2> QED
    BY <1>4, <2>2, <2>3
<1>6. Len(Incoming') = Len(Incoming) - n
  BY <1>2, <1>3, <1>4
<1> QED
  BY <1>2, <1>3, <1>5, <1>6, EmptySeq

\* What recv() hands over moves from the connection to the buffer.
LEMMA Moved ==
  ASSUME ChannelTypeOK, NEW n \in 1 .. Len(toServer),
         buf' = buf \o SubSeq(toServer, 1, n),
         toServer' = SubSeq(toServer, n + 1, Len(toServer))
  PROVE  /\ buf' \in Seq(Parts) /\ toServer' \in Seq(Parts)
         /\ Incoming' = Incoming
<1> DEFINE front == SubSeq(toServer, 1, n)
           back == SubSeq(toServer, n + 1, Len(toServer))
<1>1. buf \in Seq(Parts) /\ toServer \in Seq(Parts) /\ Len(toServer) \in Nat
  BY LenProperties DEF ChannelTypeOK
<1>2. back \in Seq(Parts)
  BY <1>1, RestOfSequence
<1>3. front \in Seq(Parts)
  <2>1. \A i \in 1 .. n : toServer[i] \in Parts
    BY <1>1, ElementOfSeq
  <2> QED
    BY <1>1, <2>1, SubSeqProperties
<1>4. front \o back = toServer
  <2>1. /\ 1 \in 1 .. Len(toServer) + 1 /\ n \in 1 - 1 .. Len(toServer)
        /\ Len(toServer) \in n .. Len(toServer)
    BY <1>1
  <2>2. front \o back = SubSeq(toServer, 1, Len(toServer))
    BY <1>1, <2>1, ConcatAdjacentSubSeq
  <2> QED
    BY <1>1, <2>2, SubSeqFull
<1>5. buf' = buf \o front /\ toServer' = back
  OBVIOUS
<1> HIDE DEF front, back
<1>6. (buf \o front) \o back = buf \o (front \o back)
  <2>1. buf \in Seq(Parts)
    BY <1>1
  <2>2. \A f, g \in Seq(Parts) : (buf \o f) \o g = buf \o (f \o g)
    <3> TAKE f, g \in Seq(Parts)
    <3> QED
      BY <2>1, ConcatAssociative, SMTT(30)
  <2> QED
    BY <1>2, <1>3, <2>2
<1>7. Incoming' = buf' \o toServer'
  BY DEF Incoming
<1> QED
  BY <1>1, <1>2, <1>3, <1>4, <1>5, <1>6, <1>7, ConcatProperties DEF Incoming

\* A part of attempt a comes after the end of attempt a - 1, or begins a again.
LEMMA AppendFraming ==
  ASSUME ChannelTypeOK, Framing, serving, serving', Current \in Attempts,
         pc = "send", NEW n \in 0 .. 4, NEW q \in Seq(Parts), Len(q) = n,
         \A i \in 1 .. n : q[i] = Part(Current, i),
         toServer' = toServer \o q,
         torn' = (torn \/ n \in 1 .. 3),
         (pc' = "ack" /\ n = 4) \/ (pc' \in {"send", "halted"} /\ n < 4),
         UNCHANGED <<sent, buf, waitingFor, printed>>
  PROVE  Framing'
<1> DEFINE a == Current
           L == Len(Incoming)
           M == Len(Incoming')
<1>1. /\ Incoming \in Seq(Parts) /\ L \in Nat /\ \A i \in 1 .. L : Incoming[i] \in Parts
      /\ Incoming = << >> <=> L = 0
  BY IncomingType
<1>2. /\ M = L + n
      /\ \A i \in 1 .. L : Incoming'[i] = Incoming[i]
      /\ \A i \in L + 1 .. L + n : Incoming'[i] = Part(a, i - L)
      /\ Incoming' = << >> <=> M = 0
  <2>1. /\ Len(Incoming') = Len(Incoming) + Len(q)
        /\ \A i \in 1 .. Len(Incoming) + Len(q) :
             Incoming'[i] = IF i <= Len(Incoming) THEN Incoming[i] ELSE q[i - Len(Incoming)]
        /\ Incoming' = << >> <=> Len(Incoming') = 0
    BY Appended
  <2>2. \A i \in 1 .. L : Incoming'[i] = Incoming[i]
    BY <1>1, <2>1
  <2>3. \A i \in L + 1 .. L + n : i - L \in 1 .. n /\ i \in 1 .. L + n /\ ~(i <= L)
    BY <1>1
  <2> QED
    BY <2>1, <2>2, <2>3
<1>3. Current' = a /\ Turn' = Turn /\ a \in Nat /\ Chained /\ Ends /\ Begins
  BY BoundsAssumption DEF Current, Turn, Framing, Attempts
<1> HIDE DEF a
<1>4. /\ torn => torn'
      /\ ~torn' => ~torn /\ n \notin 1 .. 3
      /\ n \notin 1 .. 3 => (torn' <=> torn)
  OBVIOUS
<1>5. Chained'
  <2> SUFFICES ASSUME NEW i \in 1 .. M - 1
               PROVE  Follows(Incoming[i], Incoming[i + 1])'
    BY DEF Chained
  <2>1. CASE i < L
    <3>1. Follows(Incoming[i], Incoming[i + 1])
      BY <1>1, <1>3, <2>1 DEF Chained
    <3>2. i \in 1 .. L /\ i + 1 \in 1 .. L
      BY <1>1, <2>1
    <3> QED
      BY <1>2, <3>1, <3>2 DEF Follows
  <2>2. CASE i = L
    <3>1. /\ Incoming'[i] = LastIncoming /\ Incoming'[i + 1] = Part(a, 1)
          /\ Incoming # << >> /\ n > 0
      BY <1>1, <1>2, <2>2 DEF LastIncoming
    <3>2. \/ LastIncoming = Part(a - 1, 4)
          \/ torn /\ LastIncoming.attempt = a /\ LastIncoming.part < 4
      BY <1>3, <3>1 DEF Ends, a
    <3>3. CASE LastIncoming = Part(a - 1, 4)
      <4>1. (a - 1) + 1 = a
        BY <1>3
      <4>2. LastIncoming.part = 4 /\ Part(LastIncoming.attempt + 1, 1) = Part(a, 1)
        BY <3>3, <4>1 DEF Part
      <4> QED
        BY <3>1, <4>2 DEF Follows
    <3>4. CASE torn /\ LastIncoming.attempt = a /\ LastIncoming.part < 4
      BY <1>4, <3>1, <3>4 DEF Follows
    <3> QED
      BY <3>2, <3>3, <3>4
  <2>3. CASE i > L
    <3>1. /\ i \in L + 1 .. L + n /\ i + 1 \in L + 1 .. L + n
          /\ (i + 1) - L = (i - L) + 1 /\ i - L < 4
      BY <1>1, <1>2, <2>3
    <3>2. Incoming'[i] = Part(a, i - L) /\ Incoming'[i + 1] = Part(a, (i - L) + 1)
      BY <1>2, <3>1
    <3> QED
      BY <3>1, <3>2 DEF Follows, Part
  <2> QED
    BY <1>1, <1>2, <2>1, <2>2, <2>3
<1>6. Ends'
  <2>1. CASE n = 0
    <3>1. Incoming' = << >> <=> Incoming = << >>
      BY <1>1, <1>2, <2>1
    <3>2. Incoming # << >> => LastIncoming' = LastIncoming
      BY <1>1, <1>2, <2>1 DEF LastIncoming
    <3>3. (torn' <=> torn) /\ pc' \in {"send", "halted"}
      <4>1. n \notin 1 .. 3 /\ n # 4
        BY <2>1
      <4> QED
        BY <1>4, <4>1
    <3> QED
      BY <1>3, <3>1, <3>2, <3>3 DEF Ends, a
  <2>2. CASE n > 0
    <3>1. Incoming' # << >> /\ LastIncoming' = Part(a, n)
      BY <1>1, <1>2, <2>2 DEF LastIncoming
    <3>2. LastIncoming'.attempt = a /\ LastIncoming'.part = n
      BY <3>1 DEF Part
    <3>3. (~torn' => n = 4) /\ pc' # "input"
      <4>1. n \in 1 .. 3 \/ n = 4
        BY <2>2
      <4> QED
        BY <1>4, <4>1
    <3> QED
      BY <1>3, <3>1, <3>2, <3>3 DEF Ends
  <2> QED
    BY <2>1, <2>2
<1>7. Begins'
  <2>1. CASE Incoming # << >>
    <3>1. Incoming' # << >> /\ Incoming'[1] = Incoming[1]
      BY <1>1, <1>2, <2>1
    <3> QED
      BY <1>3, <1>4, <2>1, <3>1 DEF Begins
  <2>2. CASE Incoming = << >>
    <3>1. Incoming' # << >> => Incoming'[1] = Part(a, 1)
      BY <1>1, <1>2, <2>2
    <3>2. waitingFor = -1 => a = Turn
      BY <1>3, <2>2 DEF Ends, a
    <3>3. Part(a, 1).part # 3
      BY DEF Part
    <3> QED
      BY <1>3, <1>4, <2>2, <3>1, <3>2, <3>3 DEF Begins
  <2> QED
    BY <2>1, <2>2
<1> QED
  BY <1>5, <1>6, <1>7 DEF Framing

\* Where the stream is only taken on, or goes on with the same part of the
\* client, its description stays.
LEMMA FramingShift ==
  ASSUME ChannelTypeOK, Chained, NEW n \in Nat, n <= Len(buf),
         buf' = SubSeq(buf, n + 1, Len(buf)),
         UNCHANGED <<toServer, torn>>
  PROVE  /\ Chained'
         /\ Incoming' # << >> => LastIncoming' = LastIncoming /\ Incoming # << >>
         /\ Incoming' # << >> => Incoming'[1] = Incoming[n + 1] /\ n + 1 <= Len(Incoming)
         /\ Incoming' = << >> <=> Len(Incoming) = n
<1>1. /\ Len(Incoming) \in Nat /\ Len(buf) \in Nat
      /\ Len(Incoming) >= Len(buf) /\ (Incoming = << >> <=> Len(Incoming) = 0)
  BY IncomingType
<1>2. /\ Len(Incoming') = Len(Incoming) - n
      /\ \A i \in 1 .. Len(Incoming) - n : Incoming'[i] = Incoming[n + i]
      /\ Incoming' = << >> <=> Len(Incoming') = 0
  BY Dropped
<1>3. ASSUME NEW i \in 1 .. Len(Incoming') - 1
      PROVE  Follows(Incoming[i], Incoming[i + 1])'
  <2>1. Follows(Incoming[n + i], Incoming[(n + i) + 1])
    BY <1>1, <1>2 DEF Chained
  <2>2. Incoming'[i] = Incoming[n + i] /\ Incoming'[i + 1] = Incoming[(n + i) + 1]
    BY <1>1, <1>2
  <2> QED
    BY <2>1, <2>2 DEF Follows
<1>4. Chained'
  BY <1>3 DEF Chained
<1>5. Incoming' # << >> => LastIncoming' = LastIncoming /\ Incoming # << >>
  BY <1>1, <1>2 DEF LastIncoming
<1>6. Incoming' # << >> => Incoming'[1] = Incoming[n + 1] /\ n + 1 <= Len(Incoming)
  BY <1>1, <1>2
<1>7. Incoming' = << >> <=> Len(Incoming) = n
  BY <1>1, <1>2
<1> QED
  BY <1>4, <1>5, <1>6, <1>7

\* The length that is read is the one of the next attempt, or that of half a
\* message, which no message follows.
LEMMA ReadLengthFraming ==
  ASSUME ChannelTypeOK, Framing, ReadLength
  PROVE  Framing'
<1> DEFINE a == Turn
<1>1. /\ serving /\ waitingFor = -1 /\ 2 <= Len(buf)
      /\ waitingFor' \in Lengths(SubSeq(buf, 1, 2))
      /\ buf' = SubSeq(buf, 2 + 1, Len(buf))
      /\ UNCHANGED <<pc, sent, torn, toServer, printed, serving>>
  BY DEF ReadLength, CanReadLength, clientVars
<1>2. Chained /\ Ends /\ Begins /\ Current' = Current /\ Turn' = a
  BY <1>1 DEF Framing, Current, Turn
<1>3. /\ Chained'
      /\ Incoming' # << >> => LastIncoming' = LastIncoming /\ Incoming # << >>
      /\ Incoming' # << >> => Incoming'[1] = Incoming[2 + 1] /\ 2 + 1 <= Len(Incoming)
      /\ Incoming' = << >> <=> Len(Incoming) = 2
  BY <1>1, <1>2, FramingShift
<1>4. /\ Len(Incoming) \in Nat /\ Len(Incoming) >= 2
      /\ Incoming # << >>
      /\ buf[1] = Incoming[1] /\ buf[2] = Incoming[2]
  BY <1>1, IncomingType
<1>5. a \in Nat
  BY LenProperties DEF Turn, ChannelTypeOK
<1>6. Incoming[1] = Part(a, 1)
  BY <1>1, <1>2, <1>4 DEF Begins
<1>7. Incoming[2] = Part(a, 2) \/ (torn /\ Incoming[2] = Part(a, 1))
  <2>1. Follows(Incoming[1], Incoming[1 + 1])
    BY <1>2, <1>4 DEF Chained
  <2> QED
    BY <1>6, <2>1 DEF Follows, Part
<1>8. waitingFor' # -1 /\ (Incoming[2] = Part(a, 2) => waitingFor' = 2)
  <2>1. waitingFor' # -1
    BY <1>1, HugeAssumption DEF Lengths
  <2>2. ASSUME Incoming[2] = Part(a, 2)
        PROVE  waitingFor' = 2
    <3>1. SubSeq(buf, 1, 2) = LengthParts(a)
      <4>1. buf \in Seq(Parts)
        BY DEF ChannelTypeOK
      <4>2. SubSeq(buf, 1, 2) = <<buf[1], buf[2]>>
        BY <1>1, <4>1, FirstTwo
      <4> QED
        BY <1>4, <1>6, <2>2, <4>2 DEF LengthParts
    <3>2. a \in Attempts
      <4>1. Incoming[1] \in Parts /\ Incoming[1].attempt = a
        BY <1>4, <1>6, IncomingType DEF Part
      <4> QED
        BY <4>1 DEF Parts
    <3>3. Lengths(SubSeq(buf, 1, 2)) = {2}
      BY <3>1, <3>2 DEF Lengths
    <3> QED
      BY <1>1, <3>3
  <2> QED
    BY <2>1, <2>2
<1>9. Ends'
  BY <1>1, <1>2, <1>3, <1>8 DEF Ends
<1>10. Incoming' # << >> =>
         \/ Incoming'[1].part # 3
         \/ waitingFor' = 2 /\ Incoming'[1] = Part(a, 3)
  <2> SUFFICES ASSUME Incoming' # << >>
               PROVE  \/ Incoming'[1].part # 3
                      \/ waitingFor' = 2 /\ Incoming'[1] = Part(a, 3)
    OBVIOUS
  <2>1. Follows(Incoming[2], Incoming[2 + 1]) /\ Incoming'[1] = Incoming[2 + 1]
    BY <1>2, <1>3, <1>4 DEF Chained
  <2>2. CASE Incoming[2] = Part(a, 2)
    BY <1>8, <2>1, <2>2 DEF Follows, Part
  <2>3. CASE Incoming[2] = Part(a, 1)
    BY <2>1, <2>3 DEF Follows, Part
  <2> QED
    BY <1>7, <2>2, <2>3
<1>11. ~torn => Incoming' # << >> /\ waitingFor' = 2 /\ Incoming'[1] = Part(a, 3)
  <2> SUFFICES ASSUME ~torn
               PROVE  Incoming' # << >> /\ waitingFor' = 2 /\ Incoming'[1] = Part(a, 3)
    OBVIOUS
  <2>1. Incoming[2] = Part(a, 2)
    BY <1>7
  <2>2. Incoming' # << >>
    <3>1. Incoming[2].part = 2
      BY <2>1 DEF Part
    <3>2. LastIncoming.part = 4
      BY <1>2, <1>4 DEF Ends
    <3> QED
      BY <1>3, <3>1, <3>2 DEF LastIncoming
  <2>3. Follows(Incoming[2], Incoming[2 + 1]) /\ Incoming'[1] = Incoming[2 + 1]
    BY <1>2, <1>3, <1>4, <2>2 DEF Chained
  <2>4. Incoming'[1] = Part(a, 3)
    BY <2>1, <2>3 DEF Follows, Part
  <2> QED
    BY <1>8, <2>1, <2>2, <2>4
<1>12. Begins'
  BY <1>1, <1>2, <1>8, <1>10, <1>11 DEF Begins
<1> QED
  BY <1>3, <1>9, <1>12 DEF Framing

\* The message that is read is the one of the next attempt, for nothing else
\* looks like one where the server waits for it.
LEMMA MessageIsNext ==
  ASSUME ChannelTypeOK, Framing, serving, CanProcess, NEW a \in Attempts,
         SubSeq(buf, 1, waitingFor) = MessageParts(a)
  PROVE  /\ a = Turn /\ waitingFor = 2 /\ Len(buf) >= 2
         /\ Len(Incoming) >= 2 /\ Incoming[1] = Part(a, 3) /\ Incoming[2] = Part(a, 4)
<1>1. buf \in Seq(Parts) /\ Len(buf) \in Nat /\ \A i \in 1 .. Len(buf) : buf[i] \in Parts
  BY LenProperties, ElementOfSeq DEF ChannelTypeOK
<1>2. waitingFor \in 0 .. 3 /\ waitingFor <= Len(buf) /\ waitingFor # -1
  BY DEF CanProcess, ChannelTypeOK
<1> DEFINE m == SubSeq(buf, 1, waitingFor)
<1>3. /\ Len(m) = waitingFor
      /\ \A i \in 1 .. waitingFor : m[i] = buf[i]
  <2>1. \A i \in 1 .. waitingFor : buf[i] \in Parts
    BY <1>1, <1>2
  <2>2. /\ Len(m) = IF 1 <= waitingFor THEN waitingFor - 1 + 1 ELSE 0
        /\ \A i \in 1 .. waitingFor - 1 + 1 : m[i] = buf[1 + i - 1]
    BY <1>2, <2>1, SubSeqProperties
  <2>3. waitingFor - 1 + 1 = waitingFor /\ \A i \in 1 .. waitingFor : 1 + i - 1 = i
    BY <1>2
  <2> QED
    BY <1>2, <2>2, <2>3
<1>4. m = MessageParts(a)
  OBVIOUS
<1> HIDE DEF m
<1>5. Len(m) = 2 /\ m[1] = Part(a, 3) /\ m[2] = Part(a, 4)
  BY <1>4 DEF MessageParts
<1>6. waitingFor = 2 /\ Len(buf) >= 2
  BY <1>2, <1>3, <1>5
<1>7. Len(Incoming) >= 2 /\ Incoming[1] = Part(a, 3) /\ Incoming[2] = Part(a, 4)
  <2>1. buf[1] = Part(a, 3) /\ buf[2] = Part(a, 4)
    BY <1>3, <1>5, <1>6
  <2> QED
    BY <1>1, <1>6, <2>1, IncomingType
<1>8. a = Turn
  <2>1. Incoming # << >> /\ Incoming[1].part = 3 /\ Incoming[1].attempt = a
    BY <1>7, IncomingType DEF Part
  <2>2. Incoming[1] = Part(Turn, 3)
    BY <1>2, <2>1 DEF Framing, Begins
  <2> QED
    BY <2>1, <2>2 DEF Part
<1> QED
  BY <1>6, <1>7, <1>8

\* What ends the handler is not printed; what is printed is the next attempt.
LEMMA Processed ==
  ASSUME ChannelTypeOK, Framing, ProcessMessage
  PROVE  \/ printed' = printed /\ ~serving'
         \/ /\ printed' = Append(printed, Turn) /\ Turn \in Attempts
            /\ waitingFor = 2 /\ 2 <= Len(buf)
            /\ Len(Incoming) >= 2
            /\ Incoming[1] = Part(Turn, 3) /\ Incoming[2] = Part(Turn, 4)
<1> DEFINE read == {a \in Attempts : SubSeq(buf, 1, waitingFor) = MessageParts(a)}
<1>1. /\ serving /\ CanProcess
      /\ printed' = printed \o SetToSeq(read)
      /\ serving' \in IF read = {} THEN {FALSE} ELSE IF ClientEnded THEN BOOLEAN ELSE {TRUE}
  BY DEF ProcessMessage
<1>2. printed \in Seq(Attempts)
  BY DEF ChannelTypeOK
<1>3. CASE read = {}
  <2>1. printed' = printed \o << >> /\ ~serving'
    BY <1>1, <1>3, SetToSeqIs
  <2> QED
    BY <1>2, <2>1, ConcatEmptySeq
<1>4. CASE read # {}
  <2>1. PICK a \in Attempts : read = {a} /\ SubSeq(buf, 1, waitingFor) = MessageParts(a)
    BY <1>4, ReadAtMostOne
  <2>2. /\ a = Turn /\ waitingFor = 2 /\ Len(buf) >= 2
        /\ Len(Incoming) >= 2 /\ Incoming[1] = Part(a, 3) /\ Incoming[2] = Part(a, 4)
    BY <1>1, <2>1, MessageIsNext
  <2> HIDE DEF read
  <2>3. printed' = printed \o <<a>>
    BY <1>1, <2>1, SetToSeqIs
  <2>4. printed \o <<a>> = Append(printed, a)
    BY <1>2, <2>1, AppendIsConcat
  <2> QED
    BY <2>1, <2>2, <2>3, <2>4
<1> QED
  BY <1>3, <1>4

\* After a message the next attempt begins.
LEMMA ProcessMessageFraming ==
  ASSUME ChannelTypeOK, Framing, ProcessMessage
  PROVE  Framing'
<1> SUFFICES ASSUME serving'
             PROVE  Framing'
  BY DEF Framing
<1>1. /\ serving /\ waitingFor' = -1
      /\ buf' = SubSeq(buf, waitingFor + 1, Len(buf))
      /\ UNCHANGED <<pc, sent, torn, toServer>>
  BY DEF ProcessMessage, Rest, clientVars
<1>2. /\ printed' = Append(printed, Turn) /\ Turn \in Attempts
      /\ waitingFor = 2 /\ 2 <= Len(buf)
      /\ Len(Incoming) >= 2
      /\ Incoming[1] = Part(Turn, 3) /\ Incoming[2] = Part(Turn, 4)
  BY Processed
<1>3. Chained /\ Ends /\ Begins /\ Current' = Current
  BY <1>1 DEF Framing, Current
<1>4. Len(printed) \in Nat /\ Len(printed') = Turn /\ Turn' = Turn + 1 /\ Turn \in Nat
  BY <1>2, LenProperties DEF Turn, ChannelTypeOK
<1>5. /\ Chained'
      /\ Incoming' # << >> => LastIncoming' = LastIncoming /\ Incoming # << >>
      /\ Incoming' # << >> => Incoming'[1] = Incoming[2 + 1] /\ 2 + 1 <= Len(Incoming)
      /\ Incoming' = << >> <=> Len(Incoming) = 2
  BY <1>1, <1>2, <1>3, FramingShift
<1>6. Len(Incoming) \in Nat /\ Incoming # << >>
  BY <1>2, IncomingType
<1>7. Incoming[2].part = 4 /\ Incoming[2].attempt = Turn
  BY <1>2 DEF Part
<1>8. Ends'
  <2>1. CASE Incoming' # << >>
    BY <1>1, <1>3, <1>5, <2>1 DEF Ends
  <2>2. CASE Incoming' = << >>
    <3>1. LastIncoming = Incoming[2]
      BY <1>5, <2>2 DEF LastIncoming
    <3>2. pc \in {"ack", "input"} => Current = Turn
      BY <1>3, <1>6, <1>7, <3>1 DEF Ends, Part
    <3>3. pc = "send" => Current - 1 = Turn
      BY <1>3, <1>6, <1>7, <3>1 DEF Ends, Part
    <3>4. Current \in Nat
      BY LenProperties DEF Current, ChannelTypeOK
    <3> QED
      BY <1>1, <1>3, <1>4, <2>2, <3>2, <3>3, <3>4 DEF Ends
  <2> QED
    BY <2>1, <2>2
<1>9. Begins'
  <2>1. ASSUME Incoming' # << >>
        PROVE  Incoming'[1] = Part(Turn + 1, 1)
    <3>1. Follows(Incoming[2], Incoming[2 + 1]) /\ Incoming'[1] = Incoming[2 + 1]
      BY <1>3, <1>5, <1>6, <2>1 DEF Chained
    <3> QED
      BY <1>7, <3>1 DEF Follows
  <2> QED
    BY <1>1, <1>4, <2>1 DEF Begins
<1> QED
  BY <1>5, <1>8, <1>9 DEF Framing

\* The text of a new attempt is the current one or the next.
LEMMA NewAttempt ==
  ASSUME ChannelTypeOK, TextsGrow, Current < MaxAttempts, NEW t,
         t = Texts + 1 \/ (t = Texts /\ Current > 0),
         sent' = Append(sent, t)
  PROVE  /\ sent' \in Seq(Nat) /\ Len(sent') = Current + 1 /\ Current' = Current + 1
         /\ Len(sent') <= MaxAttempts
         /\ TextsGrow' /\ Texts' = t /\ Texts \in Nat
         /\ \A i \in 1 .. Len(sent) : sent'[i] = sent[i]
<1>1. sent \in Seq(Nat) /\ Len(sent) \in Nat /\ (sent = << >> <=> Len(sent) = 0)
  BY LenProperties, EmptySeq DEF ChannelTypeOK
<1>2. Texts \in Nat /\ (Len(sent) > 0 => Texts = sent[Len(sent)]) /\ (Len(sent) = 0 => Texts = 0)
  BY <1>1, ElementOfSeq DEF Texts, Last
<1>3. t \in Nat
  BY <1>2
<1>4. /\ sent' \in Seq(Nat) /\ sent' # << >>
      /\ Len(sent') = Len(sent) + 1
      /\ \A i \in 1 .. Len(sent) : sent'[i] = sent[i]
      /\ sent'[Len(sent) + 1] = t
  BY <1>1, <1>3, AppendProperties
<1>5. Texts' = t
  BY <1>4 DEF Texts, Last
<1>6. TextsGrow'
  <2>1. sent'[1] = 1
    BY <1>1, <1>2, <1>4 DEF TextsGrow, Current
  <2>2. ASSUME NEW i \in 1 .. Len(sent') - 1
        PROVE  sent'[i + 1] = sent'[i] \/ sent'[i + 1] = sent'[i] + 1
    BY <1>1, <1>2, <1>4 DEF TextsGrow
  <2>3. ASSUME NEW i \in 1 .. Len(sent'), NEW j \in 1 .. Len(sent'), i <= j
        PROVE  sent'[i] <= sent'[j]
    <3>1. CASE j <= Len(sent)
      BY <1>1, <1>4, <2>3, <3>1 DEF TextsGrow
    <3>2. CASE j = Len(sent) + 1 /\ i <= Len(sent)
      <4>1. sent[i] <= sent[Len(sent)] /\ sent[i] \in Nat
        BY <1>1, <3>2, ElementOfSeq DEF TextsGrow
      <4> QED
        BY <1>1, <1>2, <1>4, <3>2, <4>1
    <3>3. CASE j = Len(sent) + 1 /\ i = Len(sent) + 1
      BY <1>3, <1>4, <3>3
    <3> QED
      BY <1>1, <1>4, <2>3, <3>1, <3>2, <3>3
  <2>4. Len(sent') > 0
    BY <1>1, <1>4
  <2> QED
    BY <2>1, <2>2, <2>3, <2>4 DEF TextsGrow
<1> QED
  BY <1>1, <1>2, <1>4, <1>5, <1>6, BoundsAssumption DEF Current

\* Enter, and the repetition of a text: the attempts before stay what they were.
LEMMA AttemptKeeps ==
  ASSUME FInv, Current < MaxAttempts, NEW t,
         t = Texts + 1 \/ (t = Texts /\ Current > 0),
         sent' = Append(sent, t), pc \in {"ack", "input"}, pc' = "send",
         toClient' \in Seq(AckParts),
         UNCHANGED <<torn, toServer, serverVars>>
  PROVE  FInv'
<1>1. /\ ChannelTypeOK /\ TextsGrow /\ PrintedEach /\ Framing
      /\ UNCHANGED <<buf, waitingFor, serving, printed, Incoming>>
  BY DEF FInv, serverVars, Incoming
<1>2. /\ sent' \in Seq(Nat) /\ Len(sent') = Current + 1 /\ Current' = Current + 1
      /\ Len(sent') <= MaxAttempts
      /\ TextsGrow'
  BY <1>1, NewAttempt
<1>3. Current \in Nat
  BY <1>1, LenProperties DEF Current, ChannelTypeOK
<1>4. ChannelTypeOK'
  BY <1>1, <1>2 DEF ChannelTypeOK
<1>5. PrintedEach'
  <2>1. Len(printed) \in Nat
    BY <1>1, LenProperties DEF ChannelTypeOK
  <2>2. \A i \in 1 .. Len(Incoming) : Incoming[i].attempt \in Nat
    BY <1>1, IncomingType, PartFields
  <2> QED
    BY <1>1, <1>2, <1>3, <2>1, <2>2, SMTT(60) DEF PrintedEach, Current
<1>6. ASSUME serving
      PROVE  Chained' /\ Ends' /\ Begins'
  <2>1. Chained /\ Ends /\ Begins /\ Turn' = Turn /\ LastIncoming' = LastIncoming
    BY <1>1, <1>6 DEF Framing, Turn, LastIncoming
  <2>2. Chained' /\ Begins'
    BY <1>1, <2>1 DEF Chained, Begins, Follows
  <2>3. Ends'
    <3>1. Len(printed) \in Nat /\ Current = Current' - 1
      BY <1>1, <1>2, <1>3, LenProperties DEF ChannelTypeOK
    <3> QED
      BY <1>1, <1>2, <1>3, <2>1, <3>1 DEF Ends, Turn
  <2> QED
    BY <2>2, <2>3
<1>7. Framing'
  BY <1>1, <1>6 DEF Framing
<1> QED
  BY <1>2, <1>4, <1>5, <1>7 DEF FInv

\* An attempt is sent, or a piece of it.
LEMMA SendKeeps ==
  ASSUME FInv, NEW n \in 0 .. 4, NEW q, q = SubSeq(Payload(Current), 1, n),
         pc = "send", toServer' = Sent(q),
         torn' = (torn \/ n \in 1 .. 3),
         (pc' = "ack" /\ n = 4) \/ (pc' \in {"send", "halted"} /\ n < 4),
         UNCHANGED <<sent, toClient, serverVars>>
  PROVE  FInv'
<1>1. /\ ChannelTypeOK /\ TextsGrow /\ PrintedEach /\ Framing
      /\ UNCHANGED <<buf, waitingFor, serving, printed, Current>>
  BY DEF FInv, serverVars, Current
<1>2. Len(sent) > 0 /\ Len(sent) \in Nat /\ Len(sent) <= MaxAttempts
  BY <1>1, LenProperties DEF TextsGrow, ChannelTypeOK
<1>3. Current \in Attempts /\ Current \in Nat
  BY <1>2, BoundsAssumption DEF Current, Attempts
<1>4. q \in Seq(Parts) /\ Len(q) = n /\ \A i \in 1 .. n : q[i] = Part(Current, i)
  BY <1>3, PayloadPrefix
<1>5. pc' \in {"ack", "send", "halted"} /\ torn' \in BOOLEAN
  OBVIOUS
<1>6. TextsGrow'
  BY <1>1, <1>2 DEF TextsGrow
<1>7. CASE ~serving
  <2>1. toServer' = toServer /\ Incoming' = Incoming
    BY <1>1, <1>7 DEF Sent, Incoming
  <2>2. ChannelTypeOK'
    BY <1>1, <1>5, <2>1 DEF ChannelTypeOK
  <2>3. PrintedEach'
    BY <1>1, <2>1 DEF PrintedEach
  <2>4. Framing'
    BY <1>1, <1>7 DEF Framing
  <2> QED
    BY <1>6, <2>2, <2>3, <2>4 DEF FInv
<1>8. CASE serving
  <2>1. toServer' = toServer \o q
    BY <1>8 DEF Sent
  <2>2. /\ toServer' \in Seq(Parts)
        /\ Len(Incoming') = Len(Incoming) + Len(q)
        /\ \A i \in 1 .. Len(Incoming) + Len(q) :
             Incoming'[i] = IF i <= Len(Incoming) THEN Incoming[i] ELSE q[i - Len(Incoming)]
    BY <1>1, <1>4, <2>1, Appended
  <2>3. ChannelTypeOK'
    BY <1>1, <1>5, <2>2 DEF ChannelTypeOK
  <2>4. PrintedEach'
    <3>1. Len(Incoming) \in Nat
      BY <1>1, IncomingType
    <3>2. ASSUME NEW i \in 1 .. Len(Incoming')
          PROVE  Incoming'[i].attempt <= Current
      <4>1. CASE i <= Len(Incoming)
        BY <1>1, <1>4, <2>2, <3>1, <4>1 DEF PrintedEach
      <4>2. CASE i > Len(Incoming)
        <5>1. i \in 1 .. Len(Incoming) + Len(q)
          BY <2>2
        <5>2. Incoming'[i] = q[i - Len(Incoming)]
          BY <2>2, <3>1, <4>2, <5>1
        <5>3. i - Len(Incoming) \in 1 .. n
          <6>1. Len(q) = n
            BY <1>4
          <6> QED
            BY <3>1, <4>2, <5>1, <6>1
        <5>4. q[i - Len(Incoming)] = Part(Current, i - Len(Incoming))
          BY <1>4, <5>3
        <5>5. Incoming'[i].attempt = Current
          <6>1. \A k : Part(Current, k).attempt = Current
            BY DEF Part
          <6> QED
            BY <5>2, <5>4, <6>1
        <5> QED
          BY <1>3, <5>5
      <4> QED
        BY <1>4, <2>2, <3>1, <4>1, <4>2
    <3> QED
      BY <1>1, <3>2 DEF PrintedEach
  <2>5. Framing'
    BY <1>1, <1>3, <1>4, <1>8, <2>1, AppendFraming
  <2> QED
    BY <1>6, <2>3, <2>4, <2>5 DEF FInv
<1> QED
  BY <1>7, <1>8

\* What the server reads of the stream is the attempts it has not yet printed.
LEMMA ServerKeeps ==
  ASSUME FInv, CInv', ServerStep
  PROVE  FInv'
<1>1. /\ ChannelTypeOK /\ TextsGrow /\ PrintedEach /\ Framing
      /\ UNCHANGED <<pc, sent, torn>> /\ Current' = Current
  <2>1. UNCHANGED clientVars
    BY DEF ServerStep, Receive, ReadLength, ProcessMessage, HandlerEnds
  <2> QED
    BY <2>1 DEF FInv, clientVars, Current
<1>2. TextsGrow'
  BY <1>1 DEF TextsGrow
<1>3. toClient' \in Seq(AckParts) /\ printed' \in Seq(Attempts)
  BY DEF CInv
<1>4. ASSUME NEW n \in 1 .. 4, Receive(n)
      PROVE  FInv'
  <2>1. /\ n \in 1 .. Len(toServer)
        /\ buf' = buf \o SubSeq(toServer, 1, n)
        /\ toServer' = SubSeq(toServer, n + 1, Len(toServer))
        /\ UNCHANGED <<waitingFor, serving, printed>>
    BY <1>4 DEF Receive
  <2>2. buf' \in Seq(Parts) /\ toServer' \in Seq(Parts) /\ Incoming' = Incoming
    BY <1>1, <2>1, Moved
  <2>3. ChannelTypeOK'
    BY <1>1, <1>3, <2>1, <2>2 DEF ChannelTypeOK
  <2>4. PrintedEach'
    BY <1>1, <2>1, <2>2 DEF PrintedEach
  <2>5. Framing'
    BY <1>1, <2>1, <2>2 DEF Framing, Chained, Ends, Begins, Follows, LastIncoming, Turn
  <2> QED
    BY <1>2, <2>3, <2>4, <2>5 DEF FInv
<1>5. ASSUME NEW n \in Nat, n <= Len(buf),
             buf' = SubSeq(buf, n + 1, Len(buf)), toServer' = toServer,
             waitingFor' \in {-1, 0, 1, 2, 3, Huge}, serving' \in BOOLEAN
      PROVE  /\ ChannelTypeOK'
             /\ \A i \in 1 .. Len(Incoming') : Incoming'[i].attempt <= Current
  <2>1. /\ buf' \in Seq(Parts) /\ Len(Incoming) \in Nat
        /\ Len(Incoming') = Len(Incoming) - n
        /\ \A i \in 1 .. Len(Incoming) - n : Incoming'[i] = Incoming[n + i]
    BY <1>1, <1>5, Dropped, IncomingType
  <2>2. ChannelTypeOK'
    BY <1>1, <1>3, <1>5, <2>1 DEF ChannelTypeOK
  <2>3. ASSUME NEW i \in 1 .. Len(Incoming')
        PROVE  Incoming'[i].attempt <= Current
    <3>1. n + i \in 1 .. Len(Incoming) /\ Incoming'[i] = Incoming[n + i]
      BY <2>1
    <3> QED
      BY <1>1, <3>1 DEF PrintedEach
  <2> QED
    BY <2>2, <2>3
<1>6. CASE ReadLength
  <2>1. /\ 2 <= Len(buf) /\ waitingFor' \in {-1, 0, 1, 2, 3, Huge} /\ serving' \in BOOLEAN
        /\ buf' = SubSeq(buf, 2 + 1, Len(buf))
        /\ UNCHANGED <<toServer, printed>>
    BY <1>1, <1>6 DEF ReadLength, CanReadLength, Lengths, ChannelTypeOK
  <2>2. ChannelTypeOK' /\ \A i \in 1 .. Len(Incoming') : Incoming'[i].attempt <= Current
    BY <1>5, <2>1
  <2>3. PrintedEach'
    BY <1>1, <2>1, <2>2 DEF PrintedEach
  <2>4. Framing'
    BY <1>1, <1>6, ReadLengthFraming
  <2> QED
    BY <1>2, <2>2, <2>3, <2>4 DEF FInv
<1>7. CASE ProcessMessage
  <2>1. /\ waitingFor \in Nat /\ waitingFor <= Len(buf)
        /\ waitingFor' \in {-1, 0, 1, 2, 3, Huge} /\ serving' \in BOOLEAN
        /\ buf' = SubSeq(buf, waitingFor + 1, Len(buf))
        /\ toServer' = toServer
    <3>1. waitingFor \in Nat /\ waitingFor <= Len(buf)
      <4>1. waitingFor \in {-1, 0, 1, 2, 3, Huge}
        BY <1>1 DEF ChannelTypeOK
      <4> QED
        BY <1>7, <4>1 DEF ProcessMessage, CanProcess
    <3>2. serving' \in BOOLEAN
      <4>1. \E read : serving' \in IF read = {} THEN {FALSE}
                                  ELSE IF ClientEnded THEN BOOLEAN ELSE {TRUE}
        BY <1>7 DEF ProcessMessage
      <4> QED
        BY <4>1
    <3>3. waitingFor' = -1 /\ buf' = SubSeq(buf, waitingFor + 1, Len(buf)) /\ toServer' = toServer
      BY <1>7 DEF ProcessMessage, Rest
    <3> QED
      BY <3>1, <3>2, <3>3
  <2>2. ChannelTypeOK' /\ \A i \in 1 .. Len(Incoming') : Incoming'[i].attempt <= Current
    BY <1>5, <2>1
  <2>3. PrintedEach'
    <3>1. CASE printed' = printed
      BY <1>1, <2>2, <3>1 DEF PrintedEach
    <3>2. CASE /\ printed' = Append(printed, Turn) /\ Turn \in Attempts
               /\ Len(Incoming) >= 2 /\ Incoming[1] = Part(Turn, 3)
      <4>1. /\ Len(printed) \in Nat /\ printed \in Seq(Attempts)
            /\ Len(printed') = Len(printed) + 1
            /\ \A i \in 1 .. Len(printed) : printed'[i] = printed[i]
            /\ printed'[Len(printed) + 1] = Turn
        BY <1>1, <3>2, AppendProperties, LenProperties DEF ChannelTypeOK
      <4>2. Turn <= Len(sent)
        <5>1. Incoming[1].attempt = Turn
          BY <3>2 DEF Part
        <5>2. 1 \in 1 .. Len(Incoming)
          BY <1>1, <3>2, IncomingType
        <5> QED
          BY <1>1, <5>1, <5>2 DEF PrintedEach, Current
      <4>3. \A i \in 1 .. Len(printed') : printed'[i] = i
        BY <1>1, <4>1 DEF PrintedEach, Turn
      <4>4. Len(printed') <= Len(sent')
        BY <1>1, <4>1, <4>2 DEF Turn
      <4> QED
        BY <1>1, <2>2, <4>3, <4>4 DEF PrintedEach
    <3> QED
      BY <1>1, <1>7, <3>1, <3>2, Processed
  <2>4. Framing'
    BY <1>1, <1>7, ProcessMessageFraming
  <2> QED
    BY <1>2, <2>2, <2>3, <2>4 DEF FInv
<1>8. CASE HandlerEnds
  <2>1. serving' = FALSE /\ UNCHANGED <<toServer, buf, waitingFor, printed, Incoming>>
    BY <1>8 DEF HandlerEnds, Incoming
  <2>2. ChannelTypeOK'
    BY <1>1, <1>3, <2>1 DEF ChannelTypeOK
  <2>3. PrintedEach'
    BY <1>1, <2>1 DEF PrintedEach
  <2>4. Framing'
    BY <2>1 DEF Framing
  <2> QED
    BY <1>2, <2>2, <2>3, <2>4 DEF FInv
<1> QED
  BY <1>4, <1>6, <1>7, <1>8 DEF ServerStep

\* The client ends, or asks for the next text, with all it sent behind it.
LEMMA ClientRests ==
  ASSUME FInv, UNCHANGED <<sent, torn, toServer, serverVars>>,
         toClient' \in Seq(AckParts),
         pc' \in {"input", "halted", "crashed"}, pc' = "input" => pc = "ack"
  PROVE  FInv'
<1>1. /\ ChannelTypeOK /\ TextsGrow /\ PrintedEach /\ Framing
      /\ UNCHANGED <<buf, waitingFor, serving, printed, Incoming, Current, LastIncoming, Turn>>
  BY DEF FInv, serverVars, Incoming, Current, LastIncoming, Turn
<1>2. ChannelTypeOK'
  BY <1>1 DEF ChannelTypeOK
<1>3. TextsGrow' /\ PrintedEach'
  BY <1>1 DEF TextsGrow, PrintedEach
<1>4. ASSUME serving
      PROVE  Chained' /\ Ends' /\ Begins'
  <2>1. Chained /\ Ends /\ Begins
    BY <1>1, <1>4 DEF Framing
  <2>2. Chained' /\ Begins'
    BY <1>1, <2>1 DEF Chained, Begins, Follows
  <2>3. Ends'
    BY <1>1, <2>1 DEF Ends
  <2> QED
    BY <2>2, <2>3
<1>5. Framing'
  BY <1>1, <1>4 DEF Framing
<1> QED
  BY <1>2, <1>3, <1>5 DEF FInv

\* What the client sends, and when it turns to the next attempt.
LEMMA ClientKeeps ==
  ASSUME FInv, CInv', Client
  PROVE  FInv'
<1>1. ChannelTypeOK /\ TextsGrow /\ toClient' \in Seq(AckParts)
  BY DEF FInv, CInv
<1>2. pc = "ack" => Current > 0
  BY <1>1 DEF TextsGrow, Current
<1>3. CASE Enter
  BY <1>3, AttemptKeeps, <1>1 DEF Enter
<1>4. CASE Send
  <2>1. SubSeq(Payload(Current), 1, 4) = Payload(Current)
    <3>1. Current \in Attempts
      <4>1. Len(sent) \in Nat /\ Len(sent) > 0 /\ Len(sent) <= MaxAttempts
        BY <1>1, <1>4, LenProperties DEF Send, TextsGrow, ChannelTypeOK
      <4> QED
        BY <4>1, BoundsAssumption DEF Current, Attempts
    <3> DEFINE p == Payload(Current)
    <3>3. p \in Seq(Parts) /\ Len(p) = 4
      BY <3>1, PayloadPrefix, 4 \in 0 .. 4
    <3> HIDE DEF p
    <3>4. SubSeq(p, 1, 4) = p
      BY <3>3, SubSeqFull
    <3> QED
      BY <3>4 DEF p
  <2>2. /\ pc = "send" /\ pc' = "ack" /\ toServer' = Sent(Payload(Current))
        /\ torn' = (torn \/ 4 \in 1 .. 3)
        /\ UNCHANGED <<sent, toClient, serverVars>>
    BY <1>1, <1>4 DEF Send, ChannelTypeOK
  <2> QED
    BY <2>1, <2>2, SendKeeps
<1>5. ASSUME NEW n \in 0 .. 3, SendFails(n)
      PROVE  FInv'
  <2>1. /\ pc = "send" /\ toServer' = Sent(SubSeq(Payload(Current), 1, n))
        /\ torn' = (torn \/ n > 0) /\ pc' \in {"send", "halted"}
        /\ UNCHANGED <<sent, toClient, serverVars>>
    BY <1>5 DEF SendFails
  <2>2. n \in 0 .. 4 /\ n < 4 /\ (n > 0 <=> n \in 1 .. 3)
    OBVIOUS
  <2>3. torn' = (torn \/ n \in 1 .. 3)
    BY <2>1, <2>2
  <2> QED
    BY <2>1, <2>2, <2>3, SendKeeps
<1>6. ASSUME Resend, pc = "ack", UNCHANGED <<torn, toServer, serverVars>>
      PROVE  FInv'
  BY <1>1, <1>2, <1>6, AttemptKeeps DEF Resend
<1>7. CASE RecvShort
  BY <1>6, <1>7 DEF RecvShort
<1>8. CASE RecvAck
  BY <1>1, <1>8, ClientRests DEF RecvAck
<1>9. CASE RecvNothing
  BY <1>1, <1>6, <1>9, ClientRests DEF RecvNothing
<1>10. CASE RecvTimeout
  BY <1>1, <1>10, ClientRests DEF RecvTimeout
<1> QED
  BY <1>3, <1>4, <1>5, <1>7, <1>8, <1>9, <1>10 DEF Client

\* Every step keeps the description.
LEMMA FramingKeeps ==
  ASSUME FInv, CInv', [ChannelNext]_channelVars
  PROVE  FInv'
<1>1. CASE UNCHANGED channelVars
  BY <1>1, ZenonT(30) DEF channelVars, clientVars, serverVars, FInv, ChannelTypeOK, TextsGrow,
       PrintedEach, Framing, Chained, Ends, Begins, Follows, LastIncoming, Incoming,
       Turn, Current
<1>2. CASE Client
  BY <1>2, ClientKeeps
<1>3. CASE ServerStep
  BY <1>3, ServerKeeps
<1> QED
  BY <1>1, <1>2, <1>3 DEF ChannelNext
-----------------------------------------------------------------------------
\* What the server has to read is, at every moment, what is left of the next
\* attempt and the attempts after it, as far as the client has sent them.
THEOREM ChannelFraming ==
  ChannelSpec => []FInv
<1>1. ChannelInit => FInv
  <2> SUFFICES ASSUME ChannelInit PROVE FInv
    OBVIOUS
  <2>1. sent = << >> /\ buf = << >> /\ toServer = << >> /\ printed = << >> /\ pc = "input"
        /\ waitingFor = -1 /\ torn = FALSE /\ serving = TRUE /\ toClient = << >>
    BY DEF ChannelInit
  <2>2. Len(sent) = 0 /\ Len(printed) = 0 /\ Incoming = << >> /\ Len(Incoming) = 0
    BY <2>1, ConcatEmptySeq DEF Incoming
  <2>3. ChannelTypeOK
    <3>1. \A S : << >> \in Seq(S)
      BY EmptySeq
    <3>2. Len(sent) <= MaxAttempts
      BY <2>2, BoundsAssumption
    <3> QED
      BY <2>1, <3>1, <3>2 DEF ChannelTypeOK
  <2>4. TextsGrow /\ PrintedEach
    BY <2>1, <2>2 DEF TextsGrow, PrintedEach
  <2>5. Framing
    BY <2>1, <2>2 DEF Framing, Chained, Ends, Begins, Current, Turn
  <2> QED
    BY <2>3, <2>4, <2>5 DEF FInv
<1>2. FInv /\ CInv' /\ [ChannelNext]_channelVars => FInv'
  BY FramingKeeps
<1> QED
  BY <1>1, <1>2, ChannelInvariant, PTL DEF ChannelSpec

\* As long as no message was sent in part, the server finds the beginning and
\* the end of every message, however TCP cuts the stream.
THEOREM ChannelWhole ==
  ChannelSpec => []Whole
<1>1. FInv => Whole
  <2> SUFFICES ASSUME FInv, serving, ~torn
               PROVE  /\ CanReadLength => \E a \in Attempts : SubSeq(buf, 1, 2) = LengthParts(a)
                      /\ CanProcess => \E a \in Attempts : SubSeq(buf, 1, waitingFor) = MessageParts(a)
    BY DEF Whole
  <2>1. ChannelTypeOK /\ Chained /\ Begins /\ buf \in Seq(Parts) /\ Len(buf) \in Nat
    BY LenProperties DEF FInv, Framing, ChannelTypeOK
  <2>2. ASSUME Len(buf) >= 2
        PROVE  /\ Follows(buf[1], buf[2]) /\ Incoming # << >> /\ Incoming[1] = buf[1]
               /\ buf[1].attempt \in Attempts
               /\ SubSeq(buf, 1, 2) = <<buf[1], buf[2]>>
    <3>1. Len(Incoming) \in Nat /\ Len(Incoming) >= 2 /\ Incoming # << >>
          /\ Incoming[1] = buf[1] /\ Incoming[2] = buf[2]
      BY <2>1, <2>2, IncomingType
    <3>2. Follows(Incoming[1], Incoming[1 + 1])
      BY <2>1, <3>1 DEF Chained
    <3>3. buf[1].attempt \in Attempts
      BY <2>1, <2>2, PartFields, ElementOfSeq
    <3> QED
      BY <2>1, <2>2, <3>1, <3>2, <3>3, FirstTwo
  <2>3. ASSUME CanReadLength
        PROVE  \E a \in Attempts : SubSeq(buf, 1, 2) = LengthParts(a)
    <3>1. Len(buf) >= 2 /\ waitingFor = -1
      BY <2>3 DEF CanReadLength
    <3>2. buf[1] = Part(Turn, 1)
      BY <2>1, <2>2, <3>1 DEF Begins
    <3>3. buf[2] = Part(Turn, 2) /\ Turn \in Attempts
      BY <2>2, <3>1, <3>2 DEF Follows, Part
    <3> QED
      BY <2>2, <3>1, <3>2, <3>3 DEF LengthParts
  <2>4. ASSUME CanProcess
        PROVE  \E a \in Attempts : SubSeq(buf, 1, waitingFor) = MessageParts(a)
    <3>1. waitingFor = 2 /\ Incoming # << >> /\ Incoming[1] = Part(Turn, 3)
      BY <2>1, <2>4 DEF Begins, CanProcess
    <3>2. Len(buf) >= 2
      BY <2>4, <3>1 DEF CanProcess
    <3>3. buf[1] = Part(Turn, 3)
      BY <2>2, <3>1, <3>2
    <3>4. buf[2] = Part(Turn, 4) /\ Turn \in Attempts
      BY <2>2, <3>2, <3>3 DEF Follows, Part
    <3> QED
      BY <2>2, <3>1, <3>2, <3>3, <3>4 DEF MessageParts
  <2> QED
    BY <2>3, <2>4
<1> QED
  BY <1>1, ChannelFraming, PTL
-----------------------------------------------------------------------------
(* The promise. *)

\* What the server prints, read as texts.
PrintedTexts == [i \in DOMAIN printed |-> sent[printed[i]]]

\* Printing attempts in their order prints texts in theirs: the one that was
\* printed last, or the next one.
LEMMA PrintedStep ==
  ASSUME FInv, printed' = Append(printed, Turn), Turn \in Attempts,
         UNCHANGED sent, Len(printed') <= Len(sent)
  PROVE  Promise!PrintNext \/ Promise!PrintAgain
<1> DEFINE t == sent[Turn]
<1>1. /\ sent \in Seq(Nat) /\ printed \in Seq(Attempts) /\ TextsGrow
      /\ Len(printed) \in Nat /\ Len(sent) \in Nat /\ DOMAIN printed = 1 .. Len(printed)
      /\ \A i \in 1 .. Len(printed) : printed[i] = i
  BY LenProperties DEF FInv, ChannelTypeOK, PrintedEach
<1>2. /\ printed' \in Seq(Attempts)
      /\ Len(printed') = Turn /\ DOMAIN printed' = 1 .. Turn
      /\ \A i \in 1 .. Turn : printed'[i] = i
  <2>1. /\ printed' \in Seq(Attempts)
        /\ Len(printed') = Len(printed) + 1
        /\ \A i \in 1 .. Len(printed) : printed'[i] = printed[i]
        /\ printed'[Len(printed) + 1] = Turn
    BY <1>1, AppendProperties
  <2>2. DOMAIN printed' = 1 .. Len(printed')
    BY <2>1, LenProperties
  <2> QED
    BY <1>1, <2>1, <2>2 DEF Turn
<1>3. Turn \in 1 .. Len(sent) /\ t \in Nat
  BY <1>1, <1>2, ElementOfSeq DEF Turn
<1>4. PrintedTexts \in Seq(Nat) /\ Len(PrintedTexts) = Len(printed)
      /\ \A i \in 1 .. Len(printed) : PrintedTexts[i] = sent[i]
  <2>1. \A i \in 1 .. Len(printed) : sent[printed[i]] = sent[i] /\ sent[i] \in Nat
    BY <1>1, <1>2, <1>3, ElementOfSeq DEF Turn
  <2>2. PrintedTexts \in [1 .. Len(printed) -> Nat]
    BY <1>1, <2>1 DEF PrintedTexts
  <2> QED
    BY <1>1, <2>1, <2>2, SeqDef, LenProperties DEF PrintedTexts
<1>5. PrintedTexts' = Append(PrintedTexts, t)
  <2>1. /\ Append(PrintedTexts, t) \in Seq(Nat)
        /\ Len(Append(PrintedTexts, t)) = Turn
        /\ \A i \in 1 .. Len(printed) : Append(PrintedTexts, t)[i] = sent[i]
        /\ Append(PrintedTexts, t)[Turn] = t
    BY <1>3, <1>4, AppendProperties DEF Turn
  <2>2. PrintedTexts' = [i \in 1 .. Turn |-> sent[i]]
    BY <1>2 DEF PrintedTexts
  <2>3. Append(PrintedTexts, t) = [i \in 1 .. Turn |-> sent[i]]
    <3>1. DOMAIN Append(PrintedTexts, t) = 1 .. Turn
      BY <2>1, LenProperties
    <3>2. \A i \in 1 .. Turn : Append(PrintedTexts, t)[i] = sent[i]
      BY <1>1, <2>1 DEF Turn
    <3> DEFINE f == Append(PrintedTexts, t)
    <3>3. f \in [1 .. Turn -> Nat]
      BY <2>1, <3>1, LenProperties
    <3> HIDE DEF f
    <3> QED
      BY <3>2, <3>3 DEF f
  <2> QED
    BY <2>2, <2>3
<1>6. Texts' = Texts /\ Texts = sent[Len(sent)] /\ t <= Texts
  <2>1. sent # << >>
    BY <1>1, <1>3, EmptySeq
  <2>2. Texts = sent[Len(sent)]
    BY <2>1 DEF Texts, Last
  <2>3. t <= sent[Len(sent)]
    <3>1. Len(sent) \in 1 .. Len(sent) /\ Turn <= Len(sent)
      BY <1>1, <1>3
    <3> QED
      BY <1>1, <1>3, <3>1 DEF TextsGrow
  <2> QED
    BY <2>2, <2>3 DEF Texts
<1> DEFINE latest == IF PrintedTexts = << >> THEN 0 ELSE PrintedTexts[Len(PrintedTexts)]
<1>7. latest \in Nat /\ (t = latest + 1 \/ (t = latest /\ PrintedTexts # << >>))
  <2>1. CASE Len(printed) = 0
    <3>1. PrintedTexts = << >> /\ t = 1
      BY <1>1, <1>3, <1>4, <2>1, EmptySeq DEF Turn, TextsGrow
    <3> QED
      BY <3>1
  <2>2. CASE Len(printed) > 0
    <3>1. PrintedTexts # << >> /\ latest = sent[Len(printed)]
      BY <1>1, <1>4, <2>2, EmptySeq
    <3>2. sent[Len(printed)] \in Nat
      BY <1>1, <1>3, <2>2, ElementOfSeq DEF Turn
    <3>3. t = sent[Len(printed)] \/ t = sent[Len(printed)] + 1
      <4>1. Len(printed) \in 1 .. Len(sent) - 1
        BY <1>1, <1>3, <2>2 DEF Turn
      <4> QED
        BY <1>1, <4>1 DEF Turn, TextsGrow
    <3> QED
      BY <3>1, <3>2, <3>3
  <2> QED
    BY <1>1, <2>1, <2>2
<1>8. PrintedTexts = [i \in DOMAIN printed |-> sent[printed[i]]]
  BY DEF PrintedTexts
<1>9. latest = Promise!Latest
  BY <1>8 DEF Promise!Latest
<1>10. CASE t = latest + 1
  <2>1. latest < Texts /\ Texts \in Nat
    BY <1>1, <1>6, <1>7, <1>10, <1>3, ElementOfSeq
  <2> QED
    BY <1>5, <1>6, <1>9, <1>10, <2>1 DEF Promise!PrintNext, PrintedTexts
<1>11. CASE t = latest /\ PrintedTexts # << >>
  BY <1>5, <1>6, <1>9, <1>11 DEF Promise!PrintAgain, PrintedTexts
<1> QED
  BY <1>7, <1>10, <1>11

\* The connection keeps its promise: every step prints a text that the promise
\* allows, or enters one, or is not seen from outside.
THEOREM ChannelRefinesAtLeastOnce ==
  ChannelSpec => AtLeastOnceInOrder
<1> DEFINE Seen == <<Texts, [i \in DOMAIN printed |-> sent[printed[i]]]>>
<1>1. ChannelInit => Promise!ChannelInit
  <2> SUFFICES ASSUME ChannelInit PROVE Promise!ChannelInit
    OBVIOUS
  <2>1. Texts = 0 /\ printed = << >>
    BY DEF ChannelInit, Texts
  <2>2. [i \in DOMAIN printed |-> sent[printed[i]]] = << >>
    BY <2>1
  <2> QED
    BY <2>1, <2>2 DEF Promise!ChannelInit
<1>2. FInv /\ FInv' /\ [ChannelNext]_channelVars => [Promise!ChannelNext]_Seen
  <2> SUFFICES ASSUME FInv, FInv', [ChannelNext]_channelVars
               PROVE  [Promise!ChannelNext]_Seen
    OBVIOUS
  <2>1. ASSUME UNCHANGED <<sent, printed>>
        PROVE  UNCHANGED Seen
    BY <2>1 DEF Texts
  <2>2. ASSUME NEW t, t = Texts + 1 \/ (t = Texts /\ Current > 0), Current < MaxAttempts,
               sent' = Append(sent, t), printed' = printed
        PROVE  /\ Texts' = t
               /\ [i \in DOMAIN printed |-> sent[printed[i]]]'
                    = [i \in DOMAIN printed |-> sent[printed[i]]]
    <3>1. ChannelTypeOK /\ TextsGrow /\ PrintedEach
      BY DEF FInv
    <3>2. Texts' = t /\ \A i \in 1 .. Len(sent) : sent'[i] = sent[i]
      BY <2>2, <3>1, NewAttempt
    <3>3. /\ Len(printed) \in Nat /\ DOMAIN printed = 1 .. Len(printed)
          /\ Len(sent) \in Nat /\ Len(printed) <= Len(sent)
          /\ \A i \in 1 .. Len(printed) : printed[i] = i
      BY <3>1, LenProperties DEF ChannelTypeOK, PrintedEach
    <3>4. \A i \in DOMAIN printed : sent'[printed[i]] = sent[printed[i]]
      BY <3>2, <3>3
    <3> QED
      BY <2>2, <3>2, <3>4
  <2>3. ASSUME Resend, pc = "ack", printed' = printed
        PROVE  UNCHANGED Seen
    <3>1. Current > 0
      BY <2>3 DEF FInv, TextsGrow, Current
    <3> QED
      BY <2>2, <2>3, <3>1 DEF Resend
  <2>4. CASE Enter
    <3>1. /\ Texts' = Texts + 1
          /\ [i \in DOMAIN printed |-> sent[printed[i]]]'
               = [i \in DOMAIN printed |-> sent[printed[i]]]
      BY <2>2, <2>4 DEF Enter, serverVars
    <3>2. Promise!EnterText
      BY <3>1 DEF Promise!EnterText
    <3> QED
      BY <3>2 DEF Promise!ChannelNext
  <2>5. CASE Send \/ (\E n \in 0 .. 3 : SendFails(n)) \/ RecvAck \/ RecvTimeout
    BY <2>1, <2>5 DEF Send, SendFails, RecvAck, RecvTimeout, serverVars
  <2>6. CASE RecvShort
    BY <2>3, <2>6 DEF RecvShort, serverVars
  <2>7. CASE RecvNothing
    BY <2>1, <2>3, <2>7 DEF RecvNothing, serverVars
  <2>8. CASE (\E n \in 1 .. 4 : Receive(n)) \/ ReadLength \/ HandlerEnds
    BY <2>1, <2>8 DEF Receive, ReadLength, HandlerEnds, clientVars
  <2>9. CASE ProcessMessage
    <3>1. ChannelTypeOK /\ Framing /\ sent' = sent
      BY <2>9 DEF ProcessMessage, clientVars, FInv
    <3>2. CASE printed' = printed
      BY <2>1, <3>1, <3>2
    <3>3. CASE printed' = Append(printed, Turn) /\ Turn \in Attempts
      <4>1. Len(printed') <= Len(sent)
        BY <3>1 DEF FInv, PrintedEach
      <4>2. Promise!PrintNext \/ Promise!PrintAgain
        BY <3>1, <3>3, <4>1, PrintedStep
      <4> QED
        BY <4>2 DEF Promise!ChannelNext
    <3> QED
      BY <2>9, <3>1, <3>2, <3>3, Processed
  <2>10. CASE UNCHANGED channelVars
    BY <2>1, <2>10 DEF channelVars, clientVars, serverVars
  <2> QED
    BY <2>4, <2>5, <2>6, <2>7, <2>8, <2>9, <2>10 DEF ChannelNext, Client, ServerStep
<1> QED
  BY <1>1, <1>2, ChannelFraming, PTL DEF ChannelSpec, AtLeastOnceInOrder, Promise!ChannelSpec
-----------------------------------------------------------------------------
(* The affine cipher. *)

Keys == [a : Int, b : Int]

\* A Crypto object has these fields, whatever they hold.
IsCrypto(object) ==
  /\ object = [f \in DOMAIN object |-> object[f]]
  /\ DOMAIN object = {"b", "inverse", "table", "hasTable"}

\* bestKey is the first of no key, or one that shows as many known words in the
\* line as is kept with it.
IsBest(best, line) ==
  \/ best = NoBest
  \/ /\ best.key \in AllKeys
     /\ best.known = Known(With(best.key, line))

\* Where the program is, and what it reads.
CipherShape ==
  /\ mode \in {"decrypt", "analyse"}
  /\ phase = "decrypt" => mode = "decrypt"
  /\ phase \in {"analyse", "guess"} => mode = "analyse"
  /\ phase = "encrypt" => output = << >>
  /\ userKey \in Keys
  /\ file \in Seq(Lines)
  /\ cipher \in Seq(Lines)
  /\ output \in Seq([text : Lines, key : Keys])
  /\ guesses \in Seq(AllKeys)
  /\ IsCrypto(trial) /\ IsCrypto(crypto)

\* What is decrypted is the file, encrypted with the user's key, line by line.
CipherOfFile ==
  \A l \in DOMAIN cipher : l \in DOMAIN file /\ cipher[l] = Encrypt(file[l], userKey)

AffineInv ==
  /\ CipherShape
  /\ CipherOfFile
  /\ phase = "guess" => IsBest(bestKey, cipher[Len(output) + 1])
  /\ LinesRestored
-----------------------------------------------------------------------------
(* Letters and numbers modulo 26. *)

\* The remainder as C++ has it, with 26 added if it is negative, is the one of
\* mathematics.
LEMMA ShiftedIs ==
  ASSUME NEW x \in Int
  PROVE  Shifted(x) \in Letters /\ \E q \in Int : x = 26 * q + Shifted(x)
<1>1. \A y \in Int : y % 26 \in 0 .. 25 /\ y \div 26 \in Int /\ y = 26 * (y \div 26) + (y % 26)
  BY Divides
<1>2. CASE x < 0
  <2> DEFINE r == (-x) % 26  q == (-x) \div 26
  <2>1. -x \in Int /\ r \in 0 .. 25 /\ q \in Int /\ -x = 26 * q + r
    BY <1>1
  <2>2. Rem(x, 26) = -r
    BY <1>2 DEF Rem
  <2> HIDE DEF r, q
  <2>3. CASE r = 0
    <3>1. Shifted(x) = 0
      BY <2>2, <2>3 DEF Shifted
    <3>2. -q \in Int /\ x = 26 * (-q) + 0
      BY <2>1, <2>3
    <3> QED
      BY <3>1, <3>2 DEF Letters
  <2>4. CASE r # 0
    <3>1. Shifted(x) = 26 - r
      BY <2>1, <2>2, <2>4 DEF Shifted
    <3>2. -q - 1 \in Int /\ x = 26 * (-q - 1) + (26 - r) /\ 26 - r \in 0 .. 25
      BY <2>1, <2>4
    <3> QED
      BY <3>1, <3>2 DEF Letters
  <2> QED
    BY <2>3, <2>4
<1>3. CASE ~(x < 0)
  <2>1. Rem(x, 26) = x % 26
    BY <1>3 DEF Rem
  <2>2. Shifted(x) = x % 26
    BY <1>1, <2>1 DEF Shifted
  <2> QED
    BY <1>1, <2>2 DEF Letters
<1> QED
  BY <1>2, <1>3

LEMMA ShiftedOnce ==
  ASSUME NEW x \in Int, NEW q \in Int, NEW r \in Letters, x = 26 * q + r
  PROVE  Shifted(x) = r
<1>1. Shifted(x) \in Letters
  BY ShiftedIs
<1>2. PICK p \in Int : x = 26 * p + Shifted(x)
  BY ShiftedIs
<1> QED
  BY <1>1, <1>2 DEF Letters

\* Multiplied by its entry in the table, a number leaves the remainder 1.
LEMMA TableInverts ==
  ASSUME NEW r \in Letters, Table[r + 1] # -1
  PROVE  Table[r + 1] \in Int /\ \E m \in Int : Table[r + 1] * r = 26 * m + 1
<1>1. r \in {1, 3, 5, 7, 9, 11, 15, 17, 19, 21, 23, 25}
  BY DEF Letters, Table
<1>2. /\ Table[2] = 1 /\ Table[4] = 9 /\ Table[6] = 21 /\ Table[8] = 15
      /\ Table[10] = 3 /\ Table[12] = 19 /\ Table[16] = 7 /\ Table[18] = 23
      /\ Table[20] = 11 /\ Table[22] = 5 /\ Table[24] = 17 /\ Table[26] = 25
  BY DEF Table
<1>3. /\ 1 * 1 = 26 * 0 + 1 /\ 9 * 3 = 26 * 1 + 1 /\ 21 * 5 = 26 * 4 + 1
      /\ 15 * 7 = 26 * 4 + 1 /\ 3 * 9 = 26 * 1 + 1 /\ 19 * 11 = 26 * 8 + 1
      /\ 7 * 15 = 26 * 4 + 1 /\ 23 * 17 = 26 * 15 + 1 /\ 11 * 19 = 26 * 8 + 1
      /\ 5 * 21 = 26 * 4 + 1 /\ 17 * 23 = 26 * 15 + 1 /\ 25 * 25 = 26 * 24 + 1
  OBVIOUS
<1>4. \E m \in {0, 1, 4, 8, 15, 24} : Table[r + 1] * r = 26 * m + 1
  BY <1>1, <1>2, <1>3
<1> QED
  BY <1>1, <1>2, <1>4

\* What multiplies to 1, whatever else it is multiplied by.
LEMMA InverseCancels ==
  ASSUME NEW a \in Int, NEW i \in Int, NEW m \in Int, i * a = 26 * m + 1, NEW c \in Int
  PROVE  /\ i * (c * a) = 26 * (m * c) + c
         /\ (i * c) * a = 26 * (m * c) + c
<1>1. /\ i * (c * a) = c * (i * a) /\ (i * c) * a = c * (i * a)
  BY SMTT(30)
<1>2. c * (26 * m + 1) = 26 * (m * c) + c
  BY SMTT(30)
<1> QED
  BY <1>1, <1>2

\* A letter that is encrypted and decrypted with one key is the letter again,
LEMMA LetterRestored ==
  ASSUME NEW a \in Int, NEW b \in Int, NEW i \in Int, NEW m \in Int, i * a = 26 * m + 1,
         NEW c \in Letters
  PROVE  DecryptChar(EncryptChar(c, a, b), i, b) = c
<1> DEFINE e == EncryptChar(c, a, b)
<1>1. c \in Int /\ c * a \in Int /\ c * a + b \in Int
  BY DEF Letters
<1>2. PICK q \in Int : c * a + b = 26 * q + e
  BY <1>1, ShiftedIs DEF EncryptChar
<1>3. e \in Int
  BY <1>1, ShiftedIs DEF EncryptChar, Letters
<1> HIDE DEF e
<1>4. e - b = c * a - 26 * q
  BY <1>1, <1>2, <1>3
<1>5. i * (e - b) = i * (c * a) - 26 * (i * q)
  <2> DEFINE ca == c * a
  <2>1. ca \in Int /\ e - b = ca - 26 * q
    BY <1>1, <1>4
  <2> HIDE DEF ca
  <2>2. i * (ca - 26 * q) = i * ca - 26 * (i * q)
    BY <2>1, SMTT(30)
  <2> QED
    BY <2>1, <2>2 DEF ca
<1>6. i * (c * a) = 26 * (m * c) + c
  BY <1>1, InverseCancels
<1>7. m * c \in Int /\ i * q \in Int /\ i * (e - b) \in Int
  BY <1>1, <1>3
<1>8. i * (e - b) = 26 * (m * c - i * q) + c
  <2> DEFINE mc == m * c  iq == i * q
  <2>1. mc \in Int /\ iq \in Int /\ i * (e - b) = (26 * mc + c) - 26 * iq
    BY <1>5, <1>6, <1>7
  <2> HIDE DEF mc, iq
  <2>2. (26 * mc + c) - 26 * iq = 26 * (mc - iq) + c
    BY <1>1, <2>1
  <2> QED
    BY <2>1, <2>2 DEF mc, iq
<1>9. m * c - i * q \in Int
  BY <1>7
<1>10. Shifted(i * (e - b)) = c
  BY <1>7, <1>8, <1>9, ShiftedOnce
<1> QED
  BY <1>10 DEF DecryptChar, e

\* and so is one that is decrypted and encrypted.
LEMMA LetterEncryptedAgain ==
  ASSUME NEW a \in Int, NEW b \in Int, NEW i \in Int, NEW m \in Int, i * a = 26 * m + 1,
         NEW c \in Letters
  PROVE  EncryptChar(DecryptChar(c, i, b), a, b) = c
<1> DEFINE d == DecryptChar(c, i, b)
<1>1. c \in Int /\ c - b \in Int /\ i * (c - b) \in Int
  BY DEF Letters
<1>2. PICK q \in Int : i * (c - b) = 26 * q + d
  BY <1>1, ShiftedIs DEF DecryptChar
<1>3. d \in Int
  BY <1>1, ShiftedIs DEF DecryptChar, Letters
<1> HIDE DEF d
<1>4. (i * (c - b)) * a = 26 * (m * (c - b)) + (c - b)
  BY <1>1, InverseCancels
<1>5. (i * (c - b)) * a = 26 * (q * a) + d * a
  <2>1. (26 * q + d) * a = 26 * (q * a) + d * a
    BY <1>3, SMTT(30)
  <2> QED
    BY <1>2, <2>1
<1>6. m * (c - b) \in Int /\ q * a \in Int /\ d * a \in Int
  BY <1>1, <1>3
<1>7. d * a + b = 26 * (m * (c - b) - q * a) + c
  <2> DEFINE mc == m * (c - b)  qa == q * a  da == d * a
  <2>1. mc \in Int /\ qa \in Int /\ da \in Int /\ 26 * qa + da = 26 * mc + (c - b)
    BY <1>4, <1>5, <1>6
  <2> HIDE DEF mc, qa, da
  <2>2. da + b = 26 * (mc - qa) + c
    BY <1>1, <2>1
  <2> QED
    BY <2>2 DEF mc, qa, da
<1>8. d * a + b \in Int /\ m * (c - b) - q * a \in Int
  BY <1>6
<1>9. Shifted(d * a + b) = c
  BY <1>7, <1>8, ShiftedOnce
<1> QED
  BY <1>9 DEF EncryptChar, d

-----------------------------------------------------------------------------
(* Lines, and the tables that they are decrypted with. *)

LEMMA OnLettersType ==
  ASSUME NEW line \in Lines, NEW table \in [Letters -> Letters]
  PROVE  OnLetters(line, table) \in Lines /\ Len(OnLetters(line, table)) = Len(line)
<1> DEFINE letters(w) == [i \in DOMAIN line[w] |-> table[line[w][i]]]
           out == [w \in DOMAIN line |-> letters(w)]
<1>1. /\ Len(line) \in Nat /\ DOMAIN line = 1 .. Len(line)
      /\ \A w \in DOMAIN line : line[w] \in Seq(Letters)
  BY DEF Lines
<1>2. ASSUME NEW w \in DOMAIN line PROVE letters(w) \in Seq(Letters)
  <2> DEFINE s == line[w]
  <2>1. s \in Seq(Letters)
    BY <1>1
  <2> HIDE DEF s
  <2>2. \A i \in DOMAIN s : s[i] \in Letters /\ table[s[i]] \in Letters
    BY <2>1
  <2>3. [i \in DOMAIN s |-> table[s[i]]] \in [1 .. Len(s) -> Letters] /\ Len(s) \in Nat
    BY <2>1, <2>2
  <2>4. [i \in DOMAIN s |-> table[s[i]]] \in Seq(Letters)
    BY <2>3
  <2> QED
    BY <2>4 DEF s
<1> HIDE DEF letters
<1>3. out \in [1 .. Len(line) -> Seq(Letters)] /\ DOMAIN out = 1 .. Len(line)
  BY <1>1, <1>2
<1>4. out \in Seq(Seq(Letters)) /\ Len(out) = Len(line)
  BY <1>1, <1>3
<1> QED
  BY <1>4 DEF OnLetters, letters, Lines

\* Two tables that cancel on letters cancel on lines.
LEMMA OnLettersCancel ==
  ASSUME NEW line \in Lines, NEW first, NEW second,
         \A c \in Letters : second[first[c]] = c
  PROVE  OnLetters(OnLetters(line, first), second) = line
<1> DEFINE mid == OnLetters(line, first)
<1>1. /\ line = [w \in DOMAIN line |-> line[w]]
      /\ \A w \in DOMAIN line : line[w] \in Seq(Letters)
  BY DEF Lines
<1>2. DOMAIN mid = DOMAIN line
  BY DEF OnLetters
<1>3. ASSUME NEW w \in DOMAIN line
      PROVE  [i \in DOMAIN mid[w] |-> second[mid[w][i]]] = line[w]
  <2> DEFINE s == line[w]
  <2>1. s \in Seq(Letters) /\ s = [i \in DOMAIN s |-> s[i]] /\ \A i \in DOMAIN s : s[i] \in Letters
    BY <1>1
  <2>2. mid[w] = [i \in DOMAIN s |-> first[s[i]]]
    BY DEF OnLetters
  <2> HIDE DEF s, mid
  <2>3. [i \in DOMAIN mid[w] |-> second[mid[w][i]]] = [i \in DOMAIN s |-> s[i]]
    BY <2>1, <2>2
  <2> QED
    BY <2>1, <2>3 DEF s
<1> HIDE DEF mid
<1>4. [w \in DOMAIN mid |-> [i \in DOMAIN mid[w] |-> second[mid[w][i]]]]
        = [w \in DOMAIN line |-> line[w]]
  BY <1>2, <1>3
<1> QED
  BY <1>1, <1>4 DEF OnLetters, mid

\* The tables of a key and of its inverse.
EncryptTable(key) == [c \in Letters |-> EncryptChar(c, key.a, key.b)]

DecryptTable(inverse, key) == [c \in Letters |-> DecryptChar(c, inverse, key.b)]

LEMMA TablesType ==
  ASSUME NEW key \in Keys, NEW inverse \in Int
  PROVE  /\ EncryptTable(key) \in [Letters -> Letters]
         /\ DecryptTable(inverse, key) \in [Letters -> Letters]
<1>1. key.a \in Int /\ key.b \in Int
  BY DEF Keys
<1>2. ASSUME NEW c \in Letters
      PROVE  EncryptChar(c, key.a, key.b) \in Letters /\ DecryptChar(c, inverse, key.b) \in Letters
  <2>1. c * key.a + key.b \in Int /\ inverse * (c - key.b) \in Int
    BY <1>1 DEF Letters
  <2> QED
    BY <2>1, ShiftedIs DEF EncryptChar, DecryptChar
<1> QED
  BY <1>2 DEF EncryptTable, DecryptTable

\* A Crypto object that was given a key has the table of that key, whatever it
\* was used for before.
LEMMA FreshTable ==
  ASSUME NEW object, IsCrypto(object), NEW key, NEW inverse
  PROVE  LET new == MakeDecryptTable(InitCrypto(object, key, inverse))
         IN  /\ IsCrypto(new)
             /\ new.table = DecryptTable(inverse, key)
             /\ new.inverse = inverse
<1> DEFINE given == InitCrypto(object, key, inverse)
           made == MakeDecryptTable(given)
<1>1. /\ given = [f \in DOMAIN given |-> given[f]] /\ DOMAIN given = DOMAIN object
      /\ given.b = key.b /\ given.inverse = inverse /\ given.hasTable = FALSE
  BY DEF IsCrypto, InitCrypto
<1> HIDE DEF given
<1>2. made = [given EXCEPT !.table = [c \in Letters |-> DecryptChar(c, given.inverse, given.b)],
                           !.hasTable = TRUE]
  BY <1>1 DEF MakeDecryptTable
<1>3. /\ made = [f \in DOMAIN made |-> made[f]] /\ DOMAIN made = DOMAIN given
      /\ made.inverse = given.inverse
      /\ made.table = [c \in Letters |-> DecryptChar(c, given.inverse, given.b)]
  <2> DEFINE table == [c \in Letters |-> DecryptChar(c, given.inverse, given.b)]
  <2>1. made = [given EXCEPT !.table = table, !.hasTable = TRUE]
    BY <1>2
  <2> HIDE DEF table, made
  <2>2. DOMAIN given = {"b", "inverse", "table", "hasTable"}
    BY <1>1 DEF IsCrypto
  <2>3. /\ made = [f \in DOMAIN made |-> made[f]] /\ DOMAIN made = DOMAIN given
        /\ made.inverse = given.inverse /\ made.table = table
    BY <1>1, <2>1, <2>2
  <2> QED
    BY <2>3 DEF table
<1> HIDE DEF made
<1> QED
  BY <1>1, <1>3 DEF IsCrypto, DecryptTable, given, made

LEMMA NewIsCrypto == IsCrypto(NewCrypto)
BY DEF IsCrypto, NewCrypto

\* A line that is decrypted, with an object that was used before or a new one.
LEMMA DecryptedBy ==
  ASSUME NEW object, IsCrypto(object), NEW key, NEW inverse, NEW line
  PROVE  Decrypted(MakeDecryptTable(InitCrypto(object, key, inverse)), line)
           = OnLetters(line, DecryptTable(inverse, key))
BY FreshTable DEF Decrypted

LEMMA WithIs ==
  ASSUME NEW object, IsCrypto(object), NEW key, NEW line
  PROVE  /\ With(key, line) = OnLetters(line, DecryptTable(Table[key.a + 1], key))
         /\ Decrypted(MakeDecryptTable(InitCrypto(object, key, Table[key.a + 1])), line)
              = With(key, line)
BY DecryptedBy, NewIsCrypto DEF With

\* A key whose inverse the table has.
LEMMA KeyInverts ==
  ASSUME NEW k \in Int, k >= 0, NEW inverse \in Inverses(k), inverse # -1
  PROVE  inverse \in Int /\ \E m \in Int : inverse * k = 26 * m + 1
<1> DEFINE r == k % 26  q == k \div 26
<1>1. r \in 0 .. 25 /\ q \in Int /\ k = 26 * q + r
  BY Divides
<1>2. Rem(k, 26) = r
  BY DEF Rem
<1>3. inverse = Table[r + 1]
  BY <1>1, <1>2 DEF Inverses
<1> HIDE DEF r, q
<1>4. inverse \in Int /\ \E m \in Int : inverse * r = 26 * m + 1
  BY <1>1, <1>3, TableInverts DEF Letters
<1>5. PICK m \in Int : inverse * r = 26 * m + 1
  BY <1>4
<1>6. inverse * (26 * q + r) = 26 * (inverse * q) + inverse * r
  BY <1>1, <1>4, SMTT(30)
<1>7. inverse * q \in Int /\ inverse * q + m \in Int
  BY <1>1, <1>4
<1>8. inverse * k = 26 * (inverse * q + m) + 1
  BY <1>1, <1>5, <1>6, <1>7
<1> QED
  BY <1>4, <1>7, <1>8

\* With the key it was encrypted with, a line is restored.
LEMMA LineRestored ==
  ASSUME NEW key \in Keys, key.a >= 0, NEW inverse \in Inverses(key.a), inverse # -1,
         NEW line \in Lines
  PROVE  OnLetters(Encrypt(line, key), DecryptTable(inverse, key)) = line
<1>1. key.a \in Int /\ key.b \in Int
  BY DEF Keys
<1>2. inverse \in Int /\ \E m \in Int : inverse * key.a = 26 * m + 1
  BY <1>1, KeyInverts
<1>3. ASSUME NEW c \in Letters PROVE DecryptTable(inverse, key)[EncryptTable(key)[c]] = c
  <2>1. DecryptChar(EncryptChar(c, key.a, key.b), inverse, key.b) = c
    BY <1>1, <1>2, LetterRestored
  <2>2. EncryptTable(key) \in [Letters -> Letters]
    BY <1>2, TablesType
  <2> QED
    BY <2>1, <2>2 DEF EncryptTable, DecryptTable
<1>4. Encrypt(line, key) = OnLetters(line, EncryptTable(key))
  BY DEF Encrypt, EncryptTable
<1> QED
  BY <1>3, <1>4, OnLettersCancel

\* The keys that the analysis tries have an inverse.
LEMMA AllKeysInvert ==
  ASSUME NEW key \in AllKeys
  PROVE  /\ key \in Keys /\ Table[key.a + 1] \in Int /\ Table[key.a + 1] # -1
         /\ \E m \in Int : Table[key.a + 1] * key.a = 26 * m + 1
<1>1. key.a \in AKeyOpts /\ key.b \in Letters /\ key \in Keys
  BY DEF AllKeys, Keys, AKeyOpts, Letters
<1>2. key.a \in Letters
  BY <1>1 DEF AKeyOpts, Letters
<1>3. Table[key.a + 1] # -1
  BY <1>1 DEF AKeyOpts, Table
<1> QED
  BY <1>1, <1>2, <1>3, TableInverts

\* What one of them makes of a line, encrypted again, is the line.
LEMMA WithRestores ==
  ASSUME NEW key \in AllKeys, NEW line \in Lines
  PROVE  /\ With(key, line) \in Lines
         /\ Len(With(key, line)) = Len(line)
         /\ Encrypt(With(key, line), key) = line
<1> DEFINE inverse == Table[key.a + 1]
<1>1. /\ key \in Keys /\ inverse \in Int /\ key.a \in Int /\ key.b \in Int
      /\ \E m \in Int : inverse * key.a = 26 * m + 1
  BY AllKeysInvert DEF Keys
<1>2. With(key, line) = OnLetters(line, DecryptTable(inverse, key))
  BY NewIsCrypto, WithIs
<1> HIDE DEF inverse
<1>3. DecryptTable(inverse, key) \in [Letters -> Letters]
  BY <1>1, TablesType
<1>4. ASSUME NEW c \in Letters PROVE EncryptTable(key)[DecryptTable(inverse, key)[c]] = c
  <2>1. EncryptChar(DecryptChar(c, inverse, key.b), key.a, key.b) = c
    BY <1>1, LetterEncryptedAgain
  <2> QED
    BY <1>3, <2>1 DEF EncryptTable, DecryptTable
<1>5. Encrypt(With(key, line), key) = OnLetters(With(key, line), EncryptTable(key))
  BY DEF Encrypt, EncryptTable
<1> QED
  BY <1>2, <1>3, <1>4, <1>5, OnLettersType, OnLettersCancel

-----------------------------------------------------------------------------
(* Known words. *)

\* All lines of a length have the same number of words, of which some are known.
LEMMA KnownIs ==
  ASSUME NEW line \in Lines
  PROVE  /\ Len(Counted(line)) = Len(line) + 1
         /\ Known(line) \in Nat /\ Known(line) <= Len(line) + 1
<1>1. Len(line) \in Nat /\ line \in Seq(Seq(Letters))
  BY DEF Lines
<1>2. Len(Counted(line)) = Len(line) + 1 /\ DOMAIN Counted(line) = 1 .. Len(line) + 1
  <2>1. CASE line = << >>
    BY <1>1, <2>1 DEF Counted
  <2>2. CASE line # << >>
    <3>1. Counted(line) = Append(line, line[Len(line)])
      BY <2>2 DEF Counted, Last
    <3>2. line[Len(line)] \in Seq(Letters)
      BY <1>1, <2>2
    <3> QED
      BY <1>1, <3>1, <3>2
  <2> QED
    BY <2>1, <2>2
<1> DEFINE all == 1 .. Len(line) + 1
           known == {i \in all : Counted(line)[i] \in KnownWords}
<1>3. IsFiniteSet(all) /\ Cardinality(all) = Len(line) + 1
  BY <1>1, FS_Interval
<1>4. IsFiniteSet(known) /\ Cardinality(known) <= Cardinality(all)
  BY <1>3, FS_Subset
<1>5. Cardinality(known) \in Nat
  BY <1>4, FS_CardinalityType
<1>6. Known(line) = Cardinality(known)
  BY <1>2 DEF Known
<1> QED
  BY <1>2, <1>3, <1>4, <1>5, <1>6

LEMMA MaxOfBounded ==
  ASSUME NEW S \in SUBSET Nat, S # {}, NEW n \in Nat, \A x \in S : x <= n
  PROVE  Max(S) \in S /\ \A x \in S : x <= Max(S)
<1> DEFINE T == {u \in Nat : \A x \in S : x <= u}
<1>1. T \in SUBSET Nat /\ T # {}
  OBVIOUS
<1>2. PICK u \in T : \A v \in T : u <= v
  BY <1>1, Least
<1>3. u \in S
  <2> SUFFICES ASSUME u \notin S PROVE FALSE
    OBVIOUS
  <2>1. PICK x \in S : x \in Nat
    OBVIOUS
  <2>2. \A y \in S : y \in Nat /\ y <= u /\ y # u
    BY <1>2
  <2>3. u - 1 \in Nat /\ \A y \in S : y <= u - 1
    BY <1>2, <2>1, <2>2
  <2>4. u - 1 \in T
    BY <2>3
  <2> QED
    BY <1>2, <2>4
<1>4. \E x \in S : \A y \in S : x >= y
  BY <1>2, <1>3
<1>5. Max(S) \in S /\ \A y \in S : Max(S) >= y
  BY <1>4 DEF Max
<1> QED
  BY <1>5

LEMMA MinOfNaturals ==
  ASSUME NEW S \in SUBSET Nat, S # {}
  PROVE  Min(S) \in S
<1>1. \E x \in S : \A y \in S : x <= y
  BY Least
<1> QED
  BY <1>1 DEF Min

\* The dictionary finds the key with most known words, if any key has some.
LEMMA FindByDictionaryIs ==
  ASSUME NEW line \in Lines
  PROVE  LET found == FindByDictionary(line)
         IN  /\ found.known \in Nat
             /\ \A k \in AllKeys : Known(With(k, line)) <= found.known
             /\ found.known # 0 => /\ found.key \in AllKeys
                                   /\ Known(With(found.key, line)) = found.known
<1> DEFINE S == {Known(With(k, line)) : k \in AllKeys}
           most == Max(S)
           A == {k.a : k \in {k \in AllKeys : Known(With(k, line)) = most}}
           a == Min(A)
           B == {k.b : k \in {k \in AllKeys : k.a = a /\ Known(With(k, line)) = most}}
           b == Min(B)
<1>1. \A k \in AllKeys : Known(With(k, line)) \in Nat /\ Known(With(k, line)) <= Len(line) + 1
  BY WithRestores, KnownIs
<1>2. \A k \in AllKeys : k.a \in Nat /\ k.b \in Nat /\ k = Key(k.a, k.b)
  BY DEF AllKeys, AKeyOpts, Letters, Key
<1>3. Key(1, 0) \in AllKeys
  BY DEF AllKeys, AKeyOpts, Letters, Key
<1>4. most \in S /\ \A x \in S : x <= most
  <2>1. S \in SUBSET Nat /\ S # {} /\ \A x \in S : x <= Len(line) + 1
    BY <1>1, <1>3
  <2>2. Len(line) + 1 \in Nat
    BY DEF Lines
  <2> HIDE DEF S
  <2> QED
    BY <2>1, <2>2, MaxOfBounded
<1>5. FindByDictionary(line)
        = [key |-> IF most = 0 THEN NoKey ELSE Key(a, b), known |-> most]
  BY DEF FindByDictionary
<1> HIDE DEF most
<1>6. A \in SUBSET Nat /\ A # {}
  BY <1>2, <1>4
<1>7. a \in A
  <2> HIDE DEF A
  <2> QED
    BY <1>6, MinOfNaturals
<1> HIDE DEF a
<1>8. B \in SUBSET Nat /\ B # {}
  BY <1>2, <1>7
<1>9. b \in B
  <2> HIDE DEF B
  <2> QED
    BY <1>8, MinOfNaturals
<1> HIDE DEF b
<1>10. Key(a, b) \in AllKeys /\ Known(With(Key(a, b), line)) = most
  BY <1>2, <1>9
<1>11. most \in Nat /\ \A k \in AllKeys : Known(With(k, line)) <= most
  BY <1>1, <1>4
<1> QED
  BY <1>5, <1>10, <1>11

LEMMA NoKeyHasNone == Table[NoKey.a + 1] = -1
BY DEF NoKey, Key, Table

\* The key that is printed shows a known word in five, or as many as any key.
LEMMA ChosenKeyIs ==
  ASSUME NEW line \in Lines, NEW best, IsBest(best, line),
         Table[ChosenKey(best, line).a + 1] # -1
  PROVE  LET key  == ChosenKey(best, line)
             text == With(key, line)
         IN  /\ key \in AllKeys
             /\ \/ Sufficient(Known(text), text)
                \/ \A k \in AllKeys : Known(With(k, line)) <= Known(text)
<1> DEFINE key == ChosenKey(best, line)
           text == With(key, line)
           found == FindByDictionary(line)
<1>1. /\ found.known \in Nat
      /\ \A k \in AllKeys : Known(With(k, line)) <= found.known
      /\ found.known # 0 => /\ found.key \in AllKeys
                            /\ Known(With(found.key, line)) = found.known
  BY FindByDictionaryIs
<1>2. key = IF Sufficient(best.known, line) THEN best.key
            ELSE IF found.known > best.known THEN found.key
            ELSE best.key
  BY DEF ChosenKey
<1>3. key # NoKey
  BY NoKeyHasNone
<1>4. best = NoBest => best.key = NoKey /\ best.known = 0
  BY DEF NoBest
<1>5. \A k \in AllKeys : /\ Known(With(k, line)) \in Nat
                         /\ Len(Counted(With(k, line))) = Len(Counted(line))
  BY WithRestores, KnownIs
<1>6. best.known \in Nat
  BY <1>4, <1>5 DEF IsBest
<1>7. ASSUME key = best.key PROVE key \in AllKeys /\ Known(text) = best.known
  BY <1>3, <1>4, <1>7 DEF IsBest
<1> HIDE DEF found, key
<1>8. CASE Sufficient(best.known, line)
  <2>1. key = best.key
    BY <1>2, <1>8
  <2> QED
    BY <1>5, <1>7, <1>8, <2>1 DEF Sufficient, key
<1>9. CASE ~Sufficient(best.known, line) /\ found.known > best.known
  <2>1. key = found.key
    BY <1>2, <1>9
  <2>2. found.known # 0
    BY <1>1, <1>6, <1>9
  <2>3. key \in AllKeys /\ Known(text) = found.known
    BY <1>1, <2>1, <2>2
  <2> QED
    BY <1>1, <2>3 DEF key
<1>10. CASE ~Sufficient(best.known, line) /\ ~(found.known > best.known)
  <2>1. key = best.key
    BY <1>2, <1>10
  <2>2. key \in AllKeys /\ Known(text) = best.known
    BY <1>7, <2>1
  <2>3. \A k \in AllKeys : Known(With(k, line)) <= Known(text)
    BY <1>1, <1>5, <1>6, <1>10, <2>2
  <2> QED
    BY <2>2, <2>3 DEF key
<1> QED
  BY <1>8, <1>9, <1>10

-----------------------------------------------------------------------------
(* The steps. *)

\* What LinesRestored says of one line that is printed.
Restored(text, key, l) ==
  /\ mode = "decrypt" /\ userKey.a >= 0 => text = file[l]
  /\ mode = "analyse" =>
       /\ Encrypt(text, key) = cipher[l]
       /\ \/ Sufficient(Known(text), text)
          \/ \A k \in AllKeys : Known(With(k, cipher[l])) <= Known(text)

LEMMA RestoredIs ==
  LinesRestored <=> \A l \in DOMAIN output : Restored(output[l].text, output[l].key, l)
BY DEF LinesRestored, Restored

LEMMA InverseType ==
  ASSUME NEW a \in Int, NEW inverse \in Inverses(a)
  PROVE  inverse \in Int
<1>1. CASE Rem(a, 26) < 0
  BY <1>1, CipherAssumption DEF Inverses
<1>2. CASE ~(Rem(a, 26) < 0)
  <2> DEFINE r == Rem(a, 26)
  <2>1. a % 26 \in 0 .. 25 /\ (-a) % 26 \in 0 .. 25 /\ -a \in Int
    BY Divides
  <2>2. r \in 0 .. 25
    BY <1>2, <2>1 DEF Rem
  <2>3. inverse = Table[r + 1]
    BY <1>2 DEF Inverses
  <2> HIDE DEF r
  <2>4. CASE Table[r + 1] = -1
    BY <2>3, <2>4
  <2>5. CASE Table[r + 1] # -1
    BY <2>2, <2>3, <2>5, TableInverts DEF Letters
  <2> QED
    BY <2>4, <2>5
<1> QED
  BY <1>1, <1>2

\* A line that is printed as it has to be.
LEMMA PrintedKeeps ==
  ASSUME AffineInv, NEW text \in Lines, NEW key \in Keys, Printed(text, key),
         Restored(text, key, Len(output) + 1),
         UNCHANGED <<mode, userKey, file, cipher>>
  PROVE  /\ output' \in Seq([text : Lines, key : Keys])
         /\ LinesRestored'
<1> DEFINE entry == [text |-> text, key |-> key]
           N == Len(output)
<1>1. /\ output \in Seq([text : Lines, key : Keys])
      /\ \A l \in DOMAIN output : Restored(output[l].text, output[l].key, l)
  BY RestoredIs DEF AffineInv, CipherShape
<1>2. output' = Append(output, entry) /\ entry \in [text : Lines, key : Keys]
  BY DEF Printed
<1>3. /\ N \in Nat /\ DOMAIN output = 1 .. N /\ DOMAIN output' = 1 .. N + 1
      /\ \A l \in 1 .. N : output'[l] = output[l]
      /\ output'[N + 1] = entry
  BY <1>1, <1>2
<1>4. ASSUME NEW l \in DOMAIN output' PROVE Restored(output'[l].text, output'[l].key, l)
  <2>1. CASE l \in 1 .. N
    BY <1>1, <1>3, <2>1
  <2>2. CASE l = N + 1
    <3>1. output'[l].text = text /\ output'[l].key = key
      BY <1>3, <2>2
    <3> QED
      BY <2>2, <3>1
  <2> QED
    BY <1>3, <2>1, <2>2
<1>5. LinesRestored'
  BY <1>4 DEF LinesRestored, Restored
<1> QED
  BY <1>1, <1>2, <1>5

LEMMA AffineInitHolds == AffineInit => AffineInv
<1> SUFFICES ASSUME AffineInit PROVE AffineInv
  OBVIOUS
<1>1. PICK how \in {"decrypt", "analyse"}, key \in UserKeys, lines \in Files :
        AffineStart(how, key, lines)
  BY DEF AffineInit
<1>2. /\ mode \in {"decrypt", "analyse"} /\ userKey \in Keys /\ file \in Seq(Lines)
      /\ cipher = << >> /\ output = << >> /\ guesses = << >> /\ phase = "encrypt"
      /\ trial = NewCrypto /\ crypto = NewCrypto
  BY <1>1, CipherAssumption DEF AffineStart, Keys
<1>3. /\ cipher \in Seq(Lines) /\ output \in Seq([text : Lines, key : Keys])
      /\ guesses \in Seq(AllKeys) /\ DOMAIN cipher = {} /\ DOMAIN output = {}
  BY <1>2
<1>4. CipherShape
  BY <1>2, <1>3, NewIsCrypto DEF CipherShape
<1>5. CipherOfFile /\ LinesRestored
  BY <1>3 DEF CipherOfFile, LinesRestored
<1> QED
  BY <1>2, <1>4, <1>5 DEF AffineInv

\* The file is encrypted.
LEMMA EncryptFileKeeps ==
  ASSUME AffineInv, EncryptFile
  PROVE  AffineInv'
<1>1. CipherShape /\ CipherOfFile /\ output = << >> /\ phase = "encrypt"
  BY DEF AffineInv, CipherShape, EncryptFile
<1>2. UNCHANGED <<mode, userKey, file, guesses, bestKey, trial, crypto, output>>
  BY DEF EncryptFile
<1>3. \/ phase' = "invalid key" /\ cipher' = cipher
      \/ /\ phase' = mode
         /\ cipher' = [l \in DOMAIN file |-> Encrypt(file[l], userKey)]
  BY DEF EncryptFile
<1>4. ASSUME NEW l \in DOMAIN file PROVE Encrypt(file[l], userKey) \in Lines
  <2>1. file[l] \in Lines /\ userKey \in Keys
    BY <1>1 DEF CipherShape
  <2>2. EncryptTable(userKey) \in [Letters -> Letters]
    <3>1. 0 \in Int
      OBVIOUS
    <3> QED
      BY <2>1, <3>1, TablesType
  <2> QED
    BY <2>1, <2>2, OnLettersType DEF Encrypt, EncryptTable
<1>5. cipher' \in Seq(Lines) /\ CipherOfFile'
  <2>1. CASE cipher' = cipher
    BY <1>1, <1>2, <2>1 DEF CipherShape, CipherOfFile
  <2>2. CASE cipher' = [l \in DOMAIN file |-> Encrypt(file[l], userKey)]
    <3>1. file \in Seq(Lines)
      BY <1>1 DEF CipherShape
    <3>2. Len(file) \in Nat /\ DOMAIN file = 1 .. Len(file)
      BY <3>1
    <3>3. cipher' \in [1 .. Len(file) -> Lines]
      BY <1>4, <2>2, <3>2
    <3>4. cipher' \in Seq(Lines)
      BY <3>2, <3>3
    <3>5. DOMAIN cipher' = DOMAIN file /\ \A l \in DOMAIN file : cipher'[l] = Encrypt(file[l], userKey)
      BY <2>2
    <3> QED
      BY <1>2, <3>4, <3>5 DEF CipherOfFile
  <2> QED
    BY <1>3, <2>1, <2>2
<1>6. CipherShape'
  BY <1>1, <1>2, <1>3, <1>5 DEF CipherShape, IsCrypto
<1>7. LinesRestored'
  <2>1. DOMAIN output' = {}
    BY <1>1, <1>2
  <2> QED
    BY <2>1 DEF LinesRestored
<1>8. phase' # "guess"
  BY <1>1, <1>3 DEF CipherShape
<1> QED
  BY <1>5, <1>6, <1>7, <1>8 DEF AffineInv

\* A line is decrypted with the user's key.
LEMMA DecryptLineKeeps ==
  ASSUME AffineInv, NEW l \in 1 .. Len(file), DecryptLine(l)
  PROVE  AffineInv'
<1>1. CipherShape /\ CipherOfFile /\ LinesRestored /\ phase = "decrypt" /\ mode = "decrypt"
  BY DEF AffineInv, CipherShape, DecryptLine
<1>2. UNCHANGED <<mode, userKey, file, cipher, guesses, bestKey, trial, crypto>>
  BY DEF DecryptLine
<1>3. l \in DOMAIN cipher /\ l = Len(output) + 1
  <2>1. Len(output) \in Nat /\ l \in Int
    BY <1>1 DEF CipherShape
  <2>2. IsNext(l)
    BY DEF DecryptLine
  <2> QED
    BY <2>1, <2>2 DEF IsNext
<1>4. cipher[l] \in Lines /\ file[l] \in Lines /\ userKey \in Keys /\ userKey.a \in Int
  BY <1>1, <1>3 DEF CipherShape, CipherOfFile, Keys
<1>5. phase' \in {"invalid key", "decrypt"}
  BY <1>1 DEF DecryptLine
<1>6. output' \in Seq([text : Lines, key : Keys]) /\ LinesRestored'
  <2>1. PICK inverse \in Inverses(userKey.a) :
          IF inverse = -1 THEN output' = output
          ELSE Printed(Decrypted(MakeDecryptTable(InitCrypto(NewCrypto, userKey, inverse)),
                                 cipher[l]), userKey)
    BY DEF DecryptLine
  <2>2. CASE inverse = -1
    BY <1>1, <1>2, <2>1, <2>2 DEF CipherShape, LinesRestored
  <2>3. CASE inverse # -1
    <3> DEFINE text == OnLetters(cipher[l], DecryptTable(inverse, userKey))
    <3>1. Printed(text, userKey)
      BY <2>1, <2>3, DecryptedBy, NewIsCrypto
    <3>2. text \in Lines
      <4>1. inverse \in Int
        BY <1>4, InverseType
      <4>2. DecryptTable(inverse, userKey) \in [Letters -> Letters]
        BY <1>4, <4>1, TablesType
      <4> QED
        BY <1>4, <4>2, OnLettersType
    <3>3. userKey.a >= 0 => text = file[l]
      <4>1. cipher[l] = Encrypt(file[l], userKey)
        BY <1>1, <1>3 DEF CipherOfFile
      <4> QED
        BY <1>4, <2>3, <4>1, LineRestored
    <3> HIDE DEF text
    <3>4. Restored(text, userKey, Len(output) + 1)
      BY <1>1, <1>3, <3>3 DEF Restored
    <3> QED
      BY <1>2, <1>4, <3>1, <3>2, <3>4, PrintedKeeps
  <2> QED
    BY <2>2, <2>3
<1>7. CipherShape'
  BY <1>1, <1>2, <1>5, <1>6 DEF CipherShape, IsCrypto
<1>8. CipherOfFile'
  BY <1>1, <1>2 DEF CipherOfFile
<1> QED
  BY <1>5, <1>6, <1>7, <1>8 DEF AffineInv

\* The candidates for the next line.
LEMMA FindCandidateKeysKeeps ==
  ASSUME AffineInv, NEW l \in 1 .. Len(file), NEW list \in Guesses, FindCandidateKeys(l, list)
  PROVE  AffineInv'
<1>1. CipherShape /\ CipherOfFile /\ LinesRestored /\ phase = "analyse"
  BY DEF AffineInv, FindCandidateKeys
<1>2. /\ UNCHANGED <<mode, userKey, file, cipher, crypto, output>>
      /\ phase' = "guess" /\ guesses' = list /\ bestKey' = NoBest /\ trial' = NewCrypto
  BY DEF FindCandidateKeys
<1>3. guesses' \in Seq(AllKeys) /\ IsCrypto(trial')
  BY <1>2, CipherAssumption, NewIsCrypto
<1>4. CipherShape'
  BY <1>1, <1>2, <1>3 DEF CipherShape, IsCrypto
<1>5. CipherOfFile' /\ LinesRestored'
  BY <1>1, <1>2 DEF CipherOfFile, LinesRestored
<1>6. IsBest(bestKey', cipher[Len(output) + 1])
  BY <1>2 DEF IsBest
<1> QED
  BY <1>2, <1>4, <1>5, <1>6 DEF AffineInv, IsBest

\* One of them is tried.
LEMMA TryCandidateKeeps ==
  ASSUME AffineInv, NEW l \in 1 .. Len(file), TryCandidate(l)
  PROVE  AffineInv'
<1> DEFINE key == Head(guesses)
           object == MakeDecryptTable(InitCrypto(trial, key, Table[key.a + 1]))
           known == Known(Decrypted(object, cipher[l]))
<1>1. /\ CipherShape /\ CipherOfFile /\ LinesRestored /\ phase = "guess"
      /\ IsBest(bestKey, cipher[Len(output) + 1])
  BY DEF AffineInv, TryCandidate
<1>2. /\ UNCHANGED <<mode, userKey, file, cipher, phase, crypto, output>>
      /\ guesses' = Tail(guesses) /\ trial' = object
      /\ bestKey' = IF known > bestKey.known THEN [key |-> key, known |-> known] ELSE bestKey
  BY DEF TryCandidate
<1>3. key \in AllKeys /\ guesses' \in Seq(AllKeys)
  BY <1>1, <1>2 DEF CipherShape, TryCandidate
<1>4. l = Len(output) + 1
  <2>1. Len(output) \in Nat /\ l \in Int
    BY <1>1 DEF CipherShape
  <2>2. IsNext(l)
    BY DEF TryCandidate
  <2> QED
    BY <2>1, <2>2 DEF IsNext
<1>5. IsCrypto(trial)
  BY <1>1 DEF CipherShape
<1>6. IsCrypto(object) /\ known = Known(With(key, cipher[l]))
  BY <1>5, FreshTable, WithIs
<1>7. IsBest(bestKey', cipher[l])
  <2> HIDE DEF key, known
  <2>1. CASE bestKey' = [key |-> key, known |-> known]
    BY <1>3, <1>6, <2>1 DEF IsBest
  <2>2. CASE bestKey' = bestKey
    BY <1>1, <1>4, <2>2
  <2> QED
    BY <1>2, <2>1, <2>2
<1> HIDE DEF object
<1>8. IsCrypto(trial')
  BY <1>2, <1>6
<1>9. CipherShape'
  BY <1>1, <1>2, <1>3, <1>8 DEF CipherShape, IsCrypto
<1>10. CipherOfFile' /\ LinesRestored'
  BY <1>1, <1>2 DEF CipherOfFile, LinesRestored
<1> QED
  BY <1>2, <1>4, <1>7, <1>9, <1>10 DEF AffineInv, IsBest

\* The line is printed as the chosen key decrypts it.
LEMMA PrintLineKeeps ==
  ASSUME AffineInv, NEW l \in 1 .. Len(file), PrintLine(l)
  PROVE  AffineInv'
<1> DEFINE key == ChosenKey(bestKey, cipher[l])
           object == MakeDecryptTable(InitCrypto(crypto, key, Table[key.a + 1]))
           text == Decrypted(object, cipher[l])
<1>1. /\ CipherShape /\ CipherOfFile /\ LinesRestored /\ phase = "guess" /\ mode = "analyse"
      /\ IsBest(bestKey, cipher[Len(output) + 1])
  BY DEF AffineInv, CipherShape, PrintLine
<1>2. UNCHANGED <<mode, userKey, file, cipher, guesses, bestKey, trial>>
  BY DEF PrintLine
<1>3. IF object.inverse = -1 THEN phase' = "invalid key" /\ UNCHANGED <<crypto, output>>
      ELSE phase' = "analyse" /\ crypto' = object /\ Printed(text, key)
  BY DEF PrintLine
<1>4. l = Len(output) + 1 /\ l \in DOMAIN cipher
  <2>1. Len(output) \in Nat /\ l \in Int
    BY <1>1 DEF CipherShape
  <2>2. IsNext(l)
    BY DEF PrintLine
  <2> QED
    BY <2>1, <2>2 DEF IsNext
<1>5. IsCrypto(crypto) /\ cipher[l] \in Lines /\ IsBest(bestKey, cipher[l])
  BY <1>1, <1>4 DEF CipherShape
<1>6. /\ IsCrypto(object) /\ object.inverse = Table[key.a + 1]
      /\ text = With(key, cipher[l])
  BY <1>5, FreshTable, WithIs
<1>7. /\ output' \in Seq([text : Lines, key : Keys]) /\ LinesRestored'
      /\ IsCrypto(crypto') /\ phase' \in {"invalid key", "analyse"}
  <2>1. CASE object.inverse = -1
    BY <1>1, <1>2, <1>3, <2>1 DEF CipherShape, LinesRestored
  <2>2. CASE object.inverse # -1
    <3>1. /\ key \in AllKeys
          /\ \/ Sufficient(Known(text), text)
             \/ \A k \in AllKeys : Known(With(k, cipher[l])) <= Known(text)
      BY <1>5, <1>6, <2>2, ChosenKeyIs
    <3>2. text \in Lines /\ key \in Keys /\ Encrypt(text, key) = cipher[l]
      BY <1>5, <1>6, <3>1, WithRestores, AllKeysInvert
    <3>3. crypto' = object /\ Printed(text, key) /\ phase' = "analyse"
      BY <1>3, <2>2
    <3> HIDE DEF text, key, object
    <3>4. Restored(text, key, Len(output) + 1)
      BY <1>1, <1>4, <3>1, <3>2 DEF Restored
    <3>5. output' \in Seq([text : Lines, key : Keys]) /\ LinesRestored'
      BY <1>2, <3>2, <3>3, <3>4, PrintedKeeps
    <3> QED
      BY <1>6, <3>3, <3>5
  <2> QED
    BY <2>1, <2>2
<1> HIDE DEF text, key, object
<1>8. CipherShape'
  BY <1>1, <1>2, <1>7 DEF CipherShape, IsCrypto
<1>9. CipherOfFile'
  BY <1>1, <1>2 DEF CipherOfFile
<1> QED
  BY <1>7, <1>8, <1>9 DEF AffineInv

LEMMA AffineStep ==
  ASSUME AffineInv, [AffineNext]_affineVars
  PROVE  AffineInv'
<1>1. CASE EncryptFile
  BY <1>1, EncryptFileKeeps
<1>2. CASE \E l \in 1 .. Len(file) : DecryptLine(l)
  BY <1>2, DecryptLineKeeps
<1>3. CASE \E l \in 1 .. Len(file) : \E list \in Guesses : FindCandidateKeys(l, list)
  BY <1>3, FindCandidateKeysKeeps
<1>4. CASE \E l \in 1 .. Len(file) : TryCandidate(l)
  BY <1>4, TryCandidateKeeps
<1>5. CASE \E l \in 1 .. Len(file) : PrintLine(l)
  BY <1>5, PrintLineKeeps
<1>6. CASE UNCHANGED affineVars
  <2>1. /\ UNCHANGED <<mode, userKey, file, cipher, phase, guesses, bestKey>>
        /\ UNCHANGED <<trial, crypto, output>>
    BY <1>6 DEF affineVars
  <2>2. CipherShape'
    BY <2>1 DEF AffineInv, CipherShape, IsCrypto
  <2>3. CipherOfFile' /\ LinesRestored'
    BY <2>1 DEF AffineInv, CipherOfFile, LinesRestored
  <2> QED
    BY <2>1, <2>2, <2>3 DEF AffineInv, IsBest
<1> QED
  BY <1>1, <1>2, <1>3, <1>4, <1>5, <1>6 DEF AffineNext

\* Whatever the files, the keys and the words that are known: the user's key
\* restores what it encrypted, and what the analysis prints is what its key
\* makes of the line, with a known word in five or with as many as any key
\* finds; the table that a Crypto object keeps is never one of another key.
THEOREM AffineLinesRestored == AffineSpec => []LinesRestored
<1>1. AffineInit => AffineInv
  BY AffineInitHolds
<1>2. AffineInv /\ [AffineNext]_affineVars => AffineInv'
  BY AffineStep
<1>3. AffineInv => LinesRestored
  BY DEF AffineInv
<1> QED
  BY <1>1, <1>2, <1>3, PTL DEF AffineSpec
-----------------------------------------------------------------------------
(* Parity. *)

LEMMA OddEmpty == ~Odd({})
<1>1. Cardinality({}) = 0 /\ 0 % 2 = 0
  BY FS_EmptySet
<1> QED
  BY <1>1 DEF Odd

LEMMA OddAdd ==
  ASSUME NEW S, IsFiniteSet(S), NEW x, x \notin S
  PROVE  Odd(S \cup {x}) <=> ~Odd(S)
<1>1. Cardinality(S \cup {x}) = Cardinality(S) + 1 /\ Cardinality(S) \in Nat
  BY FS_AddElement, FS_CardinalityType
<1>2. \A n \in Nat : (n + 1) % 2 = 1 <=> ~(n % 2 = 1)
  OBVIOUS
<1> QED
  BY <1>1, <1>2 DEF Odd

LEMMA OddOne ==
  ASSUME NEW x
  PROVE  Odd({x})
<1>1. IsFiniteSet({}) /\ {} \cup {x} = {x}
  BY FS_EmptySet
<1> QED
  BY <1>1, OddAdd, OddEmpty

LEMMA OddTwo ==
  ASSUME NEW x, NEW y, x # y
  PROVE  ~Odd({x, y})
<1>1. IsFiniteSet({x}) /\ {x} \cup {y} = {x, y}
  BY FS_Singleton
<1> QED
  BY <1>1, OddAdd, OddOne

\* The members that two sets have in common do not count.
LEMMA OddSymDiff ==
  ASSUME NEW A, NEW B, IsFiniteSet(A), IsFiniteSet(B)
  PROVE  Odd(SymDiff(A, B)) <=> ~(Odd(A) <=> Odd(B))
<1> DEFINE G == {T \in SUBSET B : Odd(SymDiff(A, T)) <=> ~(Odd(A) <=> Odd(T))}
<1>1. {} \in G
  <2>1. SymDiff(A, {}) = A
    BY DEF SymDiff
  <2> QED
    BY <2>1, OddEmpty
<1>2. ASSUME NEW T \in SUBSET B, NEW x \in B \ T, T \in G
      PROVE  T \cup {x} \in G
  <2>1. IsFiniteSet(T) /\ IsFiniteSet(A \ {x})
    BY FS_Subset
  <2>2. Odd(T \cup {x}) <=> ~Odd(T)
    BY <2>1, OddAdd
  <2>3. IsFiniteSet(SymDiff(A, T)) /\ IsFiniteSet(SymDiff(A, T) \ {x})
    <3>1. IsFiniteSet(A \cup T)
      BY <2>1, FS_Union
    <3> QED
      BY <3>1, FS_Subset DEF SymDiff
  <2>4. CASE x \in A
    <3>1. SymDiff(A, T) = SymDiff(A, T \cup {x}) \cup {x} /\ x \notin SymDiff(A, T \cup {x})
      BY <2>4 DEF SymDiff
    <3>2. SymDiff(A, T \cup {x}) = SymDiff(A, T) \ {x}
      BY <2>4 DEF SymDiff
    <3>3. Odd(SymDiff(A, T)) <=> ~Odd(SymDiff(A, T \cup {x}))
      <4>1. IsFiniteSet(SymDiff(A, T \cup {x}))
        BY <2>3, <3>2
      <4>2. Odd(SymDiff(A, T \cup {x}) \cup {x}) <=> ~Odd(SymDiff(A, T \cup {x}))
        BY <3>1, <4>1, OddAdd
      <4> QED
        BY <3>1, <4>2
    <3> QED
      BY <1>2, <2>2, <3>3
  <2>5. CASE x \notin A
    <3>1. SymDiff(A, T \cup {x}) = SymDiff(A, T) \cup {x} /\ x \notin SymDiff(A, T)
      BY <2>5 DEF SymDiff
    <3>2. Odd(SymDiff(A, T \cup {x})) <=> ~Odd(SymDiff(A, T))
      BY <2>3, <3>1, OddAdd, ZenonT(20)
    <3> QED
      BY <1>2, <2>2, <3>2
  <2> QED
    BY <2>4, <2>5
<1>3. B \in G
  <2> HIDE DEF G
  <2> QED
    BY <1>1, <1>2, FiniteInduction
<1> QED
  BY <1>3

\* The rows, and the columns, of a table that have an odd number of entries.
OddRows(R, A, B) == {a \in A : Odd({b \in B : <<a, b>> \in R})}

OddColumns(R, A, B) == {b \in B : Odd({a \in A : <<a, b>> \in R})}

\* The entries of a table, counted by rows or by columns.
LEMMA OddByRows ==
  ASSUME NEW A, NEW B, IsFiniteSet(A), IsFiniteSet(B), NEW R
  PROVE  Odd(OddRows(R, A, B)) <=> Odd(OddColumns(R, A, B))
<1> DEFINE row(a) == {b \in B : <<a, b>> \in R}
           col(T, b) == {a \in T : <<a, b>> \in R}
           rows(T) == {a \in T : Odd(row(a))}
           cols(T) == {b \in B : Odd(col(T, b))}
           G == {T \in SUBSET A : Odd(rows(T)) <=> Odd(cols(T))}
<1>1. {} \in G
  <2>1. rows({}) = {}
    OBVIOUS
  <2>2. \A b : col({}, b) = {}
    OBVIOUS
  <2>3. cols({}) = {}
    BY <2>2, OddEmpty
  <2> QED
    BY <2>1, <2>3
<1>2. ASSUME NEW T \in SUBSET A, NEW x \in A \ T, T \in G
      PROVE  T \cup {x} \in G
  <2>1. IsFiniteSet(T) /\ \A b : IsFiniteSet(col(T, b))
    BY FS_Subset
  <2>2. IsFiniteSet(rows(T)) /\ IsFiniteSet(row(x)) /\ IsFiniteSet(cols(T))
    BY <2>1, FS_Subset
  <2>3. ASSUME NEW b \in B
        PROVE  b \in cols(T \cup {x}) <=> ~(b \in cols(T) <=> b \in row(x))
    <3>1. CASE b \in row(x)
      <4>1. col(T \cup {x}, b) = col(T, b) \cup {x} /\ x \notin col(T, b)
        BY <3>1
      <4> HIDE DEF col
      <4>2. Odd(col(T \cup {x}, b)) <=> ~Odd(col(T, b))
        BY <2>1, <4>1, OddAdd, ZenonT(20)
      <4> QED
        BY <3>1, <4>2
    <3>2. CASE b \notin row(x)
      <4>1. col(T \cup {x}, b) = col(T, b)
        BY <3>2
      <4> QED
        BY <3>2, <4>1
    <3> QED
      BY <3>1, <3>2
  <2>4. cols(T \cup {x}) = SymDiff(cols(T), row(x))
    <3> HIDE DEF col
    <3> QED
      BY <2>3 DEF SymDiff
  <2> HIDE DEF cols
  <2>5. Odd(cols(T \cup {x})) <=> ~(Odd(cols(T)) <=> Odd(row(x)))
    BY <2>2, <2>4, OddSymDiff
  <2>6. Odd(rows(T \cup {x})) <=> ~(Odd(rows(T)) <=> Odd(row(x)))
    <3>1. CASE Odd(row(x))
      <4>1. rows(T \cup {x}) = rows(T) \cup {x} /\ x \notin rows(T)
        BY <3>1
      <4> HIDE DEF rows, row
      <4>2. Odd(rows(T) \cup {x}) <=> ~Odd(rows(T))
        BY <2>2, <4>1, OddAdd
      <4> QED
        BY <3>1, <4>1, <4>2
    <3>2. CASE ~Odd(row(x))
      <4>1. rows(T \cup {x}) = rows(T)
        BY <3>2
      <4> QED
        BY <3>2, <4>1
    <3> QED
      BY <3>1, <3>2
  <2> HIDE DEF rows, row
  <2> QED
    BY <1>2, <2>5, <2>6
<1>3. A \in G
  <2> HIDE DEF G
  <2> QED
    BY <1>1, <1>2, FiniteInduction
<1> QED
  BY <1>3 DEF OddRows, OddColumns

-----------------------------------------------------------------------------
(* Row operations: a row is added to others, or two rows are exchanged. *)

Matrix(D, C) == [D -> SUBSET C]

\* Row p of f is added to the rows of hit, among which it is not.
Added(f, p, hit) ==
  [i \in DOMAIN f |-> IF i \in hit THEN SymDiff(f[i], f[p]) ELSE f[i]]

\* The sum of the rows S.
Combined(f, S, C) == {k \in C : Odd({i \in S : k \in f[i]})}

LEMMA AddedType ==
  ASSUME NEW D, NEW C, NEW f \in Matrix(D, C), NEW p \in D, NEW hit
  PROVE  /\ Added(f, p, hit) \in Matrix(D, C)
         /\ \A i \in D : Added(f, p, hit)[i] = IF i \in hit THEN SymDiff(f[i], f[p]) ELSE f[i]
BY DEF Added, Matrix, SymDiff

\* A system of equations and its right side.
LEMMA AddedSolves ==
  ASSUME NEW D, NEW C, IsFiniteSet(C), NEW f \in Matrix(D, C), NEW p \in D,
         NEW hit \in SUBSET (D \ {p}), NEW v \in SUBSET C, NEW b \in SUBSET D
  PROVE  Times(Added(f, p, hit), v) = (IF p \in b THEN SymDiff(b, hit) ELSE b)
           <=> Times(f, v) = b
<1> DEFINE g == Added(f, p, hit)
           new == IF p \in b THEN SymDiff(b, hit) ELSE b
<1>1. DOMAIN f = D /\ DOMAIN g = D /\ \A i \in D : f[i] \in SUBSET C
  BY DEF Matrix, Added
<1>2. ASSUME NEW i \in D
      PROVE  i \in Times(g, v) <=> ~(i \in Times(f, v) <=> i \in hit /\ p \in Times(f, v))
  <2>1. CASE i \in hit
    <3>1. g[i] = SymDiff(f[i], f[p])
      BY <2>1, AddedType
    <3>2. SymDiff(f[i], f[p]) \cap v = SymDiff(f[i] \cap v, f[p] \cap v)
      BY DEF SymDiff
    <3>3. IsFiniteSet(f[i] \cap v) /\ IsFiniteSet(f[p] \cap v)
      BY FS_Subset
    <3>4. Odd(g[i] \cap v) <=> ~(Odd(f[i] \cap v) <=> Odd(f[p] \cap v))
      BY <3>1, <3>2, <3>3, OddSymDiff
    <3> QED
      BY <1>1, <2>1, <3>4 DEF Times
  <2>2. CASE i \notin hit
    <3>1. g[i] = f[i]
      BY <2>2, AddedType
    <3> QED
      BY <1>1, <2>2, <3>1 DEF Times
  <2> QED
    BY <2>1, <2>2
<1>3. Times(f, v) \in SUBSET D /\ Times(g, v) \in SUBSET D
  BY <1>1 DEF Times
<1>4. \A i \in D : i \in new <=> ~(i \in b <=> i \in hit /\ p \in b)
  BY DEF SymDiff
<1>5. new \in SUBSET D
  BY DEF SymDiff
<1> HIDE DEF g, new
<1>6. p \notin hit
  OBVIOUS
<1>7. ASSUME Times(f, v) = b PROVE Times(g, v) = new
  BY <1>2, <1>3, <1>4, <1>5, <1>7
<1>8. ASSUME Times(g, v) = new PROVE Times(f, v) = b
  <2>1. p \in Times(f, v) <=> p \in b
    BY <1>2, <1>4, <1>6, <1>8
  <2>2. \A i \in D : i \in Times(f, v) <=> i \in b
    BY <1>2, <1>4, <1>8, <2>1
  <2> QED
    BY <1>3, <2>2
<1> QED
  BY <1>7, <1>8 DEF g, new

\* What the rows combine to afterwards, they combine to before, and conversely:
\* those of S with p, if S has an odd number of the rows p is added to.
Toggled(S, p, hit) == IF Odd(S \cap hit) THEN SymDiff(S, {p}) ELSE S

LEMMA ToggledTwice ==
  ASSUME NEW D, NEW p \in D, NEW hit \in SUBSET (D \ {p}), NEW S \in SUBSET D
  PROVE  /\ Toggled(S, p, hit) \in SUBSET D
         /\ Toggled(Toggled(S, p, hit), p, hit) = S
         /\ Toggled(S, p, hit) = {} => S = {}
<1> DEFINE T == Toggled(S, p, hit)
<1>1. T \in SUBSET D /\ T \cap hit = S \cap hit
  BY DEF Toggled, SymDiff
<1>2. Toggled(T, p, hit) = S
  <2>1. CASE Odd(S \cap hit)
    <3>1. T = SymDiff(S, {p})
      BY <2>1 DEF Toggled
    <3>2. Toggled(T, p, hit) = SymDiff(T, {p})
      BY <1>1, <2>1 DEF Toggled
    <3>3. SymDiff(SymDiff(S, {p}), {p}) = S
      BY DEF SymDiff
    <3> QED
      BY <3>1, <3>2, <3>3
  <2>2. CASE ~Odd(S \cap hit)
    BY <1>1, <2>2 DEF Toggled
  <2> QED
    BY <2>1, <2>2
<1>3. ASSUME T = {} PROVE S = {}
  <2>1. S \cap hit = {}
    BY <1>1, <1>3
  <2> QED
    BY <1>3, <2>1, OddEmpty DEF Toggled
<1> QED
  BY <1>1, <1>2, <1>3

LEMMA AddedCombines ==
  ASSUME NEW D, NEW C, IsFiniteSet(D), NEW f \in Matrix(D, C), NEW p \in D,
         NEW hit \in SUBSET (D \ {p}), NEW S \in SUBSET D
  PROVE  Combined(Added(f, p, hit), S, C) = Combined(f, Toggled(S, p, hit), C)
<1> DEFINE g == Added(f, p, hit)
           T == Toggled(S, p, hit)
           old(k) == {i \in S : k \in f[i]}
           odd == Odd(S \cap hit)
<1>1. \A i \in D, k \in C : k \in g[i] <=> ~(k \in f[i] <=> i \in hit /\ k \in f[p])
  <2>1. \A i \in D : g[i] = IF i \in hit THEN SymDiff(f[i], f[p]) ELSE f[i]
    BY AddedType
  <2> HIDE DEF g
  <2> QED
    BY <2>1 DEF SymDiff
<1>2. T \in SUBSET D /\ \A i \in D : i \in T <=> ~(i \in S <=> odd /\ i = p)
  BY DEF Toggled, SymDiff
<1>3. \A k : IsFiniteSet(old(k)) /\ IsFiniteSet(S \cap hit) /\ IsFiniteSet({p})
  BY FS_Subset, FS_Singleton
<1> HIDE DEF g, T
<1>4. ASSUME NEW k \in C
      PROVE  Odd({i \in S : k \in g[i]}) <=> Odd({i \in T : k \in f[i]})
  <2> DEFINE before == {i \in S : k \in f[i]}
             after == {i \in S : k \in g[i]}
             toggled == {i \in T : k \in f[i]}
  <2>1. IsFiniteSet(before)
    BY <1>3
  <2>2. CASE k \in f[p]
    <3>1. after = SymDiff(before, S \cap hit)
      BY <1>1, <2>2 DEF SymDiff
    <3>2. Odd(after) <=> ~(Odd(before) <=> odd)
      <4> HIDE DEF before, after
      <4> QED
        BY <1>3, <2>1, <3>1, OddSymDiff
    <3>3. CASE odd
      <4>1. toggled = SymDiff(before, {p})
        BY <1>2, <2>2, <3>3 DEF SymDiff
      <4> HIDE DEF before, toggled, after
      <4>2. Odd(toggled) <=> ~(Odd(before) <=> Odd({p}))
        BY <1>3, <2>1, <4>1, OddSymDiff
      <4> QED
        BY <3>2, <3>3, <4>2, OddOne DEF after, toggled
    <3>4. CASE ~odd
      <4>1. toggled = before
        BY <1>2, <3>4
      <4> QED
        BY <3>2, <3>4, <4>1
    <3> QED
      BY <3>3, <3>4
  <2>3. CASE k \notin f[p]
    <3>1. after = before
      BY <1>1, <2>3
    <3>2. toggled = before
      BY <1>2, <2>3
    <3> QED
      BY <3>1, <3>2
  <2> QED
    BY <2>2, <2>3
<1> QED
  BY <1>4 DEF Combined, g, T

\* The rows of P combine to every set, and only those of the empty set to the
\* empty one.
Invertible(P, D) ==
  /\ P \in Matrix(D, D)
  /\ \A S \in SUBSET D : Combined(P, S, D) = {} => S = {}
  /\ \A x \in SUBSET D : \E S \in SUBSET D : Combined(P, S, D) = x

LEMMA AddedInvertible ==
  ASSUME NEW D, IsFiniteSet(D), NEW P, Invertible(P, D), NEW p \in D,
         NEW hit \in SUBSET (D \ {p})
  PROVE  Invertible(Added(P, p, hit), D)
<1>1. P \in Matrix(D, D)
  BY DEF Invertible
<1>2. Added(P, p, hit) \in Matrix(D, D)
  BY <1>1, AddedType
<1>3. ASSUME NEW S \in SUBSET D, Combined(Added(P, p, hit), S, D) = {} PROVE S = {}
  <2>1. Toggled(S, p, hit) \in SUBSET D /\ Combined(P, Toggled(S, p, hit), D) = {}
    BY <1>1, <1>3, AddedCombines, ToggledTwice
  <2>2. Toggled(S, p, hit) = {}
    BY <2>1 DEF Invertible
  <2> QED
    BY <2>2, ToggledTwice
<1>4. ASSUME NEW x \in SUBSET D PROVE \E S \in SUBSET D : Combined(Added(P, p, hit), S, D) = x
  <2>1. PICK T \in SUBSET D : Combined(P, T, D) = x
    BY DEF Invertible
  <2> DEFINE S == Toggled(T, p, hit)
  <2>2. S \in SUBSET D /\ Toggled(S, p, hit) = T
    BY ToggledTwice
  <2> HIDE DEF S
  <2>3. Combined(Added(P, p, hit), S, D) = x
    BY <1>1, <2>1, <2>2, AddedCombines
  <2> QED
    BY <2>2, <2>3
<1> QED
  BY <1>2, <1>3, <1>4 DEF Invertible

LEMMA IdentityInvertible ==
  ASSUME NEW n \in Nat
  PROVE  Invertible(Identity(n), Indices(n))
<1> DEFINE D == Indices(n)
<1>1. Identity(n) \in Matrix(D, D)
  BY DEF Identity, Matrix
<1>2. ASSUME NEW S \in SUBSET D PROVE Combined(Identity(n), S, D) = S
  <2>1. \A k \in D : {i \in S : k \in Identity(n)[i]} = IF k \in S THEN {k} ELSE {}
    BY DEF Identity
  <2> QED
    BY <2>1, OddOne, OddEmpty DEF Combined
<1> QED
  BY <1>1, <1>2 DEF Invertible

\* Rows are exchanged by adding them to each other three times.
LEMMA SwapIsAdded ==
  ASSUME NEW D, NEW C, NEW f \in Matrix(D, C), NEW p \in D, NEW q \in D, p # q
  PROVE  Swap(f, p, q) = Added(Added(Added(f, p, {q}), q, {p}), p, {q})
<1> DEFINE g == Added(f, p, {q})
           h == Added(g, q, {p})
           e == Added(h, p, {q})
<1>1. /\ g \in Matrix(D, C) /\ g[q] = SymDiff(f[q], f[p])
      /\ \A i \in D \ {q} : g[i] = f[i]
  BY AddedType
<1>2. /\ h \in Matrix(D, C) /\ h[p] = SymDiff(g[p], g[q])
      /\ \A i \in D \ {p} : h[i] = g[i]
  <2> HIDE DEF g
  <2> QED
    BY <1>1, AddedType
<1>3. /\ e \in Matrix(D, C) /\ e[q] = SymDiff(h[q], h[p])
      /\ \A i \in D \ {q} : e[i] = h[i]
  <2> HIDE DEF h
  <2> QED
    BY <1>2, AddedType
<1> HIDE DEF g, h, e
<1>4. h[p] = f[q] /\ e[p] = f[q]
  <2>1. SymDiff(f[p], SymDiff(f[q], f[p])) = f[q]
    BY DEF SymDiff
  <2> QED
    BY <1>1, <1>2, <1>3, <2>1
<1>5. e[q] = f[p]
  <2>1. SymDiff(SymDiff(f[q], f[p]), f[q]) = f[p]
    BY DEF SymDiff
  <2> QED
    BY <1>1, <1>2, <1>3, <1>4, <2>1
<1>6. \A i \in D \ {p, q} : e[i] = f[i]
  BY <1>1, <1>2, <1>3
<1>7. e = Swap(f, p, q)
  <2>1. e = [i \in D |-> e[i]] /\ Swap(f, p, q) = [i \in D |-> Swap(f, p, q)[i]]
    BY <1>3 DEF Swap, Matrix
  <2>2. \A i \in D : Swap(f, p, q)[i] = IF i = p THEN f[q] ELSE IF i = q THEN f[p] ELSE f[i]
    BY DEF Swap, Matrix
  <2>3. \A i \in D : e[i] = Swap(f, p, q)[i]
    BY <1>4, <1>5, <1>6, <2>2
  <2> QED
    BY <2>1, <2>3
<1> QED
  BY <1>7 DEF e, h, g

LEMMA SwapType ==
  ASSUME NEW D, NEW C, NEW f \in Matrix(D, C), NEW p \in D, NEW q \in D
  PROVE  /\ Swap(f, p, q) \in Matrix(D, C)
         /\ \A i \in D : Swap(f, p, q)[i] = IF i = p THEN f[q] ELSE IF i = q THEN f[p] ELSE f[i]
BY DEF Swap, Matrix

LEMMA SwapInvertible ==
  ASSUME NEW D, IsFiniteSet(D), NEW P, Invertible(P, D), NEW p \in D, NEW q \in D
  PROVE  Invertible(Swap(P, p, q), D)
<1>1. P \in Matrix(D, D)
  BY DEF Invertible
<1>2. CASE p = q
  <2>1. Swap(P, p, q) = P
    BY <1>1, <1>2 DEF Swap, Matrix
  <2> QED
    BY <2>1
<1>3. CASE p # q
  <2>1. {p} \in SUBSET (D \ {q}) /\ {q} \in SUBSET (D \ {p})
    BY <1>3
  <2>2. Invertible(Added(P, p, {q}), D)
    BY <2>1, AddedInvertible
  <2>3. Invertible(Added(Added(P, p, {q}), q, {p}), D)
    BY <2>1, <2>2, AddedInvertible
  <2>4. Invertible(Added(Added(Added(P, p, {q}), q, {p}), p, {q}), D)
    BY <2>1, <2>3, AddedInvertible
  <2> QED
    BY <1>1, <1>3, <2>4, SwapIsAdded
<1> QED
  BY <1>2, <1>3

\* A system of equations whose rows are exchanged.
LEMMA SwapSolves ==
  ASSUME NEW D, NEW C, NEW f \in Matrix(D, C), NEW p \in D, NEW q \in D,
         NEW v, NEW b \in SUBSET D
  PROVE  /\ SwapEntries(b, p, q) \in SUBSET D
         /\ Times(Swap(f, p, q), v) = SwapEntries(b, p, q) <=> Times(f, v) = b
<1> DEFINE g == Swap(f, p, q)
           other(i) == IF i = p THEN q ELSE IF i = q THEN p ELSE i
<1>1. \A i \in D : other(i) \in D /\ other(other(i)) = i /\ g[i] = f[other(i)]
  <2>1. \A i \in D : g[i] = IF i = p THEN f[q] ELSE IF i = q THEN f[p] ELSE f[i]
    BY SwapType
  <2> HIDE DEF g
  <2> QED
    BY <2>1
<1>2. DOMAIN f = D /\ DOMAIN g = D
  <2>1. g \in Matrix(D, C)
    BY SwapType
  <2> HIDE DEF g
  <2> QED
    BY <2>1 DEF Matrix
<1>3. \A i \in D : i \in SwapEntries(b, p, q) <=> other(i) \in b
  BY DEF SwapEntries
<1>4. SwapEntries(b, p, q) \in SUBSET D
  BY DEF SwapEntries
<1>5. \A i \in D : i \in Times(g, v) <=> other(i) \in Times(f, v)
  BY <1>1, <1>2 DEF Times
<1>6. Times(f, v) \in SUBSET D /\ Times(g, v) \in SUBSET D
  BY <1>2 DEF Times
<1> HIDE DEF other, g
<1>7. ASSUME Times(f, v) = b PROVE Times(g, v) = SwapEntries(b, p, q)
  BY <1>3, <1>4, <1>5, <1>6, <1>7
<1>8. ASSUME Times(g, v) = SwapEntries(b, p, q) PROVE Times(f, v) = b
  <2>1. \A i \in D : other(i) \in Times(f, v) <=> other(i) \in b
    BY <1>3, <1>5, <1>8
  <2>2. \A i \in D : i \in Times(f, v) <=> i \in b
    BY <1>1, <2>1
  <2> QED
    BY <1>6, <2>2
<1> QED
  BY <1>4, <1>7, <1>8 DEF g


\* The equations without a right side keep their solutions.
LEMMA SwapSolvesSame ==
  ASSUME NEW D, NEW C, NEW f \in Matrix(D, C), NEW p \in D, NEW q \in D, NEW v
  PROVE  Times(Swap(f, p, q), v) = {} <=> Times(f, v) = {}
<1> DEFINE e == {}
<1>1. e \in SUBSET D /\ SwapEntries(e, p, q) = e
  BY DEF SwapEntries
<1> HIDE DEF e
<1>2. Times(Swap(f, p, q), v) = SwapEntries(e, p, q) <=> Times(f, v) = e
  BY <1>1, SwapSolves
<1> QED
  BY <1>1, <1>2 DEF e

LEMMA AddedSolvesSame ==
  ASSUME NEW D, NEW C, IsFiniteSet(C), NEW f \in Matrix(D, C), NEW p \in D,
         NEW hit \in SUBSET (D \ {p}), NEW v \in SUBSET C
  PROVE  Times(Added(f, p, hit), v) = {} <=> Times(f, v) = {}
<1> DEFINE e == {}
<1>1. e \in SUBSET D /\ p \notin e
  OBVIOUS
<1> HIDE DEF e
<1>2. Times(Added(f, p, hit), v) = (IF p \in e THEN SymDiff(e, hit) ELSE e)
        <=> Times(f, v) = e
  BY <1>1, AddedSolves
<1> QED
  BY <1>1, <1>2 DEF e
-----------------------------------------------------------------------------
(* The steps of gaussJordan(). *)

\* What gaussJordan() works with: D are the rows of the matrix, C its columns.
GaussStates(D, C) == [rows : Matrix(D, C), steps : Matrix(D, D), last : D \cup {-1}]

\* The rows other than p with a 1 in column j, when rows p and q are exchanged.
GaussHit(s, p, q, j) == {i \in DOMAIN s.rows : i # p /\ j \in Swap(s.rows, p, q)[i]}

GaussStep(s, p, q, j) ==
  [rows  |-> Added(Swap(s.rows, p, q), p, GaussHit(s, p, q, j)),
   steps |-> Added(Swap(s.steps, p, q), p, GaussHit(s, p, q, j)),
   last  |-> p]

\* A step of gaussJordan(), if there is a pivot for the column.
LEMMA GaussColumnIs ==
  ASSUME NEW m \in Nat, NEW C, NEW s \in GaussStates(Indices(m), C), NEW j
  PROVE  \/ /\ \A i \in Indices(m) : i > s.last => j \notin s.rows[i]
            /\ GaussColumn(s, j) = s
         \/ \E p, q \in Indices(m) :
              /\ p = s.last + 1 /\ p <= q /\ j \in s.rows[q]
              /\ GaussColumn(s, j) = GaussStep(s, p, q, j)
<1> DEFINE D == Indices(m)
           found == {i \in DOMAIN s.rows : i > s.last /\ j \in s.rows[i]}
           p == s.last + 1
           q == Min(found)
           rows == Swap(s.rows, p, q)
           steps == Swap(s.steps, p, q)
           hit == GaussHit(s, p, q, j)
<1>1. /\ s.rows \in Matrix(D, C) /\ s.steps \in Matrix(D, D)
      /\ s.last \in D \cup {-1} /\ DOMAIN s.rows = D
  BY DEF GaussStates, Matrix
<1>2. D \in SUBSET Nat /\ \A i \in D : i < m
  BY DEF Indices
<1>3. CASE found = {}
  <2>1. GaussColumn(s, j) = s
    BY <1>3 DEF GaussColumn
  <2> QED
    BY <1>1, <1>3, <2>1
<1>4. CASE found # {}
  <2>1. q \in found
    BY <1>1, <1>2, <1>4, MinOf
  <2>2. q \in D /\ q > s.last /\ j \in s.rows[q]
    BY <1>1, <2>1
  <2>3. p \in D /\ p <= q
    <3>1. s.last \in Int /\ s.last >= -1
      BY <1>1, <1>2
    <3> HIDE DEF q
    <3> QED
      BY <2>2, <3>1 DEF Indices
  <2>4. GaussColumn(s, j) = [rows |-> Cleared(rows, rows, p, j),
                             steps |-> Cleared(rows, steps, p, j), last |-> p]
    BY <1>4 DEF GaussColumn
  <2> HIDE DEF q
  <2>5. rows \in Matrix(D, C) /\ steps \in Matrix(D, D)
    <3>1. q \in D /\ p \in D
      BY <2>2, <2>3
    <3> HIDE DEF D, p
    <3>2. Swap(s.rows, p, q) \in Matrix(D, C)
      BY <1>1, <3>1, SwapType
    <3>3. Swap(s.steps, p, q) \in Matrix(D, D)
      BY <1>1, <3>1, SwapType
    <3> QED
      BY <3>2, <3>3
  <2>a. hit = {i \in D : i # p /\ j \in rows[i]}
    BY <1>1 DEF GaussHit
  <2> HIDE DEF p, rows, steps, hit
  <2>6. DOMAIN rows = D /\ DOMAIN steps = D
    BY <2>5 DEF Matrix
  <2>7. Cleared(rows, rows, p, j) = Added(rows, p, hit)
    BY <2>a, <2>6 DEF Cleared, Added
  <2>8. Cleared(rows, steps, p, j) = Added(steps, p, hit)
    BY <2>a, <2>6 DEF Cleared, Added
  <2>9. GaussColumn(s, j) = [rows |-> Added(rows, p, hit), steps |-> Added(steps, p, hit), last |-> p]
    BY <2>4, <2>7, <2>8
  <2> QED
    BY <2>2, <2>3, <2>9 DEF p, rows, steps, hit, GaussStep
<1> QED
  BY <1>3, <1>4
\* A step yields a state again.
LEMMA GaussColumnType ==
  ASSUME NEW m \in Nat, NEW C, NEW s \in GaussStates(Indices(m), C), NEW j
  PROVE  GaussColumn(s, j) \in GaussStates(Indices(m), C)
<1> DEFINE D == Indices(m)
<1>1. s.rows \in Matrix(D, C) /\ s.steps \in Matrix(D, D)
  BY DEF GaussStates
<1>2. CASE GaussColumn(s, j) = s
  BY <1>2
<1>3. CASE GaussColumn(s, j) # s
  <2> HIDE DEF D
  <2>1. PICK p \in D, q \in D : GaussColumn(s, j) = GaussStep(s, p, q, j)
    BY <1>3, GaussColumnIs DEF D
  <2> DEFINE hit == GaussHit(s, p, q, j)
  <2>2. Swap(s.rows, p, q) \in Matrix(D, C) /\ Swap(s.steps, p, q) \in Matrix(D, D)
    BY <1>1, SwapType
  <2> HIDE DEF hit
  <2>3. /\ Added(Swap(s.rows, p, q), p, hit) \in Matrix(D, C)
        /\ Added(Swap(s.steps, p, q), p, hit) \in Matrix(D, D)
    BY <2>2, AddedType
  <2> QED
    BY <2>1, <2>3 DEF GaussStates, GaussStep, hit, D
<1> QED
  BY <1>2, <1>3

LEMMA GaussColumnsAre ==
  ASSUME NEW m \in Nat, NEW n \in Nat, NEW X \in Matrix(Indices(m), Indices(n))
  PROVE  /\ GaussColumns(X, n) \in [0 .. n -> GaussStates(Indices(m), Indices(n))]
         /\ GaussColumns(X, n)[0] = [rows |-> X, steps |-> Identity(m), last |-> -1]
         /\ \A j \in 0 .. n - 1 : GaussColumns(X, n)[j + 1] = GaussColumn(GaussColumns(X, n)[j], j)
<1> DEFINE D == Indices(m)
           T == GaussStates(D, Indices(n))
           x == [rows |-> X, steps |-> Identity(m), last |-> -1]
           F == [q \in T \X (0 .. n - 1) |-> GaussColumn(q[1], q[2])]
           Is(h) == h = [j \in 0 .. n |-> IF j = 0 THEN x ELSE GaussColumn(h[j - 1], j - 1)]
<1>1. Cardinality(DOMAIN X) = m
  <2>1. DOMAIN X = 0 .. m - 1
    BY DEF Matrix, Indices
  <2>2. Cardinality(0 .. m - 1) = m
    BY FS_Interval
  <2> QED
    BY <2>1, <2>2
<1>2. x \in T
  <2>1. Identity(m) \in Matrix(D, D)
    BY IdentityInvertible DEF Invertible
  <2> QED
    BY <2>1 DEF GaussStates
<1>3. F \in [T \X (0 .. n - 1) -> T]
  <2>1. \A s \in T, j \in 0 .. n - 1 : GaussColumn(s, j) \in T
    BY GaussColumnType
  <2> HIDE DEF T
  <2> QED
    BY <2>1
<1>4. PICK f \in Stages(F, x, n, T) : TRUE
  <2> HIDE DEF x, F, T
  <2> QED
    BY <1>2, <1>3, Stepwise
<1>a. /\ f \in [0 .. n -> T]
      /\ \A j \in 0 .. n : f[j] = IF j = 0 THEN x ELSE F[<<f[j - 1], j - 1>>]
  <2> HIDE DEF x, F, T
  <2> QED
    BY <1>4 DEF Stages
<1>5. ASSUME NEW j \in 0 .. n, j # 0
      PROVE  F[<<f[j - 1], j - 1>>] = GaussColumn(f[j - 1], j - 1)
  <2>1. j - 1 \in 0 .. n - 1 /\ f[j - 1] \in T
    <3> HIDE DEF T
    <3> QED
      BY <1>a, <1>5
  <2> HIDE DEF T
  <2> QED
    BY <2>1
<1>6. \E h : Is(h)
  <2> HIDE DEF x, F, T
  <2>1. \A j \in 0 .. n : f[j] = IF j = 0 THEN x ELSE GaussColumn(f[j - 1], j - 1)
    BY <1>a, <1>5
  <2>2. f = [j \in 0 .. n |-> f[j]]
    BY <1>a
  <2>3. Is(f)
    BY <2>1, <2>2
  <2> QED
    BY <2>3
<1> DEFINE g == CHOOSE h : Is(h)
<1>7. GaussColumns(X, n) = g
  BY <1>1 DEF GaussColumns
<1>8. Is(g)
  <2> HIDE DEF Is
  <2> QED
    BY <1>6
<1> HIDE DEF g, x, F
<1>9. g[0] = x
  <2>1. \A j \in 0 .. n : g[j] = IF j = 0 THEN x ELSE GaussColumn(g[j - 1], j - 1)
    BY <1>8
  <2> QED
    BY <2>1
<1>10. ASSUME NEW j \in 0 .. n - 1 PROVE g[j + 1] = GaussColumn(g[j], j)
  <2>1. j + 1 \in 0 .. n /\ j + 1 # 0 /\ (j + 1) - 1 = j
    OBVIOUS
  <2>2. \A i \in 0 .. n : g[i] = IF i = 0 THEN x ELSE GaussColumn(g[i - 1], i - 1)
    BY <1>8
  <2> QED
    BY <2>1, <2>2
<1>11. g \in [0 .. n -> T]
  <2> HIDE DEF T, Is
  <2> DEFINE G == {j \in Nat : j <= n => g[j] \in T}
  <2>1. 0 \in G
    BY <1>2, <1>9
  <2>2. ASSUME NEW j \in Nat, j \in G PROVE j + 1 \in G
    <3>1. SUFFICES ASSUME j + 1 <= n PROVE g[j + 1] \in T
      OBVIOUS
    <3>2. j \in 0 .. n - 1 /\ g[j] \in T
      BY <2>2, <3>1
    <3>3. GaussColumn(g[j], j) \in T
      BY <3>2, GaussColumnType DEF T
    <3> QED
      BY <1>10, <3>2, <3>3
  <2> HIDE DEF G
  <2>3. Nat \subseteq G
    BY <2>1, <2>2, NatSetInduction
  <2>4. \A j \in 0 .. n : g[j] \in T
    BY <2>3 DEF G
  <2>5. g = [j \in 0 .. n |-> IF j = 0 THEN x ELSE GaussColumn(g[j - 1], j - 1)]
    BY <1>8 DEF Is
  <2> QED
    BY <2>4, <2>5
<1> QED
  BY <1>7, <1>9, <1>10, <1>11 DEF x
-----------------------------------------------------------------------------
(* What gaussJordan() makes of a matrix. *)

LEMMA CombinedSymDiff ==
  ASSUME NEW D, IsFiniteSet(D), NEW C, NEW f \in Matrix(D, C), NEW S \in SUBSET D, NEW T \in SUBSET D
  PROVE  Combined(f, SymDiff(S, T), C) = SymDiff(Combined(f, S, C), Combined(f, T, C))
<1> DEFINE of(U, k) == {i \in U : k \in f[i]}
<1>1. \A U \in SUBSET D, k \in C : IsFiniteSet(of(U, k))
  BY FS_Subset
<1>2. \A k \in C : of(SymDiff(S, T), k) = SymDiff(of(S, k), of(T, k))
  BY DEF SymDiff
<1> HIDE DEF of
<1>3. \A k \in C : Odd(of(SymDiff(S, T), k)) <=> ~(Odd(of(S, k)) <=> Odd(of(T, k)))
  BY <1>1, <1>2, OddSymDiff
<1>4. \A k \in C : k \in Combined(f, SymDiff(S, T), C)
                     <=> ~(k \in Combined(f, S, C) <=> k \in Combined(f, T, C))
  BY <1>3 DEF Combined, of
<1>5. \A U : Combined(f, U, C) \in SUBSET C
  BY DEF Combined
<1> QED
  BY <1>4, <1>5 DEF SymDiff

\* The rows are what the steps make of the rows of X, the steps can be undone,
\* and the equations have the same solutions as those of X.
Derived(s, X, D, C) ==
  /\ Invertible(s.steps, D)
  /\ \A i \in D : s.rows[i] = Combined(X, s.steps[i], C)
  /\ \A v \in SUBSET C : Times(s.rows, v) = {} <=> Times(X, v) = {}

\* In the columns up to j, rows beyond the last pivot are empty, and every row
\* up to it has a column that no other row has.
Reduced(s, j, D, C) ==
  /\ \A i \in D, c \in C : i > s.last /\ c < j => c \notin s.rows[i]
  /\ \A i \in D : i <= s.last => \E c \in C : c < j /\ \A l \in D : c \in s.rows[l] <=> l = i

LEMMA GaussStepDerived ==
  ASSUME NEW D, IsFiniteSet(D), NEW C, IsFiniteSet(C), NEW X \in Matrix(D, C),
         NEW s \in GaussStates(D, C), Derived(s, X, D, C), NEW p \in D, NEW q \in D, NEW j
  PROVE  Derived(GaussStep(s, p, q, j), X, D, C)
<1> DEFINE R == Swap(s.rows, p, q)
           P == Swap(s.steps, p, q)
           hit == GaussHit(s, p, q, j)
           t == GaussStep(s, p, q, j)
<1>1. s.rows \in Matrix(D, C) /\ s.steps \in Matrix(D, D)
  BY DEF GaussStates
<1>2. R \in Matrix(D, C) /\ P \in Matrix(D, D)
  BY <1>1, SwapType
<1>3. hit \in SUBSET (D \ {p})
  BY <1>1 DEF GaussHit, Matrix
<1>4. t.rows = Added(R, p, hit) /\ t.steps = Added(P, p, hit)
  BY DEF GaussStep
<1>5. \A i \in D : R[i] = Combined(X, P[i], C)
  <2>1. \A i \in D : s.rows[i] = Combined(X, s.steps[i], C)
    BY DEF Derived
  <2>2. \A i \in D : R[i] = IF i = p THEN s.rows[q] ELSE IF i = q THEN s.rows[p] ELSE s.rows[i]
    BY <1>1 DEF Swap, Matrix
  <2>3. \A i \in D : P[i] = IF i = p THEN s.steps[q] ELSE IF i = q THEN s.steps[p] ELSE s.steps[i]
    BY <1>1 DEF Swap, Matrix
  <2> HIDE DEF R, P
  <2> QED
    BY <2>1, <2>2, <2>3
<1>6. Invertible(t.steps, D)
  <2>1. Invertible(P, D)
    BY SwapInvertible DEF Derived
  <2> HIDE DEF P, hit, t
  <2> QED
    BY <1>3, <1>4, <2>1, AddedInvertible
<1>7. \A v \in SUBSET C : Times(R, v) = {} <=> Times(X, v) = {}
  <2>1. \A v \in SUBSET C : Times(R, v) = {} <=> Times(s.rows, v) = {}
    <3> DEFINE f == s.rows
    <3>1. f \in Matrix(D, C)
      BY <1>1
    <3> HIDE DEF hit, f
    <3>2. \A v \in SUBSET C : Times(Swap(f, p, q), v) = {} <=> Times(f, v) = {}
      BY <3>1, SwapSolvesSame
    <3> QED
      BY <3>2 DEF f
  <2> QED
    BY <2>1 DEF Derived
<1> HIDE DEF R, P, hit, t
<1>8. ASSUME NEW i \in D PROVE t.rows[i] = Combined(X, t.steps[i], C)
  <2>1. /\ t.rows[i] = IF i \in hit THEN SymDiff(R[i], R[p]) ELSE R[i]
        /\ t.steps[i] = IF i \in hit THEN SymDiff(P[i], P[p]) ELSE P[i]
    BY <1>2, <1>4, AddedType
  <2>2. P[i] \in SUBSET D /\ P[p] \in SUBSET D
    BY <1>2 DEF Matrix
  <2>3. Combined(X, SymDiff(P[i], P[p]), C) = SymDiff(Combined(X, P[i], C), Combined(X, P[p], C))
    BY <2>2, CombinedSymDiff
  <2> QED
    BY <1>5, <2>1, <2>3
<1>9. ASSUME NEW v \in SUBSET C PROVE Times(t.rows, v) = {} <=> Times(X, v) = {}
  <2>1. Times(Added(R, p, hit), v) = {} <=> Times(R, v) = {}
    BY <1>2, <1>3, AddedSolvesSame
  <2> QED
    BY <1>4, <1>7, <2>1
<1> QED
  BY <1>6, <1>8, <1>9 DEF Derived, t

LEMMA GaussStepReduced ==
  ASSUME NEW m \in Nat, NEW n \in Nat, NEW s \in GaussStates(Indices(m), Indices(n)),
         NEW j \in Indices(n), Reduced(s, j, Indices(m), Indices(n)),
         NEW p \in Indices(m), NEW q \in Indices(m), p = s.last + 1, p <= q, j \in s.rows[q]
  PROVE  Reduced(GaussStep(s, p, q, j), j + 1, Indices(m), Indices(n))
<1> DEFINE D == Indices(m)
           C == Indices(n)
           R == Swap(s.rows, p, q)
           hit == GaussHit(s, p, q, j)
           t == GaussStep(s, p, q, j)
<1>1. s.rows \in Matrix(D, C) /\ s.last \in Int /\ \A i \in D : i \in Int
  BY DEF GaussStates, Indices
<1>2. R \in Matrix(D, C)
  BY <1>1, SwapType
<1>3. hit = {i \in D : i # p /\ j \in R[i]}
  BY <1>1 DEF GaussHit, Matrix
<1>4. t.last = p /\ \A i \in D : t.rows[i] = IF i \in hit THEN SymDiff(R[i], R[p]) ELSE R[i]
  <2>1. t.rows = Added(R, p, hit) /\ t.last = p
    BY DEF GaussStep
  <2> HIDE DEF R, hit, t
  <2> QED
    BY <1>2, <2>1, AddedType
<1>5. \A i \in D : R[i] = IF i = p THEN s.rows[q] ELSE IF i = q THEN s.rows[p] ELSE s.rows[i]
  BY <1>1 DEF Swap, Matrix
<1>6. p \in Int /\ q \in Int /\ p > s.last /\ q > s.last /\ j \in Int /\ \A c \in C : c \in Int
  BY <1>1 DEF Indices
<1> HIDE DEF R, hit, t, D, C
\* The exchanged rows are empty in the columns before j.
<1>7. \A i \in D, c \in C : i >= p /\ c < j => c \notin R[i]
  <2>1. \A i \in D, c \in C : i > s.last /\ c < j => c \notin s.rows[i]
    BY DEF Reduced, D, C
  <2>2. \A i \in D : i >= p => i > s.last
    BY <1>1
  <2>3. p \in D /\ q \in D
    BY DEF D
  <2> QED
    BY <1>5, <1>6, <2>1, <2>2, <2>3
<1>8. j \in R[p] /\ p \in D /\ j \in C
  BY <1>5 DEF D, C
<1>9. ASSUME NEW i \in D, NEW c \in C, c < j PROVE c \in t.rows[i] <=> c \in R[i]
  <2>1. c \notin R[p]
    BY <1>6, <1>7, <1>8, <1>9
  <2> QED
    BY <1>4, <2>1 DEF SymDiff
<1>10. ASSUME NEW i \in D PROVE j \in t.rows[i] <=> i = p
  <2>1. i \in hit <=> i # p /\ j \in R[i]
    BY <1>3
  <2> QED
    BY <1>4, <1>8, <2>1 DEF SymDiff
<1>11. \A c \in C : c < j + 1 => c = j \/ c < j
  BY <1>6
<1>12. ASSUME NEW i \in D, NEW c \in C, i > p, c < j + 1 PROVE c \notin t.rows[i]
  <2>1. i >= p /\ i # p
    BY <1>1, <1>6, <1>12
  <2> QED
    BY <1>7, <1>9, <1>10, <1>11, <1>12, <2>1
<1>13. ASSUME NEW i \in D, i <= p
       PROVE  \E c \in C : c < j + 1 /\ \A l \in D : c \in t.rows[l] <=> l = i
  <2>1. CASE i = p
    BY <1>6, <1>8, <1>10, <2>1
  <2>2. CASE i # p
    <3>1. i <= s.last
      BY <1>1, <1>13, <2>2
    <3>2. PICK c \in C : c < j /\ \A l \in D : c \in s.rows[l] <=> l = i
      BY <3>1 DEF Reduced, D, C
    <3>3. i # q /\ p \in D /\ q \in D
      BY <1>1, <1>6, <3>1 DEF D
    <3>4. \A l \in D : c \in R[l] <=> l = i
      BY <1>5, <2>2, <3>2, <3>3
    <3>5. c < j + 1
      BY <1>6, <3>2
    <3> QED
      BY <1>9, <3>2, <3>4, <3>5
  <2> QED
    BY <2>1, <2>2
<1> QED
  BY <1>4, <1>12, <1>13 DEF Reduced, t, D, C

\* gaussJordan() of X.
LEMMA GaussJordanReduces ==
  ASSUME NEW m \in Nat, NEW n \in Nat, NEW X \in Matrix(Indices(m), Indices(n))
  PROVE  /\ GaussJordan(X, n) \in GaussStates(Indices(m), Indices(n))
         /\ Derived(GaussJordan(X, n), X, Indices(m), Indices(n))
         /\ Reduced(GaussJordan(X, n), n, Indices(m), Indices(n))
<1> DEFINE D == Indices(m)
           C == Indices(n)
           s == GaussColumns(X, n)
           Good(j) == Derived(s[j], X, D, C) /\ Reduced(s[j], j, D, C)
           G == {j \in Nat : j <= n => Good(j)}
<1>1. /\ s \in [0 .. n -> GaussStates(D, C)]
      /\ s[0] = [rows |-> X, steps |-> Identity(m), last |-> -1]
      /\ \A j \in 0 .. n - 1 : s[j + 1] = GaussColumn(s[j], j)
  BY GaussColumnsAre
<1>2. IsFiniteSet(D) /\ IsFiniteSet(C)
  BY FS_Interval DEF Indices
<1> HIDE DEF s
<1>3. Good(0)
  <2>1. Invertible(Identity(m), D)
    BY IdentityInvertible
  <2>2. ASSUME NEW i \in D PROVE X[i] = Combined(X, Identity(m)[i], C)
    <3>1. X[i] \in SUBSET C /\ Identity(m)[i] = {i}
      BY DEF Matrix, Identity
    <3>2. \A k \in C : {l \in {i} : k \in X[l]} = IF k \in X[i] THEN {i} ELSE {}
      OBVIOUS
    <3> HIDE DEF C
    <3> QED
      BY <3>1, <3>2, OddOne, OddEmpty DEF Combined
  <2>3. Derived(s[0], X, D, C)
    <3> HIDE DEF D, C
    <3> QED
      BY <1>1, <2>1, <2>2 DEF Derived
  <2>4. Reduced(s[0], 0, D, C)
    <3>1. (\A c \in C : ~(c < 0)) /\ \A i \in D : ~(i <= -1)
      BY DEF Indices
    <3> HIDE DEF D, C
    <3> QED
      BY <1>1, <3>1 DEF Reduced
  <2> QED
    BY <2>3, <2>4
<1>4. ASSUME NEW j \in Nat, j \in G PROVE j + 1 \in G
  <2> SUFFICES ASSUME j + 1 <= n PROVE Good(j + 1)
    OBVIOUS
  <2>1. j \in 0 .. n - 1 /\ j \in 0 .. n /\ Good(j) /\ j \in C
    BY <1>4 DEF Indices
  <2>2. s[j] \in GaussStates(D, C) /\ s[j + 1] = GaussColumn(s[j], j)
    BY <1>1, <2>1
  <2> HIDE DEF D, C, Good
  <2>3. \/ (\A i \in D : i > s[j].last => j \notin s[j].rows[i]) /\ s[j + 1] = s[j]
        \/ \E p, q \in D : /\ p = s[j].last + 1 /\ p <= q /\ j \in s[j].rows[q]
                           /\ s[j + 1] = GaussStep(s[j], p, q, j)
    BY <2>2, GaussColumnIs DEF D
  <2>4. CASE (\A i \in D : i > s[j].last => j \notin s[j].rows[i]) /\ s[j + 1] = s[j]
    <3>1. \A c \in C : (c < j + 1 <=> c < j \/ c = j)
      BY <2>1 DEF C, Indices
    <3>2. Reduced(s[j], j, D, C) /\ Derived(s[j], X, D, C)
      BY <2>1 DEF Good
    <3>3. Reduced(s[j], j + 1, D, C)
      BY <2>4, <3>1, <3>2 DEF Reduced
    <3> QED
      BY <2>4, <3>2, <3>3 DEF Good
  <2>5. CASE \E p, q \in D : /\ p = s[j].last + 1 /\ p <= q /\ j \in s[j].rows[q]
                             /\ s[j + 1] = GaussStep(s[j], p, q, j)
    <3>1. PICK p \in D, q \in D : /\ p = s[j].last + 1 /\ p <= q /\ j \in s[j].rows[q]
                                  /\ s[j + 1] = GaussStep(s[j], p, q, j)
      BY <2>5
    <3>2. X \in Matrix(D, C) /\ Derived(s[j], X, D, C) /\ Reduced(s[j], j, D, C)
      BY <2>1 DEF Good, D, C
    <3>3. Derived(s[j + 1], X, D, C)
      BY <1>2, <2>2, <3>1, <3>2, GaussStepDerived
    <3>4. Reduced(s[j + 1], j + 1, D, C)
      BY <2>1, <2>2, <3>1, <3>2, GaussStepReduced DEF D, C
    <3> QED
      BY <3>3, <3>4 DEF Good
  <2> QED
    BY <2>3, <2>4, <2>5
<1>5. Good(n)
  <2>1. 0 \in G
    BY <1>3
  <2> HIDE DEF G
  <2>2. Nat \subseteq G
    BY <1>4, <2>1, NatSetInduction
  <2> QED
    BY <2>2 DEF G
<1>6. GaussJordan(X, n) = s[n] /\ s[n] \in GaussStates(D, C)
  BY <1>1 DEF GaussJordan, s
<1> QED
  BY <1>5, <1>6
-----------------------------------------------------------------------------
(* The rank of the parity check matrix, which codingMatrix() finds by *)
(* reducing the columns of the reduced matrix again.                  *)

LEMMA TransposeTimes ==
  ASSUME NEW D, NEW n, NEW f \in Matrix(D, Indices(n))
  PROVE  /\ Transpose(f, n) \in Matrix(Indices(n), D)
         /\ \A v \in SUBSET D : Times(Transpose(f, n), v) = Combined(f, v, Indices(n))
<1>1. DOMAIN f = D /\ Transpose(f, n) \in Matrix(Indices(n), D) /\ DOMAIN Transpose(f, n) = Indices(n)
  BY DEF Matrix, Transpose
<1>2. ASSUME NEW v \in SUBSET D, NEW j \in Indices(n)
      PROVE  Transpose(f, n)[j] \cap v = {i \in v : j \in f[i]}
  BY <1>1 DEF Transpose
<1>3. ASSUME NEW v \in SUBSET D
      PROVE  Times(Transpose(f, n), v) = Combined(f, v, Indices(n))
  <2>1. Times(Transpose(f, n), v) = {j \in Indices(n) : Odd(Transpose(f, n)[j] \cap v)}
    BY <1>1 DEF Times
  <2> QED
    BY <1>2, <2>1 DEF Combined
<1> QED
  BY <1>1, <1>3

\* Only the rows beyond the last pivot combine to nothing.
LEMMA ReducedKernel ==
  ASSUME NEW m \in Nat, NEW n \in Nat, NEW s \in GaussStates(Indices(m), Indices(n)),
         Reduced(s, n, Indices(m), Indices(n)), NEW v \in SUBSET Indices(m)
  PROVE  Combined(s.rows, v, Indices(n)) = {} <=> \A i \in v : i > s.last
<1> DEFINE D == Indices(m)
           C == Indices(n)
           R == s.rows
<1>1. R \in Matrix(D, C) /\ s.last \in Int /\ D \in SUBSET Int /\ \A c \in C : c < n
  BY DEF GaussStates, Indices
<1>2. /\ \A i \in D, c \in C : i > s.last => c \notin R[i]
      /\ \A i \in D : i <= s.last => \E c \in C : \A l \in D : c \in R[l] <=> l = i
  BY <1>1 DEF Reduced
<1>3. \A c : c \in Combined(R, v, C) <=> c \in C /\ Odd({i \in v : c \in R[i]})
  BY DEF Combined
<1> HIDE DEF D, C, R
<1>a. v \in SUBSET D
  BY DEF D
<1>4. ASSUME Combined(R, v, C) = {}, NEW i \in v PROVE i > s.last
  <2>1. SUFFICES ASSUME i <= s.last PROVE FALSE
    BY <1>1, <1>a
  <2>2. PICK c \in C : \A l \in D : c \in R[l] <=> l = i
    BY <1>2, <1>a, <2>1
  <2>3. {l \in v : c \in R[l]} = {i}
    BY <1>a, <2>2
  <2> QED
    BY <1>3, <1>4, <2>3, OddOne
<1>5. ASSUME \A i \in v : i > s.last PROVE Combined(R, v, C) = {}
  <2>1. \A c \in C : {i \in v : c \in R[i]} = {}
    BY <1>2, <1>5, <1>a
  <2> QED
    BY <1>3, <2>1, OddEmpty
<1> QED
  BY <1>4, <1>5 DEF R, C

\* The equations are solved by the vectors beyond r, and by no others.
SolvedBeyond(X, r, C) == \A v \in SUBSET C : Times(X, v) = {} <=> \A i \in v : i >= r

\* Such a system, when it is reduced, has r rows with a single 1; the others are
\* empty.
LEMMA ReducedOnes ==
  ASSUME NEW k \in Nat, NEW n \in Nat, NEW t \in GaussStates(Indices(k), Indices(n)),
         Reduced(t, n, Indices(k), Indices(n)), NEW r \in 0 .. n,
         SolvedBeyond(t.rows, r, Indices(n))
  PROVE  Ones(t.rows) = r
<1> DEFINE D == Indices(k)
           C == Indices(n)
           A == t.rows
           P == {i \in D : i <= t.last}
           c == [i \in P |-> CHOOSE x \in C : \A l \in D : x \in A[l] <=> l = i]
<1>1. A \in Matrix(D, C) /\ t.last \in Int /\ D \in SUBSET Int /\ \A x \in C : x \in Int /\ x < n /\ x >= 0
  BY DEF GaussStates, Indices
<1>2. c \in [P -> C] /\ \A i \in P, l \in D : c[i] \in A[l] <=> l = i
  <2>1. \A i \in P : \E x \in C : \A l \in D : x \in A[l] <=> l = i
    BY DEF Reduced
  <2> HIDE DEF D, C, A, P
  <2> QED
    BY <2>1
<1>3. \A i \in D \ P : A[i] = {}
  <2>1. \A i \in D, x \in C : i > t.last => x \notin A[i]
    BY <1>1 DEF Reduced
  <2>2. \A i \in D \ P : i > t.last
    BY <1>1
  <2>3. \A i \in D : A[i] \in SUBSET C
    BY <1>1 DEF Matrix
  <2> HIDE DEF D, C, A, P
  <2> QED
    BY <2>1, <2>2, <2>3
<1>4. P \in SUBSET D /\ DOMAIN A = D /\ \A i \in D : A[i] \in SUBSET C
  BY <1>1 DEF Matrix
<1>5. \A v \in SUBSET C : (\A l \in D : ~Odd(A[l] \cap v)) <=> \A i \in v : i >= r
  <2>1. \A v \in SUBSET C : Times(A, v) = {} <=> \A i \in v : i >= r
    BY DEF SolvedBeyond
  <2> HIDE DEF D, C, A, P
  <2> QED
    BY <1>4, <2>1 DEF Times
<1> HIDE DEF D, C, A, P, c
<1>6. ASSUME NEW i \in P PROVE c[i] \in C /\ c[i] < r /\ c[i] >= 0
  <2> DEFINE x == c[i]
  <2>1. x \in C /\ i \in D /\ x \in A[i]
    BY <1>2, <1>4
  <2> HIDE DEF x
  <2>2. {x} \in SUBSET C /\ A[i] \cap {x} = {x}
    BY <2>1
  <2>3. Odd({x})
    BY OddOne
  <2>4. ~(\A l \in D : ~Odd(A[l] \cap {x}))
    BY <2>1, <2>2, <2>3
  <2>5. ~(\A y \in {x} : y >= r)
    BY <1>5, <2>2, <2>4
  <2>6. x < r
    BY <1>1, <2>1, <2>5
  <2> QED
    BY <1>1, <2>1, <2>6 DEF x
<1>7. ASSUME NEW i \in P, NEW d \in A[i], d # c[i] PROVE FALSE
  <2> DEFINE v == {d} \cup {c[l] : l \in {l \in P : d \in A[l]}}
  <2>1. v \in SUBSET C /\ c[i] \in v
    BY <1>2, <1>4
  <2>2. ASSUME NEW l \in D PROVE ~Odd(A[l] \cap v)
    <3>1. CASE l \notin P
      <4>1. A[l] \cap v = {}
        BY <1>3, <3>1
      <4> QED
        BY <4>1, OddEmpty
    <3>2. CASE l \in P /\ d \in A[l]
      <4>1. A[l] \cap v = {d, c[l]}
        BY <1>2, <1>4, <3>2
      <4>2. d # c[l]
        <5>1. SUFFICES ASSUME d = c[l] PROVE FALSE
          OBVIOUS
        <5>2. i \in D /\ l \in P /\ c[l] \in A[i]
          BY <1>4, <3>2, <5>1
        <5>3. i = l
          BY <1>2, <5>2
        <5> QED
          BY <1>7, <5>1, <5>3
      <4>3. ~Odd({d, c[l]})
        BY <4>2, OddTwo
      <4> QED
        BY <4>1, <4>3
    <3>3. CASE l \in P /\ d \notin A[l]
      <4>1. A[l] \cap v = {}
        BY <1>2, <1>4, <3>3
      <4> QED
        BY <4>1, OddEmpty
    <3> QED
      BY <3>1, <3>2, <3>3
  <2> HIDE DEF v
  <2>3. c[i] >= r
    BY <1>5, <2>1, <2>2
  <2> QED
    BY <1>1, <1>6, <2>3
<1>8. ASSUME NEW i \in P PROVE A[i] = {c[i]}
  BY <1>2, <1>4, <1>7
<1>9. ASSUME NEW d \in 0 .. r - 1 PROVE \E i \in P : c[i] = d
  <2>1. {d} \in SUBSET C /\ ~(d >= r)
    BY DEF C, Indices
  <2>2. PICK l \in D : Odd(A[l] \cap {d})
    BY <1>5, <2>1
  <2>3. d \in A[l]
    <3>1. SUFFICES ASSUME d \notin A[l] PROVE FALSE
      OBVIOUS
    <3>2. A[l] \cap {d} = {}
      BY <3>1
    <3> QED
      BY <2>2, <3>2, OddEmpty
  <2> QED
    BY <1>3, <1>8, <2>3
<1>10. IsFiniteSet(D) /\ IsFiniteSet(P)
  <2>1. IsFiniteSet(D)
    BY FS_Interval DEF D, Indices
  <2> QED
    BY <1>4, <2>1, FS_Subset
<1>11. Cardinality(P) = r
  <2>1. c \in [P -> 0 .. r - 1]
    <3>1. \A i \in P : c[i] \in 0 .. r - 1
      BY <1>1, <1>6
    <3> QED
      BY <1>2, <3>1
  <2>2. c \in Bijection(P, 0 .. r - 1)
    <3>1. \A i, j \in P : c[i] = c[j] => i = j
      BY <1>2, <1>4
    <3> QED
      BY <1>9, <2>1, <3>1 DEF Bijection, Injection, Surjection, IsInjective
  <2>3. Cardinality(P) = Cardinality(0 .. r - 1)
    BY <1>10, <2>2, FS_Bijection DEF ExistsBijection
  <2> QED
    BY <2>3, FS_Interval
<1> DEFINE count == [i \in D |-> Cardinality(A[i])]
<1>12. /\ \A i \in P : count[i] = 1
       /\ \A i \in D \ P : count[i] = 0
  <2>1. \A i \in D : count[i] = Cardinality(A[i])
    OBVIOUS
  <2> HIDE DEF count
  <2>2. ASSUME NEW i \in P PROVE count[i] = 1
    <3>1. Cardinality({c[i]}) = 1
      BY FS_Singleton
    <3> QED
      BY <1>4, <1>8, <2>1, <3>1
  <2>3. ASSUME NEW i \in D \ P PROVE count[i] = 0
    <3>1. Cardinality({}) = 0
      BY FS_EmptySet
    <3> QED
      BY <1>3, <2>1, <3>1
  <2> QED
    BY <2>2, <2>3
<1>13. Ones(A) = SumOver(count, D)
  BY <1>4 DEF Ones, SumOver
<1> HIDE DEF count
<1>14. SumOver(count, D) = 1 * SumOver(count, P)
  <2>1. Multiples(count, count, 1, P)
    BY <1>12 DEF Multiples
  <2> QED
    BY <1>4, <1>10, <1>12, <2>1, SumOverPart
<1>15. SumOver(count, P) = r
  BY <1>10, <1>11, <1>12, SumOverOnes
<1> QED
  BY <1>13, <1>14, <1>15 DEF A
-----------------------------------------------------------------------------
(* The coding matrix. *)

\* Combinations of combinations.
LEMMA CombinedTwice ==
  ASSUME NEW D, IsFiniteSet(D), NEW C, NEW X \in Matrix(D, C), NEW P \in Matrix(D, D), NEW R,
         \A i \in D : R[i] = Combined(X, P[i], C), NEW S \in SUBSET D
  PROVE  Combined(X, Combined(P, S, D), C) = Combined(R, S, C)
<1> DEFINE V == Combined(P, S, D)
<1>1. V = {i \in D : Odd({l \in S : i \in P[l]})} /\ IsFiniteSet(S) /\ \A l \in S : P[l] \in SUBSET D
  BY FS_Subset DEF Combined, Matrix
<1>2. ASSUME NEW k \in C
      PROVE  Odd({i \in V : k \in X[i]}) <=> Odd({l \in S : k \in R[l]})
  <2> DEFINE A == {i \in D : k \in X[i]}
             T == {q \in A \X S : q[1] \in P[q[2]]}
  <2>1. IsFiniteSet(A)
    BY FS_Subset
  <2>2. Odd(OddRows(T, A, S)) <=> Odd(OddColumns(T, A, S))
    <3>1. IsFiniteSet(S)
      BY <1>1
    <3> HIDE DEF A, T
    <3> QED
      BY <2>1, <3>1, OddByRows
  <2>3. \A i \in A : {l \in S : <<i, l>> \in T} = {l \in S : i \in P[l]}
    OBVIOUS
  <2>4. \A l \in S : {i \in A : <<i, l>> \in T} = {i \in P[l] : k \in X[i]}
    BY <1>1
  <2> HIDE DEF T, V
  <2>5. OddRows(T, A, S) = {i \in V : k \in X[i]}
    BY <1>1, <2>3 DEF OddRows
  <2>6. OddColumns(T, A, S) = {l \in S : k \in R[l]}
    <3>1. \A l \in S : k \in R[l] <=> Odd({i \in P[l] : k \in X[i]})
      BY DEF Combined
    <3> HIDE DEF A
    <3> QED
      BY <2>4, <3>1 DEF OddColumns
  <2> QED
    BY <2>2, <2>5, <2>6
<1> HIDE DEF V
<1> QED
  BY <1>2 DEF Combined, V

Sized(H) == H \in Matrix(Indices(CodeLen - 2), Bits)

LEMMA Sizes ==
  /\ CodeLen \in Nat /\ CodeLen - 2 \in Nat /\ CodeLen - MessageLen = MessageLen
  /\ MessageLen \in Nat /\ MessageLen > 1 /\ CodeLen = MessageLen + MessageLen
  /\ Bits = Indices(CodeLen) /\ FirstHalf = Indices(MessageLen) /\ FirstHalf \in SUBSET Bits
  /\ IsFiniteSet(Bits) /\ IsFiniteSet(FirstHalf)
BY LdpcAssumption, FS_Interval DEF CodeLen, Bits, FirstHalf, Indices

\* The checks a word has to pass, as combinations of the columns.
LEMMA ChecksAsColumns ==
  ASSUME NEW H, Sized(H), NEW v \in SUBSET Bits
  PROVE  /\ Transpose(H, CodeLen) \in Matrix(Bits, Indices(CodeLen - 2))
         /\ Times(H, v) = Combined(Transpose(H, CodeLen), v, Indices(CodeLen - 2))
<1> DEFINE C == Indices(CodeLen - 2)
           X == Transpose(H, CodeLen)
<1>1. DOMAIN H = C /\ \A j \in C : H[j] \in SUBSET Bits
  BY DEF Sized, Matrix
<1>2. X \in Matrix(Bits, C) /\ \A i \in Bits : X[i] = {j \in C : i \in H[j]}
  BY <1>1 DEF Transpose, Matrix, Bits
<1> HIDE DEF X, C
<1>3. \A j \in C : {i \in v : j \in X[i]} = H[j] \cap v
  BY <1>1, <1>2
<1> QED
  BY <1>1, <1>2, <1>3 DEF Times, Combined, X, C

\* What codingMatrix() computes.
Steps(H) == GaussJordan(Transpose(H, CodeLen), CodeLen - 2)

Rank(H) == Steps(H).last + 1

LEMMA StepsAre ==
  ASSUME NEW H, Sized(H)
  PROVE  /\ Steps(H) \in GaussStates(Bits, Indices(CodeLen - 2))
         /\ Derived(Steps(H), Transpose(H, CodeLen), Bits, Indices(CodeLen - 2))
         /\ Reduced(Steps(H), CodeLen - 2, Bits, Indices(CodeLen - 2))
         /\ Rank(H) \in 0 .. CodeLen /\ Steps(H).last \in Int
<1>1. Transpose(H, CodeLen) \in Matrix(Indices(CodeLen), Indices(CodeLen - 2))
  BY ChecksAsColumns, Sizes
<1>2. /\ Steps(H) \in GaussStates(Bits, Indices(CodeLen - 2))
      /\ Derived(Steps(H), Transpose(H, CodeLen), Bits, Indices(CodeLen - 2))
      /\ Reduced(Steps(H), CodeLen - 2, Bits, Indices(CodeLen - 2))
  BY <1>1, Sizes, GaussJordanReduces DEF Steps
<1>3. Steps(H).last \in Bits \cup {-1}
  BY <1>2 DEF GaussStates
<1>4. Rank(H) \in 0 .. CodeLen /\ Steps(H).last \in Int
  BY <1>3, Sizes DEF Rank, Indices
<1> QED
  BY <1>2, <1>4

LEMMA MessageBitsAre ==
  ASSUME Sized(check)
  PROVE  MessageBits = CodeLen - Rank(check)
<1> DEFINE N == CodeLen
           K == CodeLen - 2
           D == Indices(N)
           C == Indices(K)
           s == Steps(check)
           Y == Transpose(s.rows, K)
           t == GaussJordan(Y, N)
<1>1. /\ s \in GaussStates(D, C) /\ Reduced(s, K, D, C)
      /\ Rank(check) \in 0 .. N /\ s.last \in Int /\ D \in SUBSET Int
      /\ Rank(check) = s.last + 1
  <2>1. s \in GaussStates(D, C) /\ Reduced(s, K, D, C) /\ Rank(check) \in 0 .. N
    BY StepsAre, Sizes
  <2>2. D \in SUBSET Int
    BY DEF Indices
  <2>3. s.last \in Int
    BY StepsAre
  <2> QED
    BY <2>1, <2>2, <2>3 DEF Rank, s
<1>2. MessageBits = CodeLen - Ones(t.rows)
  BY DEF MessageBits, Steps
<1>a. K \in Nat /\ N \in Nat
  BY Sizes
<1> HIDE DEF s, K, N
<1>3. /\ Y \in Matrix(C, D)
      /\ \A v \in SUBSET D : Times(Y, v) = Combined(s.rows, v, C)
  <2>1. s.rows \in Matrix(D, C)
    BY <1>1 DEF GaussStates
  <2> QED
    BY <2>1, TransposeTimes
<1>4. t \in GaussStates(C, D) /\ Derived(t, Y, C, D) /\ Reduced(t, N, C, D)
  BY <1>3, <1>a, GaussJordanReduces
<1> HIDE DEF Y, t
<1>5. ASSUME NEW v \in SUBSET D PROVE Times(t.rows, v) = {} <=> \A i \in v : i >= Rank(check)
  <2>1. Times(t.rows, v) = {} <=> Times(Y, v) = {}
    BY <1>4 DEF Derived
  <2>2. Combined(s.rows, v, C) = {} <=> \A i \in v : i > s.last
    BY <1>1, <1>a, ReducedKernel
  <2>3. \A i \in v : i > s.last <=> i >= Rank(check)
    BY <1>1
  <2> QED
    BY <1>3, <2>1, <2>2, <2>3
<1>6. SolvedBeyond(t.rows, Rank(check), D)
  <2> HIDE DEF D
  <2> QED
    BY <1>5 DEF SolvedBeyond
<1>7. Ones(t.rows) = Rank(check)
  BY <1>1, <1>4, <1>6, <1>a, ReducedOnes
<1> QED
  BY <1>2, <1>7 DEF N

\* The code words of H are what G makes of the messages, and no two messages
\* have the same.
Generates(G, H) ==
  /\ G \in Matrix(Bits, FirstHalf)
  /\ \A m \in SUBSET FirstHalf : Times(H, Times(G, m)) = {}
  /\ \A v \in SUBSET Bits : Times(H, v) = {} => \E m \in SUBSET FirstHalf : v = Times(G, m)
  /\ \A m \in SUBSET FirstHalf : Times(G, m) = {} => m = {}

LEMMA CodingMatrixIs ==
  ASSUME Sized(check), MessageBits = MessageLen
  PROVE  /\ Rank(check) = MessageLen
         /\ CodingMatrix =
              [i \in Bits |-> {c \in FirstHalf : i \in Steps(check).steps[MessageLen + c]}]
<1> DEFINE P == Steps(check).steps
           L == MessageLen
           unit == [i \in Bits |-> IF i >= L THEN {i - L} ELSE {}]
<1>1. Rank(check) = L
  <2>1. Rank(check) \in 0 .. CodeLen /\ L = CodeLen - Rank(check)
    BY StepsAre, MessageBitsAre
  <2> QED
    BY <2>1, Sizes
<1>2. CodingMatrix = Product(Transpose(P, CodeLen), unit, L)
  <2>1. CodeLen - MessageBits = L /\ CodeLen - L = L
    BY Sizes
  <2> QED
    BY <2>1 DEF CodingMatrix, Steps
<1>3. DOMAIN P = Bits /\ Transpose(P, CodeLen) = [j \in Bits |-> {i \in Bits : j \in P[i]}]
  <2>1. P \in Matrix(Bits, Bits)
    BY StepsAre DEF GaussStates
  <2> HIDE DEF P
  <2>2. DOMAIN P = Bits
    BY <2>1 DEF Matrix
  <2> QED
    BY <2>2 DEF Transpose, Bits
<1> HIDE DEF P
<1>4. ASSUME NEW i \in Bits, NEW c \in FirstHalf
      PROVE  Odd({l \in {l \in Bits : i \in P[l]} : c \in unit[l]}) <=> i \in P[L + c]
  <2>1. \A l \in Bits : c \in unit[l] <=> l = L + c
    <3>1. c \in 0 .. L - 1 /\ L \in Nat /\ \A l \in Bits : l \in Nat
      BY Sizes DEF Indices
    <3> QED
      BY <3>1
  <2>2. L + c \in Bits
    BY Sizes DEF Indices
  <2> HIDE DEF unit, L
  <2>3. {l \in {l \in Bits : i \in P[l]} : c \in unit[l]} = IF i \in P[L + c] THEN {L + c} ELSE {}
    BY <2>1, <2>2
  <2>4. Odd({L + c}) /\ ~Odd({})
    BY OddOne, OddEmpty
  <2> QED
    BY <2>3, <2>4
<1>5. CodingMatrix = [i \in Bits |-> {c \in FirstHalf : i \in P[L + c]}]
  <2>1. CodingMatrix = [i \in Bits |-> {c \in FirstHalf :
                          Odd({l \in {l \in Bits : i \in P[l]} : c \in unit[l]})}]
    <3> HIDE DEF unit
    <3> QED
      BY <1>2, <1>3, Sizes DEF Product
  <2> HIDE DEF unit, L
  <2> QED
    BY <1>4, <2>1
<1> QED
  BY <1>1, <1>5 DEF P

LEMMA CodingMatrixGenerates ==
  ASSUME Sized(check), MessageBits = MessageLen
  PROVE  Generates(CodingMatrix, check)
<1> DEFINE C == Indices(CodeLen - 2)
           L == MessageLen
           X == Transpose(check, CodeLen)
           s == Steps(check)
           P == s.steps
           R == s.rows
           G == CodingMatrix
           Beyond(m) == {L + c : c \in m}
<1>1. /\ P \in Matrix(Bits, Bits) /\ Invertible(P, Bits)
      /\ \A i \in Bits : R[i] = Combined(X, P[i], C)
      /\ Reduced(s, CodeLen - 2, Bits, C) /\ s \in GaussStates(Bits, C)
  BY StepsAre DEF GaussStates, Derived
<1>2. Rank(check) = L /\ G = [i \in Bits |-> {c \in FirstHalf : i \in P[L + c]}]
  BY CodingMatrixIs
<1>3. G \in Matrix(Bits, FirstHalf) /\ DOMAIN G = Bits
  <2> HIDE DEF P, L, G
  <2> QED
    BY <1>2 DEF Matrix
<1>4. L \in Nat /\ \A c \in FirstHalf : c \in Nat /\ L + c \in Bits /\ L + c >= L
  BY Sizes DEF Indices
<1>5. X \in Matrix(Bits, C) /\ \A v \in SUBSET Bits : Times(check, v) = Combined(X, v, C)
  <2>1. {} \in SUBSET Bits
    OBVIOUS
  <2> QED
    BY <2>1, ChecksAsColumns
<1>6. \A S \in SUBSET Bits : Combined(R, S, C) = {} <=> \A i \in S : i >= L
  <2>1. s.last = L - 1
    <3>1. s.last \in Bits \cup {-1} /\ s.last + 1 = L
      BY <1>1, <1>2 DEF GaussStates, Rank
    <3>2. s.last \in Int
      BY <3>1 DEF Bits, Indices
    <3> HIDE DEF s
    <3> QED
      BY <1>4, <3>1, <3>2
  <2>2. \A i \in Bits : i > s.last <=> i >= L
    <3>1. \A i \in Bits : i \in Int
      BY DEF Bits, Indices
    <3> HIDE DEF s
    <3> QED
      BY <1>4, <2>1, <3>1
  <2> HIDE DEF s
  <2>3. \A S \in SUBSET Bits : Combined(s.rows, S, C) = {} <=> \A i \in S : i > s.last
    <3> DEFINE N == CodeLen
               K == CodeLen - 2
    <3>1. N \in Nat /\ K \in Nat /\ Bits = Indices(N) /\ C = Indices(K)
      BY Sizes
    <3>2. s \in GaussStates(Bits, C) /\ Reduced(s, K, Bits, C)
      BY <1>1
    <3> HIDE DEF N, K, C
    <3> QED
      BY <3>1, <3>2, ReducedKernel
  <2> HIDE DEF L
  <2> QED
    BY <2>2, <2>3
<1> HIDE DEF X, P, R, s, G, C
<1>7. ASSUME NEW m \in SUBSET FirstHalf
      PROVE  Beyond(m) \in SUBSET Bits /\ Times(G, m) = Combined(P, Beyond(m), Bits)
  <2>1. Beyond(m) \in SUBSET Bits
    BY <1>4
  <2>2. ASSUME NEW i \in Bits PROVE Odd(G[i] \cap m) <=> Odd({l \in Beyond(m) : i \in P[l]})
    <3> DEFINE A == G[i] \cap m
               B == {l \in Beyond(m) : i \in P[l]}
               f == [c \in A |-> L + c]
    <3>1. A = {c \in m : i \in P[L + c]}
      BY <1>2
    <3>2. IsFiniteSet(A)
      <4>1. A \in SUBSET FirstHalf
        OBVIOUS
      <4> QED
        BY <4>1, Sizes, FS_Subset
    <3>3. \A c \in A : L + c \in B
      BY <3>1
    <3>4. \A l \in B : \E c \in A : L + c = l
      BY <3>1
    <3>5. \A c, d \in A : L + c = L + d => c = d
      BY <1>4
    <3> HIDE DEF A, B, L
    <3>6. f \in Bijection(A, B)
      BY <3>3, <3>4, <3>5 DEF Bijection, Injection, Surjection, IsInjective
    <3>7. Cardinality(A) = Cardinality(B)
      BY <3>2, <3>6, FS_Bijection DEF ExistsBijection
    <3> QED
      BY <3>7 DEF Odd, A, B
  <2> HIDE DEF Beyond
  <2> QED
    BY <1>3, <2>1, <2>2 DEF Times, Combined
<1>8. \A S \in SUBSET Bits : Combined(X, Combined(P, S, Bits), C) = Combined(R, S, C)
  BY <1>1, <1>5, Sizes, CombinedTwice
<1>9. \A S : Combined(P, S, Bits) \in SUBSET Bits
  BY DEF Combined
<1>10. ASSUME NEW m \in SUBSET FirstHalf PROVE Times(check, Times(G, m)) = {}
  <2>1. \A i \in Beyond(m) : i >= L
    BY <1>4
  <2> HIDE DEF Beyond, L
  <2>2. Combined(R, Beyond(m), C) = {}
    BY <1>6, <1>7, <2>1
  <2> QED
    BY <1>5, <1>7, <1>8, <1>9, <2>2
<1>11. ASSUME NEW v \in SUBSET Bits, Times(check, v) = {}
       PROVE  \E m \in SUBSET FirstHalf : v = Times(G, m)
  <2>1. PICK S \in SUBSET Bits : Combined(P, S, Bits) = v
    BY <1>1 DEF Invertible
  <2>2. Combined(R, S, C) = {}
    BY <1>5, <1>8, <1>11, <2>1
  <2>3. \A i \in S : i >= L
    BY <1>6, <2>2
  <2> DEFINE m == {i - L : i \in S}
  <2>4. \A i \in S : i - L \in FirstHalf /\ L + (i - L) = i
    BY <2>3, Sizes DEF Indices
  <2>5. m \in SUBSET FirstHalf
    BY <2>4
  <2>6. S = Beyond(m)
    <3> HIDE DEF L
    <3> QED
      BY <2>4
  <2> HIDE DEF m, Beyond
  <2> QED
    BY <1>7, <2>1, <2>5, <2>6
<1>12. ASSUME NEW m \in SUBSET FirstHalf, Times(G, m) = {} PROVE m = {}
  <2>1. Beyond(m) = {}
    <3> HIDE DEF Beyond
    <3> QED
      BY <1>1, <1>7, <1>12 DEF Invertible
  <2> QED
    BY <2>1
<1> QED
  BY <1>3, <1>10, <1>11, <1>12 DEF Generates, G
-----------------------------------------------------------------------------
(* getMessageFromCodeword(). *)

EliminationStates(D, C) == [rows : Matrix(D, C), vector : SUBSET D]

\* Rows i and q are exchanged, then row i is added to the rows of hit.
EliminationStep(s, i, q, hit) ==
  LET vector == SwapEntries(s.vector, i, q)
  IN  [rows   |-> Added(Swap(s.rows, i, q), i, hit),
       vector |-> IF i \in vector THEN SymDiff(vector, hit) ELSE vector]

\* The rows from i on that seem to have a 1 in column i, and those it is added to.
EliminationFound(s, k, beyond, i) == {r \in DOMAIN s.rows : r >= i /\ At(s.rows, k, beyond, r, i)}

EliminationHit(s, k, beyond, i, q) ==
  {r \in DOMAIN s.rows \ {i} : At(Swap(s.rows, i, q), k, beyond, r, i)}

LEMMA EliminateColumnIs ==
  ASSUME NEW n \in Nat, NEW C, NEW s \in EliminationStates(Indices(n), C), NEW k, NEW beyond,
         NEW i \in Indices(n)
  PROVE  \/ EliminationFound(s, k, beyond, i) = {} /\ EliminateColumn(s, k, beyond, i) = s
         \/ \E q \in EliminationFound(s, k, beyond, i) :
              EliminateColumn(s, k, beyond, i)
                = EliminationStep(s, i, q, EliminationHit(s, k, beyond, i, q))
<1> DEFINE found == EliminationFound(s, k, beyond, i)
           q == Min(found)
           rows == Swap(s.rows, i, q)
           vector == SwapEntries(s.vector, i, q)
           hit == EliminationHit(s, k, beyond, i, q)
<1>1. s.rows \in Matrix(Indices(n), C) /\ DOMAIN s.rows = Indices(n)
  BY DEF EliminationStates, Matrix
<1>2. CASE found = {}
  BY <1>2 DEF EliminateColumn, EliminationFound
<1>3. CASE found # {}
  <2>1. q \in found
    <3>1. found \in SUBSET Nat
      BY <1>1 DEF EliminationFound, Indices
    <3> QED
      BY <1>3, <3>1, MinOf
  <2>2. DOMAIN rows = DOMAIN s.rows
    BY DEF Swap
  <2>3. EliminateColumn(s, k, beyond, i) =
          [rows   |-> [r \in DOMAIN rows |-> IF r \in hit THEN SymDiff(rows[r], rows[i]) ELSE rows[r]],
           vector |-> IF i \in vector THEN SymDiff(vector, hit) ELSE vector]
    BY <1>3, <2>2 DEF EliminateColumn, EliminationFound, EliminationHit
  <2>4. EliminateColumn(s, k, beyond, i) = EliminationStep(s, i, q, hit)
    <3> HIDE DEF q, hit
    <3> QED
      BY <2>3 DEF EliminationStep, Added
  <2> HIDE DEF q, found
  <2> QED
    BY <2>1, <2>4 DEF found
<1> QED
  BY <1>2, <1>3

LEMMA EliminationStepType ==
  ASSUME NEW D, NEW C, NEW s \in EliminationStates(D, C), NEW i \in D, NEW q \in D,
         NEW hit \in SUBSET D
  PROVE  EliminationStep(s, i, q, hit) \in EliminationStates(D, C)
<1>1. s.rows \in Matrix(D, C) /\ s.vector \in SUBSET D
  BY DEF EliminationStates
<1>2. Swap(s.rows, i, q) \in Matrix(D, C)
  BY <1>1, SwapType
<1>3. Added(Swap(s.rows, i, q), i, hit) \in Matrix(D, C)
  BY <1>2, AddedType
<1>4. SwapEntries(s.vector, i, q) \in SUBSET D
  BY <1>1 DEF SwapEntries
<1>5. SymDiff(SwapEntries(s.vector, i, q), hit) \in SUBSET D
  BY <1>4 DEF SymDiff
<1> QED
  BY <1>3, <1>4, <1>5 DEF EliminationStep, EliminationStates

LEMMA EliminateColumnType ==
  ASSUME NEW n \in Nat, NEW C, NEW s \in EliminationStates(Indices(n), C), NEW k, NEW beyond,
         NEW i \in Indices(n)
  PROVE  EliminateColumn(s, k, beyond, i) \in EliminationStates(Indices(n), C)
<1>1. CASE EliminateColumn(s, k, beyond, i) = s
  BY <1>1
<1>2. CASE EliminateColumn(s, k, beyond, i) # s
  <2>1. PICK q \in EliminationFound(s, k, beyond, i) :
          EliminateColumn(s, k, beyond, i)
            = EliminationStep(s, i, q, EliminationHit(s, k, beyond, i, q))
    BY <1>2, EliminateColumnIs
  <2>2. DOMAIN s.rows = Indices(n)
    BY DEF EliminationStates, Matrix
  <2>3. q \in Indices(n) /\ EliminationHit(s, k, beyond, i, q) \in SUBSET Indices(n)
    BY <2>2 DEF EliminationFound, EliminationHit
  <2> QED
    BY <2>1, <2>3, EliminationStepType
<1> QED
  BY <1>1, <1>2

LEMMA EliminateColumnsAre ==
  ASSUME NEW n \in Nat, NEW C, NEW A \in Matrix(Indices(n), C), NEW k,
         NEW vector \in SUBSET Indices(n), NEW beyond
  PROVE  LET s == EliminateColumns(A, k, vector, beyond)
         IN  /\ s[0] = [rows |-> A, vector |-> vector]
             /\ \A i \in 0 .. n - 1 : s[i + 1] = EliminateColumn(s[i], k, beyond, i)
             /\ GaussElimination(A, k, vector, beyond) = s[n]
<1> DEFINE D == Indices(n)
           T == EliminationStates(D, C)
           x == [rows |-> A, vector |-> vector]
           F == [q \in T \X (0 .. n - 1) |-> EliminateColumn(q[1], k, beyond, q[2])]
           Is(h) == h = [i \in 0 .. n |-> IF i = 0 THEN x
                                          ELSE EliminateColumn(h[i - 1], k, beyond, i - 1)]
<1>1. Cardinality(DOMAIN A) = n
  <2>1. DOMAIN A = 0 .. n - 1
    BY DEF Matrix, Indices
  <2>2. Cardinality(0 .. n - 1) = n
    BY FS_Interval
  <2> QED
    BY <2>1, <2>2
<1>2. x \in T
  BY DEF EliminationStates
<1>3. F \in [T \X (0 .. n - 1) -> T]
  <2>1. \A s \in T, i \in 0 .. n - 1 : EliminateColumn(s, k, beyond, i) \in T
    BY EliminateColumnType DEF Indices
  <2> HIDE DEF T
  <2> QED
    BY <2>1
<1>4. PICK f \in Stages(F, x, n, T) : TRUE
  <2> HIDE DEF x, F, T
  <2> QED
    BY <1>2, <1>3, Stepwise
<1>5. /\ f \in [0 .. n -> T]
      /\ \A i \in 0 .. n : f[i] = IF i = 0 THEN x ELSE F[<<f[i - 1], i - 1>>]
  <2> HIDE DEF x, F, T
  <2> QED
    BY <1>4 DEF Stages
<1>6. ASSUME NEW i \in 0 .. n, i # 0
      PROVE  F[<<f[i - 1], i - 1>>] = EliminateColumn(f[i - 1], k, beyond, i - 1)
  <2>1. i - 1 \in 0 .. n - 1 /\ f[i - 1] \in T
    <3> HIDE DEF T
    <3> QED
      BY <1>5, <1>6
  <2> HIDE DEF T
  <2> QED
    BY <2>1
<1>7. \E h : Is(h)
  <2> HIDE DEF x, F, T
  <2>1. \A i \in 0 .. n : f[i] = IF i = 0 THEN x ELSE EliminateColumn(f[i - 1], k, beyond, i - 1)
    BY <1>5, <1>6
  <2>2. f = [i \in 0 .. n |-> f[i]]
    BY <1>5
  <2>3. Is(f)
    BY <2>1, <2>2
  <2> QED
    BY <2>3
<1> DEFINE g == CHOOSE h : Is(h)
<1>8. EliminateColumns(A, k, vector, beyond) = g
  BY <1>1 DEF EliminateColumns
<1>9. Is(g)
  <2> HIDE DEF Is
  <2> QED
    BY <1>7
<1> HIDE DEF g, x, F
<1>10. \A i \in 0 .. n : g[i] = IF i = 0 THEN x ELSE EliminateColumn(g[i - 1], k, beyond, i - 1)
  BY <1>9
<1>11. g[0] = x
  BY <1>10
<1>12. ASSUME NEW i \in 0 .. n - 1 PROVE g[i + 1] = EliminateColumn(g[i], k, beyond, i)
  <2>1. i + 1 \in 0 .. n /\ i + 1 # 0 /\ (i + 1) - 1 = i
    OBVIOUS
  <2> QED
    BY <1>10, <2>1
<1>13. GaussElimination(A, k, vector, beyond) = g[n]
  BY <1>1, <1>8 DEF GaussElimination
<1> QED
  BY <1>8, <1>11, <1>12, <1>13 DEF x

\* Inside of the matrix nothing else is read.
LEMMA AtIs ==
  ASSUME NEW n \in Nat, NEW k \in Nat, NEW A \in Matrix(Indices(n), Indices(k)), NEW beyond,
         NEW r \in Indices(n), NEW i \in Indices(k)
  PROVE  At(A, k, beyond, r, i) <=> i \in A[r]
<1> DEFINE place == r * k + i
           rest == (n - 1) - r
<1>1. /\ r \in Nat /\ i \in Nat /\ i < k /\ k > 0 /\ rest \in Nat /\ i \in 0 .. k - 1
      /\ Cardinality(DOMAIN A) = n
  <2>1. DOMAIN A = 0 .. n - 1
    BY DEF Matrix, Indices
  <2>2. Cardinality(0 .. n - 1) = n
    BY FS_Interval
  <2> QED
    BY <2>1, <2>2 DEF Indices
<1>2. place < n * k /\ place \in Nat /\ place = k * r + i
  <2>1. rest * k \in Nat /\ r * k \in Nat /\ r * k = k * r
    <3> HIDE DEF rest
    <3> QED
      BY <1>1
  <2>2. n = r + 1 + rest
    BY <1>1
  <2>3. (r + 1 + rest) * k = r * k + k + rest * k
    <3> HIDE DEF rest
    <3> QED
      BY <1>1
  <2>4. n * k = r * k + k + rest * k
    <3> HIDE DEF rest
    <3> QED
      BY <2>2, <2>3
  <2> DEFINE a == rest * k
             b == r * k
  <2>5. b + i < b + k + a
    <3> HIDE DEF a, b
    <3> QED
      BY <1>1, <2>1 DEF a, b
  <2> QED
    BY <1>1, <2>1, <2>4, <2>5
<1> HIDE DEF place
<1>3. /\ place % k \in 0 .. k - 1 /\ place \div k \in Int
      /\ place = k * (place \div k) + (place % k)
  BY <1>1, <1>2, Divides
<1>4. place \div k = r /\ place % k = i
  <2> DEFINE q == place \div k
             p == place % k
  <2>1. q \in Int /\ p \in 0 .. k - 1 /\ k * q + p = k * r + i /\ r \in Int
    BY <1>1, <1>2, <1>3
  <2> HIDE DEF q, p
  <2>2. q = r /\ p = i
    BY <1>1, <2>1, DividesOnce
  <2> QED
    BY <2>2 DEF q, p
<1> QED
  BY <1>1, <1>2, <1>4 DEF At, place

\* m is the only solution.
SolvedBy(s, m, D, C) ==
  /\ s \in EliminationStates(D, C)
  /\ Times(s.rows, m) = s.vector
  /\ \A v \in SUBSET C : Times(s.rows, v) = {} => v = {}

\* Until column i: in every column before i the only 1 is in the row of the same
\* number.
Eliminated(s, i, m, D, C) ==
  /\ SolvedBy(s, m, D, C)
  /\ \A c \in C, l \in D : c < i => (c \in s.rows[l] <=> l = c)

\* The solution does not change.
LEMMA EliminationSolves ==
  ASSUME NEW D, NEW C, IsFiniteSet(C), NEW m \in SUBSET C, NEW i \in D,
         NEW s, SolvedBy(s, m, D, C), NEW q \in D, NEW hit \in SUBSET (D \ {i})
  PROVE  SolvedBy(EliminationStep(s, i, q, hit), m, D, C)
<1> DEFINE f == s.rows
           b == s.vector
           g == Swap(f, i, q)
           e == SwapEntries(b, i, q)
           t == EliminationStep(s, i, q, hit)
<1>1. /\ s \in EliminationStates(D, C) /\ f \in Matrix(D, C) /\ b \in SUBSET D
      /\ Times(f, m) = b
      /\ \A v \in SUBSET C : Times(f, v) = {} => v = {}
  BY DEF Eliminated, SolvedBy, EliminationStates
<1>2. t.rows = Added(g, i, hit) /\ t.vector = IF i \in e THEN SymDiff(e, hit) ELSE e
  BY DEF EliminationStep
<1>3. t \in EliminationStates(D, C)
  BY <1>1, EliminationStepType
<1> HIDE DEF f, b, t
<1>4. g \in Matrix(D, C) /\ e \in SUBSET D /\ Times(g, m) = e
  BY <1>1, SwapType, SwapSolves
<1>5. \A v \in SUBSET C : Times(g, v) = {} <=> Times(f, v) = {}
  BY <1>1, SwapSolvesSame
<1> HIDE DEF g, e
<1>6. Times(Added(g, i, hit), m) = IF i \in e THEN SymDiff(e, hit) ELSE e
  BY <1>4, AddedSolves
<1>7. \A v \in SUBSET C : Times(Added(g, i, hit), v) = {} <=> Times(g, v) = {}
  BY <1>4, AddedSolvesSame
<1>8. \A v \in SUBSET C : Times(t.rows, v) = {} => v = {}
  BY <1>1, <1>2, <1>5, <1>7
<1> QED
  BY <1>2, <1>3, <1>6, <1>8 DEF SolvedBy, t

\* As m is the only solution, there is a row to exchange for every column.
LEMMA EliminationFinds ==
  ASSUME NEW n \in Nat, NEW k \in 0 .. n, NEW i \in Indices(k), NEW m, NEW s,
         Eliminated(s, i, m, Indices(n), Indices(k))
  PROVE  \E r \in Indices(n) : r >= i /\ i \in s.rows[r]
<1> DEFINE D == Indices(n)
           C == Indices(k)
           A == s.rows
           v == {i} \cup {l \in C : l < i /\ i \in A[l]}
<1>1. /\ DOMAIN A = D /\ \A l \in D : A[l] \in SUBSET C
      /\ \A c \in C, l \in D : c < i => (c \in A[l] <=> l = c)
      /\ \A u \in SUBSET C : Times(A, u) = {} => u = {}
  BY DEF Eliminated, SolvedBy, EliminationStates, Matrix
<1>2. /\ C \in SUBSET D /\ D \in SUBSET Int /\ i \in Int
      /\ \A l \in D : l < i => l \in C
  BY DEF Indices
<1> SUFFICES ASSUME \A r \in D : r >= i => i \notin A[r] PROVE FALSE
  OBVIOUS
<1> HIDE DEF D, C, A
<1>3. v \in SUBSET C /\ v # {}
  BY DEF C
<1>4. ASSUME NEW l \in D PROVE ~Odd(A[l] \cap v)
  <2>1. \A c \in v : c # i => c < i /\ c \in C /\ i \in A[c]
    OBVIOUS
  <2>2. \A c \in v : c # i => (c \in A[l] <=> l = c)
    BY <1>1, <2>1
  <2>3. CASE i \in A[l]
    <3>1. l < i /\ l \in v /\ l # i /\ i \in v
      BY <1>2, <2>3
    <3>2. A[l] \cap v = {i, l}
      <4> HIDE DEF v
      <4> QED
        BY <2>2, <2>3, <3>1
    <3>3. ~Odd({i, l})
      BY <3>1, OddTwo
    <3> QED
      BY <3>2, <3>3
  <2>4. CASE i \notin A[l]
    <3>1. A[l] \cap v = {}
      <4>1. \A c \in v : c # i => i \in A[c]
        BY <2>1
      <4> HIDE DEF v
      <4> QED
        BY <2>2, <2>4, <4>1
    <3> QED
      BY <3>1, OddEmpty
  <2> QED
    BY <2>3, <2>4
<1>5. Times(A, v) = {}
  <2> HIDE DEF v
  <2> QED
    BY <1>1, <1>4 DEF Times
<1> QED
  BY <1>1, <1>3, <1>5

\* A column of the matrix.
LEMMA EliminationInside ==
  ASSUME NEW n \in Nat, NEW k \in 0 .. n, NEW i \in Indices(k), NEW m \in SUBSET Indices(k),
         NEW beyond, NEW s, Eliminated(s, i, m, Indices(n), Indices(k))
  PROVE  Eliminated(EliminateColumn(s, k, beyond, i), i + 1, m, Indices(n), Indices(k))
<1> DEFINE D == Indices(n)
           C == Indices(k)
<1>1. s \in EliminationStates(D, C) /\ s.rows \in Matrix(D, C) /\ DOMAIN s.rows = D
  BY DEF Eliminated, SolvedBy, EliminationStates, Matrix
<1>2. i \in D /\ k \in Nat /\ C \in SUBSET Int /\ D \in SUBSET Int /\ i \in C /\ IsFiniteSet(C)
  BY FS_Interval DEF Indices
<1>3. \A c \in C, l \in D : c < i => (c \in s.rows[l] <=> l = c)
  BY DEF Eliminated, SolvedBy
<1>4. EliminationFound(s, k, beyond, i) = {r \in D : r >= i /\ i \in s.rows[r]}
  BY <1>1, <1>2, AtIs DEF EliminationFound
<1>5. PICK q \in EliminationFound(s, k, beyond, i) :
        EliminateColumn(s, k, beyond, i)
          = EliminationStep(s, i, q, EliminationHit(s, k, beyond, i, q))
  <2>1. EliminationFound(s, k, beyond, i) # {}
    BY <1>4, EliminationFinds
  <2> QED
    BY <1>1, <1>2, <2>1, EliminateColumnIs
<1> DEFINE R == Swap(s.rows, i, q)
           hit == EliminationHit(s, k, beyond, i, q)
           t == EliminationStep(s, i, q, hit)
<1>6. q \in D /\ q >= i /\ i \in s.rows[q]
  BY <1>4, <1>5
<1>7. R \in Matrix(D, C)
  BY <1>1, <1>2, <1>6, SwapType
<1>8. hit = {r \in D \ {i} : i \in R[r]}
  <2>1. EliminationHit(s, k, beyond, i, q) = {r \in D \ {i} : At(R, k, beyond, r, i)}
    BY <1>1 DEF EliminationHit
  <2>2. \A r \in D : At(R, k, beyond, r, i) <=> i \in R[r]
    <3> HIDE DEF R
    <3> QED
      BY <1>2, <1>7, AtIs
  <2> HIDE DEF R
  <2> QED
    BY <2>1, <2>2
<1>9. \A l \in D : R[l] = IF l = i THEN s.rows[q] ELSE IF l = q THEN s.rows[i] ELSE s.rows[l]
  BY <1>1, <1>2, <1>6 DEF Swap
<1>10. \A l \in D : t.rows[l] = IF l \in hit THEN SymDiff(R[l], R[i]) ELSE R[l]
  <2>1. t.rows = Added(R, i, hit)
    BY DEF EliminationStep
  <2> HIDE DEF R, hit, t
  <2> QED
    BY <1>2, <1>7, <2>1, AddedType
<1>11. SolvedBy(t, m, D, C)
  <2>1. hit \in SUBSET (D \ {i})
    BY <1>8
  <2>2. SolvedBy(s, m, D, C) /\ m \in SUBSET C
    BY DEF Eliminated
  <2> HIDE DEF hit, D, C
  <2> QED
    BY <1>2, <1>6, <2>1, <2>2, EliminationSolves
<1> HIDE DEF R, hit, t, D, C
<1>12. ASSUME NEW c \in C, NEW l \in D, c < i + 1 PROVE c \in t.rows[l] <=> l = c
  <2>1. CASE c = i
    BY <1>2, <1>6, <1>8, <1>9, <1>10, <2>1 DEF SymDiff
  <2>2. CASE c < i
    <3>1. i # c /\ q # c
      BY <1>2, <1>6, <2>2
    <3>2. \A h \in D : c \in R[h] <=> h = c
      BY <1>2, <1>3, <1>6, <1>9, <2>2, <3>1
    <3>3. c \notin R[i]
      BY <1>2, <3>1, <3>2
    <3> QED
      BY <1>10, <3>2, <3>3 DEF SymDiff
  <2> QED
    BY <1>2, <1>12, <2>1, <2>2
<1>13. Eliminated(t, i + 1, m, D, C)
  BY <1>11, <1>12 DEF Eliminated, SolvedBy
<1> QED
  BY <1>5, <1>13 DEF t, hit, D, C

\* What is read beyond the last column changes nothing.
LEMMA EliminationBeyond ==
  ASSUME NEW n \in Nat, NEW k \in 0 .. n, NEW i \in Indices(n), i >= k, NEW m \in SUBSET Indices(k),
         NEW beyond, NEW s, Eliminated(s, i, m, Indices(n), Indices(k))
  PROVE  Eliminated(EliminateColumn(s, k, beyond, i), i + 1, m, Indices(n), Indices(k))
<1> DEFINE D == Indices(n)
           C == Indices(k)
           f == s.rows
           b == s.vector
<1>1. s \in EliminationStates(D, C) /\ f \in Matrix(D, C) /\ b \in SUBSET D /\ DOMAIN f = D
  BY DEF Eliminated, SolvedBy, EliminationStates, Matrix
<1>2. /\ C \in SUBSET Int /\ D \in SUBSET Int /\ i \in D /\ i \in Int
      /\ \A c \in C : c < i /\ c < k /\ c < i + 1
  BY DEF Indices
<1>3. \A c \in C, l \in D : c \in f[l] <=> l = c
  BY <1>2 DEF Eliminated, SolvedBy
<1>4. \A l \in D : f[l] \in SUBSET C
  BY <1>1 DEF Matrix
<1>5. Times(f, m) = b
  BY DEF Eliminated, SolvedBy
<1>6. ASSUME NEW l \in D, l >= k PROVE f[l] = {} /\ l \notin b
  <2>1. \A c \in C : c # l
    BY <1>2, <1>6
  <2>2. f[l] = {}
    <3> HIDE DEF f, C, D
    <3> QED
      BY <1>3, <1>4, <2>1
  <2>3. ~Odd(f[l] \cap m)
    <3>1. {} \cap m = {}
      OBVIOUS
    <3> QED
      BY <2>2, <3>1, OddEmpty
  <2> QED
    BY <1>5, <2>2, <2>3 DEF Times
<1>7. s = [rows |-> f, vector |-> b]
  BY <1>1 DEF EliminationStates
<1>8. EliminateColumn(s, k, beyond, i) = s
  <2>1. SUFFICES ASSUME EliminateColumn(s, k, beyond, i) # s PROVE FALSE
    OBVIOUS
  <2>2. PICK q \in EliminationFound(s, k, beyond, i) :
          EliminateColumn(s, k, beyond, i)
            = EliminationStep(s, i, q, EliminationHit(s, k, beyond, i, q))
    BY <1>1, <1>2, <2>1, EliminateColumnIs
  <2> DEFINE hit == EliminationHit(s, k, beyond, i, q)
  <2>3. q \in D /\ q >= i
    BY <1>1, <2>2 DEF EliminationFound
  <2>4. f[i] = {} /\ f[q] = {} /\ i \notin b /\ q \notin b
    <3>1. q >= k
      BY <1>2, <2>3
    <3> HIDE DEF f, b, D
    <3> QED
      BY <1>2, <1>6, <2>3, <3>1
  <2> HIDE DEF f, b, D, C, hit
  <2>5. Swap(f, i, q) = f
    <3>1. Swap(f, i, q) \in Matrix(D, C) /\ \A l \in D : Swap(f, i, q)[l] = f[l]
      BY <1>1, <1>2, <2>3, <2>4 DEF Swap, Matrix
    <3> QED
      BY <1>1, <3>1 DEF Matrix
  <2>6. SwapEntries(b, i, q) = b
    BY <2>4 DEF SwapEntries
  <2>7. Added(f, i, hit) = f
    <3>1. \A l \in D : SymDiff(f[l], f[i]) = f[l]
      BY <2>4 DEF SymDiff
    <3> QED
      BY <1>1, <3>1 DEF Added, Matrix
  <2>8. EliminationStep(s, i, q, hit) = [rows |-> f, vector |-> b]
    BY <2>4, <2>5, <2>6, <2>7 DEF EliminationStep, f, b
  <2> QED
    BY <1>7, <2>1, <2>2, <2>8 DEF hit
<1>9. Eliminated(s, i + 1, m, D, C)
  BY <1>1, <1>2, <1>3 DEF Eliminated, SolvedBy
<1> QED
  BY <1>8, <1>9

\* gaussElimination() ends with the solution in the vector.
LEMMA EliminationEnds ==
  ASSUME NEW n \in Nat, NEW k \in 0 .. n, NEW A \in Matrix(Indices(n), Indices(k)),
         \A v \in SUBSET Indices(k) : Times(A, v) = {} => v = {},
         NEW m \in SUBSET Indices(k), NEW beyond
  PROVE  LET s == GaussElimination(A, k, Times(A, m), beyond)
         IN  \A i \in Indices(k) : s.rows[i] = {i} /\ (i \in s.vector <=> i \in m)
<1> DEFINE D == Indices(n)
           C == Indices(k)
           b == Times(A, m)
           s == EliminateColumns(A, k, b, beyond)
           G == {i \in Nat : i <= n => Eliminated(s[i], i, m, D, C)}
<1>1. b \in SUBSET D
  BY DEF Times, Matrix
<1>2. /\ s[0] = [rows |-> A, vector |-> b]
      /\ \A i \in 0 .. n - 1 : s[i + 1] = EliminateColumn(s[i], k, beyond, i)
      /\ GaussElimination(A, k, b, beyond) = s[n]
  BY <1>1, EliminateColumnsAre
<1> HIDE DEF s
<1>3. 0 \in G
  <2>1. \A c \in C : ~(c < 0)
    BY DEF Indices
  <2>2. s[0] \in EliminationStates(D, C)
    BY <1>1, <1>2 DEF EliminationStates
  <2> QED
    BY <1>2, <2>1, <2>2 DEF Eliminated, SolvedBy
<1>4. ASSUME NEW i \in Nat, i \in G PROVE i + 1 \in G
  <2> SUFFICES ASSUME i + 1 <= n PROVE Eliminated(s[i + 1], i + 1, m, D, C)
    OBVIOUS
  <2>1. i \in 0 .. n - 1 /\ i \in D /\ Eliminated(s[i], i, m, D, C) /\ s[i + 1] = EliminateColumn(s[i], k, beyond, i)
    BY <1>2, <1>4 DEF Indices
  <2>2. CASE i < k
    <3>1. i \in C
      BY <2>2 DEF Indices
    <3> QED
      BY <2>1, <3>1, EliminationInside
  <2>3. CASE i >= k
    BY <2>1, <2>3, EliminationBeyond
  <2> QED
    BY <2>2, <2>3
<1>5. Eliminated(s[n], n, m, D, C)
  <2> HIDE DEF G
  <2>1. Nat \subseteq G
    BY <1>3, <1>4, NatSetInduction
  <2> QED
    BY <2>1 DEF G
<1>6. ASSUME NEW i \in C PROVE s[n].rows[i] = {i} /\ (i \in s[n].vector <=> i \in m)
  <2>1. i \in D /\ \A c \in C : c < n
    BY DEF Indices
  <2>2. DOMAIN s[n].rows = D /\ s[n].rows[i] \in SUBSET C
    BY <1>5, <2>1 DEF Eliminated, SolvedBy, EliminationStates, Matrix
  <2>3. \A c \in C : c \in s[n].rows[i] <=> i = c
    BY <1>5, <2>1 DEF Eliminated, SolvedBy
  <2>4. s[n].rows[i] = {i}
    BY <2>2, <2>3
  <2>5. i \in s[n].vector <=> Odd({i} \cap m)
    BY <1>5, <2>1, <2>2, <2>4 DEF Eliminated, SolvedBy, Times
  <2>6. {i} \cap m = IF i \in m THEN {i} ELSE {}
    OBVIOUS
  <2>7. Odd({i}) /\ ~Odd({})
    BY OddOne, OddEmpty
  <2> QED
    BY <2>4, <2>5, <2>6, <2>7
<1> QED
  BY <1>2, <1>6

LEMMA SubstitutedIs ==
  ASSUME NEW solved, NEW m \in SUBSET FirstHalf,
         \A i \in FirstHalf : solved.rows[i] = {i} /\ (i \in solved.vector <=> i \in m)
  PROVE  Substituted(solved)[0] = m
<1> DEFINE L == MessageLen
           From(i) == {c \in m : c >= i}
           Is(h) == h = [i \in 0 .. L |->
                           IF i = L THEN {}
                           ELSE IF Odd(h[i + 1] \cap solved.rows[i]) <=> i \in solved.vector
                             THEN h[i + 1] ELSE h[i + 1] \cup {i}]
           f == [i \in 0 .. L |-> From(i)]
           g == CHOOSE h : Is(h)
<1>1. L \in Nat /\ m \in SUBSET (0 .. L - 1) /\ FirstHalf = 0 .. L - 1
  BY Sizes DEF Indices
<1> HIDE DEF L
<1>2. From(L) = {} /\ From(0) = m
  <2>1. \A c \in m : c >= 0 /\ ~(c >= L)
    BY <1>1
  <2> QED
    BY <2>1
<1>3. ASSUME NEW i \in 0 .. L - 1
      PROVE  From(i) = IF Odd(From(i + 1) \cap solved.rows[i]) <=> i \in solved.vector
                         THEN From(i + 1) ELSE From(i + 1) \cup {i}
  <2>1. From(i + 1) \cap solved.rows[i] = {}
    <3>1. solved.rows[i] = {i} /\ i \in Int /\ i + 1 > i
      BY <1>1
    <3>2. i \notin From(i + 1)
      BY <3>1
    <3> HIDE DEF From
    <3> QED
      BY <3>1, <3>2
  <2>2. From(i) = IF i \in m THEN From(i + 1) \cup {i} ELSE From(i + 1)
    <3>1. \A c \in m : c >= i <=> c >= i + 1 \/ c = i
      BY <1>1
    <3>2. \A c : c \in From(i) <=> c \in m /\ c >= i
      OBVIOUS
    <3>3. \A c : c \in From(i + 1) <=> c \in m /\ c >= i + 1
      OBVIOUS
    <3>4. i >= i
      OBVIOUS
    <3> HIDE DEF From
    <3> QED
      BY <3>1, <3>2, <3>3, <3>4
  <2>3. i \in solved.vector <=> i \in m
    BY <1>1
  <2> HIDE DEF From
  <2> QED
    BY <2>1, <2>2, <2>3, OddEmpty
<1>4. Is(f)
  <2>1. \A i \in 0 .. L : f[i] = From(i)
    OBVIOUS
  <2>2. \A i \in 0 .. L : i = L \/ (i \in 0 .. L - 1 /\ i + 1 \in 0 .. L)
    BY <1>1
  <2>3. ASSUME NEW i \in 0 .. L
        PROVE  f[i] = IF i = L THEN {}
                      ELSE IF Odd(f[i + 1] \cap solved.rows[i]) <=> i \in solved.vector
                        THEN f[i + 1] ELSE f[i + 1] \cup {i}
    <3>1. CASE i = L
      BY <1>2, <2>1, <3>1
    <3>2. CASE i # L
      <4>1. i \in 0 .. L - 1 /\ i + 1 \in 0 .. L
        BY <2>2, <3>2
      <4>2. f[i] = From(i) /\ f[i + 1] = From(i + 1)
        BY <2>1, <4>1
      <4> HIDE DEF f, From
      <4> QED
        BY <1>3, <3>2, <4>1, <4>2
    <3> QED
      BY <3>1, <3>2
  <2>4. f = [i \in 0 .. L |-> f[i]]
    OBVIOUS
  <2> HIDE DEF f, From
  <2> QED
    BY <2>3, <2>4
<1>5. Is(g)
  <2> HIDE DEF f, Is
  <2> QED
    BY <1>4
<1>6. Substituted(solved) = g
  BY DEF Substituted, L
<1> HIDE DEF g, f
<1>7. \A i \in 0 .. L : g[i] = IF i = L THEN {}
                               ELSE IF Odd(g[i + 1] \cap solved.rows[i]) <=> i \in solved.vector
                                 THEN g[i + 1] ELSE g[i + 1] \cup {i}
  BY <1>5
<1> HIDE DEF Is, From
<1> DEFINE G == {d \in Nat : d <= L => g[L - d] = From(L - d)}
<1>8. 0 \in G
  <2>1. L \in 0 .. L /\ L - 0 = L
    BY <1>1
  <2> QED
    BY <1>2, <1>7, <2>1
<1>9. ASSUME NEW d \in Nat, d \in G PROVE d + 1 \in G
  <2> SUFFICES ASSUME d + 1 <= L PROVE g[L - (d + 1)] = From(L - (d + 1))
    OBVIOUS
  <2> DEFINE i == L - (d + 1)
  <2>1. i \in 0 .. L - 1 /\ i \in 0 .. L /\ i # L /\ i + 1 = L - d /\ d <= L
    BY <1>1
  <2>2. g[i + 1] = From(i + 1)
    BY <1>9, <2>1
  <2> HIDE DEF i
  <2>3. g[i] = From(i)
    BY <1>3, <1>7, <2>1, <2>2
  <2> QED
    BY <2>3 DEF i
<1>10. g[0] = From(0)
  <2> HIDE DEF G
  <2>1. L \in G
    BY <1>1, <1>8, <1>9, NatSetInduction
  <2>2. L - L = 0 /\ L <= L
    BY <1>1
  <2> QED
    BY <2>1, <2>2 DEF G
<1> QED
  BY <1>2, <1>6, <1>10

\* A message is made of its code word again, whatever lies beyond the matrix.
LEMMA MessageOfItsWord ==
  ASSUME NEW H, Generates(coding, H), NEW m \in SUBSET FirstHalf, NEW beyond
  PROVE  MessageOf(Times(coding, m), beyond) = m
<1> DEFINE N == CodeLen
           L == MessageLen
           s == GaussElimination(coding, L, Times(coding, m), beyond)
<1>1. N \in Nat /\ L \in 0 .. N /\ Bits = Indices(N) /\ FirstHalf = Indices(L)
  BY Sizes
<1>2. /\ coding \in Matrix(Indices(N), Indices(L))
      /\ \A v \in SUBSET Indices(L) : Times(coding, v) = {} => v = {}
  BY <1>1 DEF Generates
<1>3. \A i \in FirstHalf : s.rows[i] = {i} /\ (i \in s.vector <=> i \in m)
  <2> HIDE DEF N, L
  <2>1. m \in SUBSET Indices(L)
    BY <1>1
  <2> QED
    BY <1>1, <1>2, <2>1, EliminationEnds
<1>4. MessageOf(Times(coding, m), beyond) = Substituted(s)[0]
  BY DEF MessageOf
<1> HIDE DEF s
<1> QED
  BY <1>3, <1>4, SubstitutedIs

-----------------------------------------------------------------------------
(* The two programs. *)

CoderInv ==
  /\ Sized(check)
  /\ message \in SUBSET FirstHalf
  /\ word \in SUBSET Bits
  /\ stage \notin {"encoding", "thrown"} =>
       Generates(coding, check) /\ codeword = Times(coding, message)
  /\ stage = "printed" =>
       \A m \in SUBSET FirstHalf : word = Times(coding, m) => decoded = m

LEMMA CoderInvInit == LdpcInit => CoderInv
<1> SUFFICES ASSUME NEW matrix \in ParityCheckMatrices, NEW bits \in SUBSET Indices(MessageLen),
                    LdpcStart(matrix, bits)
             PROVE  CoderInv
  BY DEF LdpcInit
<1>1. matrix \in Matrix(Indices(CodeLen - 2), Bits)
  <2>1. matrix \in [Indices(CodeLen - 2) -> kSubset(MessageLen, Bits)]
    BY DEF ParityCheckMatrices
  <2>2. kSubset(MessageLen, Bits) \in SUBSET SUBSET Bits
    BY DEF kSubset
  <2> QED
    BY <2>1, <2>2 DEF Matrix
<1> QED
  BY <1>1 DEF CoderInv, LdpcStart, Sized, FirstHalf

LEMMA CoderInvStep == CoderInv /\ [LdpcNext]_ldpcVars => CoderInv'
<1> SUFFICES ASSUME CoderInv, [LdpcNext]_ldpcVars PROVE CoderInv'
  OBVIOUS
<1>1. CASE UNCHANGED ldpcVars
  BY <1>1 DEF CoderInv, Sized, Generates, ldpcVars
<1>2. CASE Encode
  <2>1. UNCHANGED <<check, message, word>> /\ coding' = CodingMatrix
    BY <1>2 DEF Encode
  <2>2. CASE MessageBits = MessageLen
    <3>1. Generates(CodingMatrix, check)
      BY <2>2, CodingMatrixGenerates DEF CoderInv
    <3>2. stage' = "sent" /\ codeword' = Times(coding', message)
      BY <1>2, <2>2 DEF Encode
    <3>3. Generates(coding', check')
      BY <2>1, <3>1
    <3> QED
      BY <2>1, <3>2, <3>3 DEF CoderInv, Sized
  <2>3. CASE MessageBits # MessageLen
    <3>1. stage' = "thrown"
      BY <1>2, <2>3 DEF Encode
    <3> QED
      BY <2>1, <3>1 DEF CoderInv, Sized
  <2> QED
    BY <2>2, <2>3
<1>3. CASE RefuseSize \/ Accept
  <2>1. /\ stage = "sent" /\ stage' \in {"refused", "decoding"}
        /\ UNCHANGED <<check, message, coding, codeword, word>>
    BY <1>3 DEF RefuseSize, Accept
  <2>2. Generates(coding', check')
    BY <2>1 DEF CoderInv
  <2> QED
    BY <2>1, <2>2 DEF CoderInv, Sized
<1>4. ASSUME NEW x \in SUBSET Bits, Iterate(x) PROVE CoderInv'
  <2>1. /\ stage = "decoding" /\ stage' \in {"stopped", "decoding"} /\ word' = x
        /\ UNCHANGED <<check, message, coding, codeword>>
    BY <1>4 DEF Iterate
  <2>2. Generates(coding', check')
    BY <2>1 DEF CoderInv
  <2> QED
    BY <2>1, <2>2 DEF CoderInv, Sized
<1>5. ASSUME NEW beyond, PrintMessage(beyond) PROVE CoderInv'
  <2>1. /\ stage = "stopped" /\ stage' = "printed" /\ decoded' = MessageOf(word, beyond)
        /\ UNCHANGED <<check, message, coding, codeword, word>>
    BY <1>5 DEF PrintMessage
  <2>2. Generates(coding, check) /\ Generates(coding', check')
    BY <2>1 DEF CoderInv
  <2>3. \A m \in SUBSET FirstHalf : word = Times(coding, m) => decoded' = m
    BY <2>1, <2>2, MessageOfItsWord
  <2> QED
    BY <2>1, <2>2, <2>3 DEF CoderInv, Sized
<1> QED
  BY <1>1, <1>2, <1>3, <1>4, <1>5 DEF LdpcNext

\* Whatever the parity check matrix and the message, and whatever word the
\* decoder stops with: what runEncode() sends passes every check, and what
\* runDecode() prints for a code word is the message of which it is the code
\* word, also when gaussElimination() reads beyond the coding matrix.
THEOREM LdpcCodeWordsDecoded == LdpcSpec => []CodeWordsDecoded
<1>1. CoderInv => CodeWordsDecoded
  <2> SUFFICES ASSUME CoderInv PROVE CodeWordsDecoded
    OBVIOUS
  <2>1. ASSUME stage = "sent" PROVE IsCodeWord(codeword)
    BY <2>1 DEF CoderInv, Generates, IsCodeWord
  <2>2. ASSUME stage = "printed", IsCodeWord(word)
        PROVE  Times(coding, decoded) = word /\ (word = codeword => decoded = message)
    <3>1. /\ word \in SUBSET Bits /\ Times(check, word) = {} /\ Generates(coding, check)
          /\ codeword = Times(coding, message) /\ message \in SUBSET FirstHalf
          /\ \A m \in SUBSET FirstHalf : word = Times(coding, m) => decoded = m
      BY <2>2 DEF CoderInv, IsCodeWord
    <3>2. PICK m \in SUBSET FirstHalf : word = Times(coding, m)
      BY <3>1 DEF Generates
    <3> QED
      BY <3>1, <3>2
  <2> QED
    BY <2>1, <2>2 DEF CodeWordsDecoded
<1> QED
  BY <1>1, CoderInvInit, CoderInvStep, PTL DEF LdpcSpec
=============================================================================

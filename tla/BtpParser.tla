------------------------------ MODULE BtpParser ------------------------------
(***************************************************************************)
(* btp_parser.py: one direction of a connection, cut into segments at      *)
(* arbitrary places, is framed into the handshake and the length-prefixed  *)
(* messages of the BitTorrent peer protocol, and the messages update the   *)
(* monitor's record of the torrent and of the peer.                        *)
(*                                                                         *)
(* A stream is a record [ok, items]: whether its first HandshakeLen bytes  *)
(* name the protocol, and the length-prefixed items after them.  Byte j of *)
(* item i (counted from 0, the prefix first) is <<i, j>>; the handshake is *)
(* item 0.  An item has                                                    *)
(*   kind, len   what the message is, and its length, which is 0 for a     *)
(*               keep-alive only                                           *)
(*   arg         bytes of a bitfield, or where a block that is asked for   *)
(*               ends                                                      *)
(*   number      the extension a message is for, or what an extended       *)
(*   name        handshake assigns to a name                               *)
(***************************************************************************)
EXTENDS Integers, Sequences, FiniteSets, FiniteSetsExt, Functions

CONSTANTS
  HandshakeLen,   \* 68
  PrefixLen,      \* 4
  MaxSegment,     \* longest segment (bound)
  Streams,        \* the streams that may be captured (bound)
  MaxNumber,      \* greatest number of an extension: 255
  ExtNames,       \* extension names
  NoName

ASSUME ScaleAssumption ==
  /\ HandshakeLen \in Nat \ {0} /\ PrefixLen \in Nat \ {0}
  /\ MaxSegment \in Nat /\ MaxNumber \in Nat
  /\ NoName \notin ExtNames

Kinds ==
  {"keepalive", "plain", "bitfield", "request", "piece", "cancel", "exthandshake", "extended"}

Items ==
  [kind : Kinds, len : Nat, arg : Nat, number : 0 .. MaxNumber, name : ExtNames \cup {NoName}]

\* An extended handshake names an extension, and an extended message has the
\* number of one: the number 0 is what makes it a handshake.
ASSUME StreamsAssumption ==
  \A s \in Streams :
    /\ s.ok \in BOOLEAN
    /\ s.items \in Seq(Items)
    /\ \A i \in DOMAIN s.items :
         LET m == s.items[i]
         IN  /\ m.len = 0 => m.kind = "keepalive"
             /\ m.kind = "exthandshake" => m.name \in ExtNames
             /\ m.kind = "extended" => m.number # 0

VARIABLES
  stream,   \* the stream being captured
  taken,    \* number of its bytes that segments have delivered
  parser,   \* BitTorrentParser
  report    \* the TorrentInfo of its infohash and the Peer of its contact

vars == <<stream, taken, parser, report>>

\* The number of bytes up to the end of the item i.
ItemEnd(s, i) ==
  LET size == [j \in 1 .. i |-> PrefixLen + s.items[j].len]
  IN  HandshakeLen + MapThenSumSet(LAMBDA j : size[j], 1 .. i)

Bytes(s) ==
  [at \in 1 .. ItemEnd(s, Len(s.items)) |->
     IF at \leq HandshakeLen THEN <<0, at - 1>>
     ELSE LET i == CHOOSE i \in 1 .. Len(s.items) :
                     ItemEnd(s, i - 1) < at /\ at \leq ItemEnd(s, i)
          IN  <<i, at - ItemEnd(s, i - 1) - 1>>]

Init ==
  /\ stream \in Streams
  /\ taken = 0
  /\ parser = [buf |-> << >>, nextLen |-> HandshakeLen, readingLen |-> FALSE,
               hadHandshake |-> FALSE, wrong |-> FALSE,
               assoc |-> [n \in 1 .. MaxNumber |-> NoName], handled |-> << >>]
  /\ report = [pieces |-> -1, maxPieceLen |-> -1, sentPieces |-> 0]
-----------------------------------------------------------------------------
PowerOfTwo[k \in Nat] == IF k = 0 THEN 1 ELSE 2 * PowerOfTwo[k - 1]

\* int.bit_length() of a number that is not negative.
BitLength(n) ==
  CHOOSE k \in 0 .. n : n < PowerOfTwo[k] /\ (k = 0 \/ PowerOfTwo[k - 1] \leq n)

RoundedUp(n) == IF n = 0 THEN 1 ELSE PowerOfTwo[BitLength(n - 1)]

SetNumberOfPieces(r, bits) ==
  IF bits > r.pieces THEN [r EXCEPT !.pieces = bits] ELSE r

\* Slip: the exact end of the block is kept, not the power of two above it.
PieceInfoExact(r, reach) ==
  IF reach > r.maxPieceLen THEN [r EXCEPT !.maxPieceLen = reach] ELSE r

PieceInfo(r, reach) ==
  IF reach > r.maxPieceLen
    THEN [r EXCEPT !.maxPieceLen = RoundedUp(reach)] ELSE r

\* new_message and new_extended_message: what a parsed message tells the
\* monitor.  ut_pex reaches extract_compact_peers with its arguments
\* exchanged; the TypeError is logged by process_message and no peer is
\* recorded.  Other extensions tell nothing.
NewMessage(r, m) ==
  CASE m.kind = "piece" -> [r EXCEPT !.sentPieces = @ + 1]
    [] m.kind = "bitfield" -> SetNumberOfPieces(r, 8 * m.arg)
    [] m.kind \in {"request", "cancel"} -> PieceInfo(r, m.arg)
    [] OTHER -> r

\* Slip: the table is rebuilt by every extended handshake.
AssociateOnly(assoc, m) ==
  [n \in DOMAIN assoc |-> IF m.number = n THEN m.name ELSE NoName]

\* parser_message_extended on an extended handshake: one name is given a
\* number, or disabled by the number 0.
Associate(assoc, m) ==
  [n \in DOMAIN assoc |->
     IF m.number = 0 THEN (IF assoc[n] = m.name THEN NoName ELSE assoc[n])
                     ELSE (IF n = m.number THEN m.name ELSE assoc[n])]

\* Slip: the prefix is taken to count itself.
UnpackLengthInclusive(bytes) ==
  IF bytes[1][2] = 0 /\ bytes[1][1] > 0
    THEN Max({stream.items[bytes[1][1]].len - PrefixLen, 0}) ELSE 1

\* The prefix of an item holds its length; read out of step it is some number.
UnpackLength(bytes) ==
  IF bytes[1][2] = 0 /\ bytes[1][1] > 0 THEN stream.items[bytes[1][1]].len ELSE 1

Got(p, n) == [p EXCEPT !.buf = SubSeq(@, n + 1, Len(@))]

\* The extension a message is given to, by the table of its own direction.
Extension(p, m) == IF m.kind = "extended" THEN p.assoc[m.number] ELSE NoName

\* process_message: an empty message is a keep-alive; one whose handler
\* raises is logged and skipped; else its first byte names the handler.
ProcessMessage(p, r) ==
  LET at == p.buf[1]
      m  == stream.items[at[1]]
      rest(name) == [Got(p, p.nextLen) EXCEPT !.handled = Append(@, <<at[1], name>>)]
  IN  IF p.nextLen = 0 THEN <<p, r>>
      ELSE IF at[1] = 0 \/ at[2] # PrefixLen THEN <<rest(NoName), r>>
      ELSE IF m.kind = "exthandshake"
        THEN <<[rest(NoName) EXCEPT !.assoc = Associate(@, m)], r>>
        ELSE <<rest(Extension(p, m)), NewMessage(r, m)>>

\* process_handshake: the parser goes on with what the segment still holds
\* even when the protocol name is not the expected one.
ProcessHandshake(p, r) ==
  <<[Got(p, HandshakeLen) EXCEPT !.wrong = ~stream.ok, !.hadHandshake = TRUE], r>>

ExpectLength(pr) ==
  <<[pr[1] EXCEPT !.readingLen = TRUE, !.nextLen = PrefixLen], pr[2]>>

\* One pass of the loop of process_segment, with the loop's condition.
Round(pr) ==
  LET p == pr[1]
  IN  IF Len(p.buf) < p.nextLen THEN pr
      ELSE IF p.readingLen
        THEN <<[Got(p, PrefixLen) EXCEPT !.readingLen = FALSE,
                  !.nextLen = UnpackLength(SubSeq(p.buf, 1, PrefixLen))], pr[2]>>
      ELSE ExpectLength(IF p.hadHandshake THEN ProcessMessage(p, pr[2])
                                          ELSE ProcessHandshake(p, pr[2]))

\* The loop.  Of two passes one takes a byte at least, so it has ended after
\* as many as are counted here.
Consume(pr) ==
  LET after[k \in Nat] == IF k = 0 THEN pr ELSE Round(after[k - 1])
  IN  after[2 * Len(pr[1].buf) + 1]

ProcessSegment(payload) ==
  LET done == Consume(<<[parser EXCEPT !.buf = @ \o payload], report>>)
  IN  IF parser.wrong THEN UNCHANGED <<parser, report>>
      ELSE parser' = done[1] /\ report' = done[2]

Segment(n) ==
  /\ taken + n \leq Len(Bytes(stream))
  /\ ProcessSegment(SubSeq(Bytes(stream), taken + 1, taken + n))
  /\ taken' = taken + n
  /\ UNCHANGED stream

Next == \E n \in 1 .. MaxSegment : Segment(n)

Spec == Init /\ [][Next]_vars
-----------------------------------------------------------------------------
(* The reference: what a prefix of the stream says, read off its structure *)
(* without regard to segments.                                             *)

Complete == {i \in 1 .. Len(stream.items) : ItemEnd(stream, i) \leq taken}

OfKind(kinds) == {i \in Complete : stream.items[i].kind \in kinds}

\* However the stream is cut, exactly the messages that have arrived complete
\* have been handled, once each and in order; keep-alives are not messages.
Framed ==
  stream.ok =>
    /\ {h[1] : h \in Range(parser.handled)} = {i \in Complete : stream.items[i].len > 0}
    /\ \A k, l \in DOMAIN parser.handled : k < l => parser.handled[k][1] < parser.handled[l][1]

MaxOr(S, default) == IF S = {} THEN default ELSE Max(S)

\* The report is the one the complete messages give when read all at once:
\* the number of blocks, the longest bitfield, and the smallest power of two
\* that holds every block asked for.
ReportMatches ==
  stream.ok =>
    /\ report.sentPieces = Cardinality(OfKind({"piece"}))
    /\ report.pieces = MaxOr({8 * stream.items[i].arg : i \in OfKind({"bitfield"})}, -1)
    /\ LET reach == MaxOr({stream.items[i].arg : i \in OfKind({"request", "cancel"})}, -1)
       IN  IF reach = -1 THEN report.maxPieceLen = -1
           ELSE /\ report.maxPieceLen \geq reach
                /\ report.maxPieceLen \in {PowerOfTwo[k] : k \in 0 .. reach}
                /\ report.maxPieceLen \div 2 < Max({reach, 1})

\* In the items before i, the number n was last given to the extension x, and
\* x has not been disabled since.
Names(n, x, i) ==
  LET earlier == {j \in OfKind({"exthandshake"}) : j < i}
  IN  \E j \in earlier :
        /\ stream.items[j].number = n /\ stream.items[j].name = x
        /\ \A k \in earlier : k > j =>
             /\ stream.items[k].number # n
             /\ ~(stream.items[k].number = 0 /\ stream.items[k].name = x)

\* An extended message goes to the extension its number stood for where it
\* was sent; handshakes that do not mention the number leave it alone.
RightExtension ==
  stream.ok =>
    \A h \in Range(parser.handled) : stream.items[h[1]].kind = "extended" =>
      \A x \in ExtNames : h[2] = x <=> Names(stream.items[h[1]].number, x, h[1])
=============================================================================

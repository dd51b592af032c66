----------------------------- MODULE UtpSession -----------------------------
(***************************************************************************)
(* The uTP tracer on the traffic of peers that follow the protocol, taken  *)
(* at a point where packets are missed, repeated and reordered.            *)
(*                                                                         *)
(* The peers are not part of the repository; what they send is described   *)
(* as far as the tracer reads it.  Each end first opens (SYN, and STATE in *)
(* answer), then sends NumPackets data packets and a FIN, and may repeat   *)
(* any of them, or acknowledge, at any time.                               *)
(***************************************************************************)
EXTENDS UtpTracer

CONSTANTS
  Sessions,      \* records <initiator ini, accepter acc, connid, isn>
  NumPackets,    \* data packets each end of a session sends (bound)
  ConnIdModulo   \* connection ids are taken modulo this: 2^16

VARIABLE sent    \* sent[s][d]: steps of its script the end d has made

sessionVars == <<flows, open, streams, crashed, sent>>

Done == NumPackets + 2

Key(s) == <<s.ini, s.acc, s.connid>>

From(s, d) ==
  IF d = 0 THEN [src |-> s.ini, dst |-> s.acc] ELSE [src |-> s.acc, dst |-> s.ini]

SendId(s, d) == IF d = 0 THEN (s.connid + 1) % ConnIdModulo ELSE s.connid

\* The initiator's SYN uses up a number, the accepter's STATE does not.
DataSeq(s, d, k) == SerialAdd(s.isn[d], IF d = 0 THEN k ELSE k - 1)

Pkt(s, d, type, connid, seq, data) ==
  [type |-> type, src |-> From(s, d).src, dst |-> From(s, d).dst,
   connid |-> connid, seq |-> seq, data |-> data]

\* Everything the end d has sent by the time it has made n steps: the opening
\* packet, data, the FIN, and STATEs, numbered like the data to come next.
Outgoing(s, d, n) ==
  (IF n = 0 THEN {} ELSE
     {IF d = 0 THEN Pkt(s, 0, "SYN", s.connid, s.isn[0], 0)
               ELSE Pkt(s, 1, "STATE", s.connid, s.isn[1], 0)})
  \cup {Pkt(s, d, "DATA", SendId(s, d), DataSeq(s, d, k), k) :
          k \in {i \in 1 .. NumPackets : i < n}}
  \cup {Pkt(s, d, "STATE", SendId(s, d), DataSeq(s, d, k), 0) :
          k \in {i \in 2 .. NumPackets + 1 : i \leq n}}
  \cup (IF n < Done THEN {} ELSE
     {Pkt(s, d, "FIN", SendId(s, d), DataSeq(s, d, NumPackets + 1), 0)})

\* The ends of a session and its ids are those of the capture.
ASSUME SessionAssumption ==
  /\ NumPackets \in Nat /\ ConnIdModulo \in Nat \ {0}
  /\ \A s \in Sessions :
       /\ s.ini \in Ends /\ s.acc \in Ends /\ s.ini # s.acc
       /\ s.connid \in ConnIds /\ s.connid < ConnIdModulo
       /\ s.isn \in [Dirs -> Serial]
       /\ \A d \in Dirs : Outgoing(s, d, Done) \subseteq Packets

SessionInit == Init /\ sent = [s \in Sessions |-> [d \in Dirs |-> 0]]

\* An end answers only what it has been sent: the accepter opens after the
\* SYN and goes on after the initiator's first packet, the initiator goes on
\* after the answer.
Send(s, d) ==
  /\ sent[s][d] < Done
  /\ d = 0 => sent[s][0] = 0 \/ sent[s][1] > 0
  /\ d = 1 => sent[s][0] > sent[s][1] \/ sent[s][0] > 1
  /\ sent' = [sent EXCEPT ![s][d] = @ + 1]
  /\ UNCHANGED vars

Capture(p) == Trace(p) /\ UNCHANGED sent

SessionNext ==
  \E s \in Sessions : \E d \in Dirs :
    \/ Send(s, d)
    \/ \E p \in Outgoing(s, d, sent[s][d]) : Capture(p)

SessionSpec == SessionInit /\ [][SessionNext]_sessionVars

\* Data of direction d waits in the session's flow.
Gap(s, d) == \E e \in flows[Key(s)].pending : e.dir = d

\* What is missing before it, among the packets that are on their way.
Missing(s, d) ==
  {p \in Outgoing(s, d, sent[s][d]) : p.type = "DATA" /\ p.seq = flows[Key(s)].fseq[d]}

FillGap(s, d) == Gap(s, d) /\ \E p \in Missing(s, d) : Capture(p)

\* A packet that a flow waits for was overtaken, and not lost for good: it comes
\* at last.  Nothing else need ever be captured.
SessionFairSpec ==
  SessionSpec /\ \A s \in Sessions, d \in Dirs : WF_sessionVars(FillGap(s, d))
-----------------------------------------------------------------------------
\* The parsers read the peers' packets gap-free and in order through opening,
\* lost answers, simultaneous opens, closing and restarts: the initiator's
\* stream from its first packet, the accepter's from some packet on.
StreamsContiguous ==
  \A t \in Tups : \A d \in Dirs :
    /\ \A i \in 1 .. Len(streams[t][d]) - 1 :
         streams[t][d][i + 1] = streams[t][d][i] + 1
    /\ d = 0 /\ streams[t][0] # << >> => streams[t][0][1] = 1

\* A packet is taken for a packet of its own session or of none, although the
\* two ends of a session use different ids and the look-up tries both.
FoundByOwnFlow ==
  \A s \in Sessions : \A d \in Dirs : \A p \in Outgoing(s, d, sent[s][d]) :
    Known(p) => Found(p) = Key(s) /\ Dir(p) = d

\* What a flow waits for can come: where data waits, a data packet that the peer
\* has sent has the expected number, wherever the tracer began to count, and
\* whatever was lost, repeated or handed over since.  A number that no data
\* carries would keep the flow and its parser pair for good.
GapsFillable ==
  \A s \in Sessions : \A d \in Dirs : Gap(s, d) => Missing(s, d) # {}

\* A connection that both ends have closed while gaps were left, in either
\* direction and however many, releases its parser pair once what is missing has
\* come (CS_PENDING_CLOSE).
GapsEndInClose ==
  \A s \in Sessions :
    flows[Key(s)].state = "PENDING_CLOSE" ~> Tup(Key(s)) \notin open

\* The datagrams of the file are traced to the last one.
KeepsTracing == ~crashed
=============================================================================

------------------------------ MODULE UtpTracer ------------------------------
(***************************************************************************)
(* utp_tracer.py: the table of uTP flows, the connection state machine and *)
(* its callbacks into the monitor (main_tracer.py, on_new_flow,            *)
(* on_new_segment, on_close_flow), for packets taken from a capture.       *)
(*                                                                         *)
(* A flow is found under <<initiator, accepter, connid of its SYN>>; the   *)
(* parser pair of a flow is found under its endpoints only.  An absent     *)
(* flow is one in state INIT, as in the code.                              *)
(***************************************************************************)
EXTENDS UtpSegments

CONSTANTS
  Ends,      \* contacts <ip, port>
  ConnIds,   \* connection ids that SYNs carry (bound)
  Packets    \* packets the capture may hold (bound)

Types == {"DATA", "FIN", "STATE", "RESET", "SYN"}

Tups == {t \in Ends \X Ends : t[1] # t[2]}
Keys == {<<t[1], t[2], c>> : t \in Tups, c \in ConnIds}

Payloads == {p.data : p \in Packets}

\* A packet travels between two contacts; connid is 16 bits wide, so that a
\* SYN's connid is in ConnIds and the others' may be one more.
ASSUME PacketAssumption ==
  /\ ConnIds \subseteq Nat
  /\ \A p \in Packets :
       /\ p.type \in Types /\ p.src \in Ends /\ p.dst \in Ends /\ p.src # p.dst
       /\ p.connid \in Nat /\ p.seq \in Serial
       /\ p.type = "SYN" => p.connid \in ConnIds

VARIABLES
  flows,     \* UtpTracer.flows: Keys -> flow
  open,      \* keys of Monitor.btp_parsers
  streams,   \* what the parser pair last created for a tup has been handed
  crashed    \* a KeyError has ended the program

vars == <<flows, open, streams, crashed>>

NoFlow == [state |-> "INIT", fseq |-> [d \in Dirs |-> 0], pending |-> {}]

Closing == {"INITIATOR_SENT_FIN", "ACCEPTER_SENT_FIN", "INITIATOR_FIN_ACKED",
            "ACCEPTER_FIN_ACKED", "BOTH_SENT_FIN",
            "BOTH_SENT_FIN_INITIATOR_ACKED", "BOTH_SENT_FIN_ACCEPTER_ACKED"}

States == Closing \cup {"INIT", "HANDSHAKE", "SYN_ACKED", "CONNECTED", "PENDING_CLOSE"}

Tup(key) == <<key[1], key[2]>>

\* Slip: the initiator's packets all carry the id of its SYN.
SentByInitiatorSameId(p) == <<p.src, p.dst, p.connid>>

\* UtpTracer.trace: the initiator's packets after the SYN carry connid + 1,
\* and the code subtracts without wrapping; the accepter's carry connid.
SentByInitiator(p) ==
  <<p.src, p.dst, IF p.type = "SYN" THEN p.connid ELSE p.connid - 1>>
SentByAccepter(p) == <<p.dst, p.src, p.connid>>

Present(key) == key \in Keys /\ flows[key].state # "INIT"

Known(p) == Present(SentByInitiator(p)) \/ Present(SentByAccepter(p))

Found(p) ==
  IF Present(SentByInitiator(p)) THEN SentByInitiator(p) ELSE SentByAccepter(p)

\* The packet belongs to a flow in one of the given states.
In(p, states) == Known(p) /\ flows[Found(p)].state \in states

\* 0 when the sender of p is the initiator of the flow, 1 when the accepter.
Dir(p) == IF p.src = Found(p)[1] THEN 0 ELSE 1

Init ==
  /\ flows = [k \in Keys |-> NoFlow]
  /\ open = {}
  /\ streams = [t \in Tups |-> [d \in Dirs |-> << >>]]
  /\ crashed = FALSE
-----------------------------------------------------------------------------
(* Callbacks. *)

\* Slip: the number of the SYN itself is expected once more.
NewFlowAtSyn(p) ==
  [state |-> "HANDSHAKE", fseq |-> [d \in Dirs |-> IF d = 0 THEN p.seq ELSE 0], pending |-> {}]

NewFlow(p) ==
  [state |-> "HANDSHAKE",
   fseq |-> [d \in Dirs |-> IF d = 0 THEN SerialAdd(p.seq, 1) ELSE 0],
   pending |-> {}]

\* The INIT handler's effect on the table, and on_new_flow: a parser pair of
\* an earlier flow between the same contacts is dropped for a fresh one.
OpenFlow(p, stillOpen) ==
  LET tup == <<p.src, p.dst>>
  IN  /\ flows' = [flows EXCEPT ![<<p.src, p.dst, p.connid>>] = NewFlow(p)]
      /\ open' = stillOpen \cup {tup}
      /\ streams' = [streams EXCEPT ![tup] = [d \in Dirs |-> << >>]]
      /\ UNCHANGED crashed

\* on_close_flow: btp_parsers.pop without a default.  The flow itself stays in
\* the table, in the state it has.
CloseFlow(key) ==
  /\ open' = open \ {Tup(key)}
  /\ crashed' = (Tup(key) \notin open)

\* flush_and_close followed by a new flow, unless the close failed.
Reopen(p) ==
  IF Tup(Found(p)) \in open
    THEN OpenFlow(p, open \ {Tup(Found(p))})
    ELSE CloseFlow(Found(p)) /\ UNCHANGED <<flows, streams>>

\* add_segment for the flow and direction of p, leaving the flow in `state';
\* on_new_segment drops what has no parser pair.
AddSegment(p, state) ==
  LET key  == Found(p)
      flow == flows[key]
      e    == [dir |-> Dir(p), seq |-> p.seq, data |-> p.data]
      parked == Parked(flow.fseq, flow.pending, e)
      bumped == Bumped(flow.fseq, e)
  IN  \E run \in Runs :
        /\ IsRun(bumped, parked, run)
        /\ flows' = [flows EXCEPT ![key] =
                       [state |-> state, fseq |-> Advanced(bumped, run),
                        pending |-> Remaining(bumped, parked, run)]]
        /\ streams' = IF Tup(key) \notin open THEN streams
             ELSE [streams EXCEPT ![Tup(key)] =
                     [d \in Dirs |-> @[d]
                        \o Handed(flow.fseq, flow.pending, e, run, d)]]

Become(p, state) ==
  /\ flows' = [flows EXCEPT ![Found(p)].state = state]
  /\ UNCHANGED <<open, streams, crashed>>
-----------------------------------------------------------------------------
(* Handlers, one per entry of state_machine that does something.  A packet *)
(* with no entry, or with one that returns early, leaves everything alone. *)

Syn(p) ==
  /\ p.type = "SYN" /\ ~Known(p)
  /\ OpenFlow(p, open)

\* Slip: any STATE of the accepter is taken for the answer to the SYN.
SynAckLate(p) ==
  /\ p.type = "STATE" /\ In(p, {"HANDSHAKE", "SYN_ACKED", "CONNECTED"})
  /\ Dir(p) = 1
  /\ flows' = [flows EXCEPT ![Found(p)].state = "SYN_ACKED",
                            ![Found(p)].fseq[1] = p.seq]
  /\ UNCHANGED <<open, streams, crashed>>

SynAck(p) ==
  /\ p.type = "STATE" /\ In(p, {"HANDSHAKE"})
  /\ Dir(p) = 1
  /\ flows' = [flows EXCEPT ![Found(p)].state = "SYN_ACKED",
                            ![Found(p)].fseq[1] = p.seq]
  /\ UNCHANGED <<open, streams, crashed>>

\* `Letting the second one win.'
SimultaneousSyn(p) ==
  /\ p.type = "SYN" /\ In(p, {"HANDSHAKE"})
  /\ Dir(p) = 1
  /\ Reopen(p)

Data(p) ==
  /\ p.type = "DATA" /\ In(p, {"SYN_ACKED", "CONNECTED"})
  /\ AddSegment(p, "CONNECTED")
  /\ UNCHANGED <<open, crashed>>

Reset(p) ==
  /\ p.type = "RESET" /\ In(p, {"CONNECTED"})
  /\ CloseFlow(Found(p))
  /\ UNCHANGED <<flows, streams>>

FirstFin(p) ==
  /\ p.type = "FIN" /\ In(p, {"SYN_ACKED", "CONNECTED"})
  /\ Become(p, IF Dir(p) = 0 THEN "INITIATOR_SENT_FIN" ELSE "ACCEPTER_SENT_FIN")

FirstFinAcked(p) ==
  /\ p.type = "STATE"
  /\ \/ In(p, {"INITIATOR_SENT_FIN"}) /\ Become(p, "INITIATOR_FIN_ACKED")
     \/ In(p, {"ACCEPTER_SENT_FIN"}) /\ Dir(p) = 1 /\ Become(p, "ACCEPTER_FIN_ACKED")

SecondFin(p) ==
  /\ p.type = "FIN"
  /\ \/ In(p, {"INITIATOR_SENT_FIN"}) /\ Dir(p) = 1 /\ Become(p, "BOTH_SENT_FIN")
     \/ In(p, {"ACCEPTER_SENT_FIN"}) /\ Dir(p) = 0 /\ Become(p, "BOTH_SENT_FIN")

\* Both handlers take the initiator's FIN.
FinAfterAck(p) ==
  /\ p.type = "FIN" /\ Dir(p) = 0
  /\ \/ In(p, {"INITIATOR_FIN_ACKED"}) /\ Become(p, "BOTH_SENT_FIN_INITIATOR_ACKED")
     \/ In(p, {"ACCEPTER_FIN_ACKED"}) /\ Become(p, "BOTH_SENT_FIN_ACCEPTER_ACKED")

BothFinsFirstAck(p) ==
  /\ p.type = "STATE" /\ In(p, {"BOTH_SENT_FIN"})
  /\ Become(p, IF Dir(p) = 0 THEN "BOTH_SENT_FIN_INITIATOR_ACKED"
                             ELSE "BOTH_SENT_FIN_ACCEPTER_ACKED")

\* The other end's STATE ends the flow, now or when its gaps are filled.
LastAck(p) ==
  /\ p.type = "STATE"
  /\ \/ In(p, {"BOTH_SENT_FIN_INITIATOR_ACKED"}) /\ Dir(p) = 1
     \/ In(p, {"BOTH_SENT_FIN_ACCEPTER_ACKED"}) /\ Dir(p) = 0
  /\ IF flows[Found(p)].pending # {}
       THEN Become(p, "PENDING_CLOSE")
       ELSE CloseFlow(Found(p)) /\ UNCHANGED <<flows, streams>>

\* Slip: the flow is not looked at again after the segment.
DataBeforeCloseForgets(p) ==
  /\ p.type = "DATA" /\ In(p, {"PENDING_CLOSE"})
  /\ AddSegment(p, "PENDING_CLOSE")
  /\ UNCHANGED <<open, crashed>>

DataBeforeClose(p) ==
  /\ p.type = "DATA" /\ In(p, {"PENDING_CLOSE"})
  /\ AddSegment(p, "PENDING_CLOSE")
  /\ IF flows'[Found(p)].pending = {}
       THEN CloseFlow(Found(p))
       ELSE UNCHANGED <<open, crashed>>

\* Slip: data is handled as in a connection that is not being closed.
DataReconnects(p) ==
  /\ p.type = "DATA" /\ In(p, Closing)
  /\ AddSegment(p, "CONNECTED")
  /\ UNCHANGED <<open, crashed>>

DataWhileClosing(p) ==
  /\ p.type = "DATA" /\ In(p, Closing)
  /\ AddSegment(p, flows[Found(p)].state)
  /\ UNCHANGED <<open, crashed>>

SynWhileClosing(p) ==
  /\ p.type = "SYN" /\ In(p, Closing)
  /\ Reopen(p)

Trace(p) ==
  /\ ~crashed
  /\ \/ Syn(p) \/ SynAck(p) \/ SimultaneousSyn(p) \/ Data(p) \/ Reset(p)
     \/ FirstFin(p) \/ FirstFinAcked(p) \/ SecondFin(p) \/ FinAfterAck(p)
     \/ BothFinsFirstAck(p) \/ LastAck(p)
     \/ DataBeforeClose(p) \/ DataWhileClosing(p) \/ SynWhileClosing(p)

Next == \E p \in Packets : Trace(p)

Spec == Init /\ [][Next]_vars
-----------------------------------------------------------------------------
Entries == [dir : Dirs, seq : Serial, data : Payloads]

Flows == [state : States, fseq : [Dirs -> Serial], pending : SUBSET Entries]

\* The table keeps its shape whatever the capture holds.
TypeOK ==
  /\ flows \in [Keys -> Flows]
  /\ open \subseteq Tups
  /\ streams \in [Tups -> [Dirs -> Seq(Payloads)]]
  /\ crashed \in BOOLEAN

\* Whatever packets arrive, conforming or not, in whatever state: what is in
\* flow.pending lies ahead of the expected number on the ring by 1 to Half,
\* so that nothing that could be handed over waits, the drain loop ends, and
\* an entry can neither be overtaken nor come round again.
PendingBeyond ==
  \A key \in Keys : \A e \in flows[key].pending :
    \E n \in 1 .. Half : e.seq = SerialAdd(flows[key].fseq[e.dir], n)

Rank(state) ==
  CASE state = "INIT" -> 0
    [] state = "HANDSHAKE" -> 1
    [] state = "SYN_ACKED" -> 2
    [] state = "CONNECTED" -> 3
    [] state \in {"INITIATOR_SENT_FIN", "ACCEPTER_SENT_FIN"} -> 4
    [] state \in {"INITIATOR_FIN_ACKED", "ACCEPTER_FIN_ACKED", "BOTH_SENT_FIN"} -> 5
    [] state \in {"BOTH_SENT_FIN_INITIATOR_ACKED",
                  "BOTH_SENT_FIN_ACCEPTER_ACKED"} -> 6
    [] state = "PENDING_CLOSE" -> 7

\* A connection only moves forward: late data, repeated STATEs and FINs never
\* take a flow back to an earlier state.  The one way back is a SYN of its
\* initiator, which starts it afresh, nothing pending, with a parser pair of
\* its own.
NeverBack ==
  [][\A key \in Keys :
       LET old == flows[key]
           new == flows'[key]
       IN  Rank(new.state) < Rank(old.state)
             => /\ new.state = "HANDSHAKE" /\ new.pending = {}
                /\ Tup(key) \in open' /\ streams'[Tup(key)] = [d \in Dirs |-> << >>]]_vars
=============================================================================

---------------------------- MODULE UtpReassembly ----------------------------
(***************************************************************************)
(* One established uTP flow (utp_tracer.py, UtpFlow and add_segment) under *)
(* a network that loses, repeats and reorders packets.                     *)
(*                                                                         *)
(* Packet k (k = 1, 2, ..) of direction d carries the sequence number      *)
(* WireSeq(d, k), a number of the ring that wraps.  The tracer sees only   *)
(* that number; k is kept as the packet's data so that properties can say  *)
(* which packet was handed over.                                           *)
(***************************************************************************)
EXTENDS UtpSegments

CONSTANTS
  NumPackets,   \* packets each end sends (bound)
  InitialSeqs,  \* sequence numbers a direction may start from (bound)
  Ahead,        \* how far beyond the next expected packet a packet may arrive
  Behind        \* how far behind it a repeated packet may still arrive

\* The ring tells packets apart over at most Half of them forward and fewer
\* than Half backward: the window of the sender and the age of a repeated
\* packet, which the code leaves to the transport, must stay within that.
ASSUME WindowAssumption ==
  /\ NumPackets \in Nat
  /\ InitialSeqs \subseteq Serial
  /\ Ahead \in 0 .. Half
  /\ Behind \in 0 .. Half - 1

VARIABLES
  isn,        \* isn[d]: sequence number of the first packet of direction d
  fseq,       \* flow.seq0, flow.seq1
  pending,    \* flow.pending
  delivered   \* delivered[d]: what new_segment has been called with so far

vars == <<isn, fseq, pending, delivered>>

WireSeq(d, k) == SerialAdd(isn[d], k - 1)

Packet(d, k) == [dir |-> d, seq |-> WireSeq(d, k), data |-> k]

NextPacket(d) == Len(delivered[d]) + 1

Init ==
  /\ isn \in [Dirs -> InitialSeqs]
  /\ fseq = isn
  /\ pending = {}
  /\ delivered = [d \in Dirs |-> << >>]

AddSegment(e) ==
  \E run \in Runs :
    LET parked == Parked(fseq, pending, e)
        bumped == Bumped(fseq, e)
    IN  /\ IsRun(bumped, parked, run)
        /\ delivered' = [d \in Dirs |->
                           delivered[d] \o Handed(fseq, pending, e, run, d)]
        /\ fseq' = Advanced(bumped, run)
        /\ pending' = Remaining(bumped, parked, run)

\* A packet of the window is seen at the capture point: for the first time,
\* late, or once more.  One that is lost is simply not seen.
Arrive(d, k) ==
  /\ NextPacket(d) - Behind \leq k /\ k \leq NextPacket(d) + Ahead
  /\ AddSegment(Packet(d, k))
  /\ UNCHANGED isn

Next == \E d \in Dirs : \E k \in 1 .. NumPackets : Arrive(d, k)

\* Senders repeat a packet until it is acknowledged, so the one packet that
\* blocks a direction is eventually seen.
ArriveNext(d) == NextPacket(d) \leq NumPackets /\ Arrive(d, NextPacket(d))

Spec == Init /\ [][Next]_vars

FairSpec == Spec /\ \A d \in Dirs : WF_vars(ArriveNext(d))
-----------------------------------------------------------------------------
Entries == [dir : Dirs, seq : Serial, data : 1 .. NumPackets]

\* Every variable keeps the shape the code gives it: sequence numbers stay
\* on the ring and the pending list holds packets of the flow.
TypeOK ==
  /\ isn \in [Dirs -> Serial]
  /\ fseq \in [Dirs -> Serial]
  /\ pending \subseteq Entries
  /\ delivered \in [Dirs -> Seq(1 .. NumPackets)]

\* new_segment is called with packets 1, 2, 3, ... of the sender: nothing is
\* skipped, repeated or swapped, however the packets arrived.
InOrder ==
  \A d \in Dirs : \A i \in 1 .. Len(delivered[d]) : delivered[d][i] = i

\* The expected number is that of the packet after the last one handed over.
Synchronised == \A d \in Dirs : fseq[d] = WireSeq(d, NextPacket(d))

\* The pending list holds only packets beyond the expected one, at most Ahead
\* of it: no packet that could be handed over is left waiting, and none that
\* has been handed over stays to be taken for a later one with its number.
PendingAhead ==
  \A e \in pending :
    /\ e.seq = WireSeq(e.dir, e.data)
    /\ NextPacket(e.dir) < e.data /\ e.data \leq NextPacket(e.dir) + Ahead

IInv == TypeOK /\ InOrder /\ Synchronised /\ PendingAhead

\* Reassembly implements the ordered stream that new_segment promises: each
\* packet hands over a batch of consecutive packets of its own direction or
\* nothing (safety), and with the blocking packet repeated until it is seen,
\* everything is handed over in the end (liveness).
Stream == INSTANCE OrderedStream WITH Channels <- Dirs

StreamSpec == Stream!Spec
StreamFairSpec == Stream!FairSpec
=============================================================================

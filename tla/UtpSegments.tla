----------------------------- MODULE UtpSegments -----------------------------
(***************************************************************************)
(* UtpTracer.add_segment: what one data packet does to the expected        *)
(* sequence numbers and to the pending list of its flow, and what it hands *)
(* to the parsers.                                                         *)
(*                                                                         *)
(* Direction 0 is initiator to accepter.  fseq[0] and fseq[1] stand for    *)
(* flow.seq0 and flow.seq1.  flow.pending is a list of (payload, seq,      *)
(* direction); the code scans it until a pass finds nothing and removes by *)
(* (seq, direction), so neither its order nor repeated entries matter and  *)
(* it is a set of records here.                                            *)
(***************************************************************************)
EXTENDS SerialNumber, Sequences

Dirs == {0, 1}

PendingSeqs(pending, dir) == {e.seq : e \in {p \in pending : p.dir = dir}}

\* The first half of add_segment: deliver, park or ignore the packet e.
Expected(fseq, e) == e.seq = fseq[e.dir]

\* Slip: whatever is not expected is kept, repeated packets included.
ParkedUnordered(fseq, pending, e) ==
  IF Expected(fseq, e) THEN pending ELSE pending \cup {e}

Parked(fseq, pending, e) ==
  IF ~Expected(fseq, e) /\ SerialGreater(e.seq, fseq[e.dir])
    THEN pending \cup {e} ELSE pending

Bumped(fseq, e) ==
  IF Expected(fseq, e) THEN [fseq EXCEPT ![e.dir] = SerialAdd(@, 1)] ELSE fseq

\* The second half, the loop over flow.pending: in each direction it stops
\* after the run[dir] consecutive numbers that are pending from fseq[dir] on.
IsRun(fseq, pending, run) ==
  \A dir \in Dirs :
    /\ \A i \in 0 .. run[dir] - 1 :
         SerialAdd(fseq[dir], i) \in PendingSeqs(pending, dir)
    /\ SerialAdd(fseq[dir], run[dir]) \notin PendingSeqs(pending, dir)

Runs == [Dirs -> 0 .. Modulo - 1]

PayloadAt(pending, dir, seq) ==
  (CHOOSE e \in pending : e.dir = dir /\ e.seq = seq).data

RunPayload(fseq, pending, run, dir) ==
  [i \in 1 .. run[dir] |->
     PayloadAt(pending, dir, SerialAdd(fseq[dir], i - 1))]

\* Slip: the number moves once per pass, not once per packet.
AdvancedOnce(fseq, run) ==
  [dir \in Dirs |-> IF run[dir] > 0 THEN SerialAdd(fseq[dir], 1) ELSE fseq[dir]]

Advanced(fseq, run) == [dir \in Dirs |-> SerialAdd(fseq[dir], run[dir])]

\* Slip: nothing is removed (the condition tcp_tracer.py has in this place).
RemainingAll(fseq, pending, run) == pending

\* The entries whose (seq, direction) the loop recorded in `removed' go.
Remaining(fseq, pending, run) ==
  {e \in pending :
     \A i \in 0 .. run[e.dir] - 1 : e.seq # SerialAdd(fseq[e.dir], i)}

\* What the call passes to new_segment in direction dir, in order.
Handed(fseq, pending, e, run, dir) ==
  (IF Expected(fseq, e) /\ e.dir = dir THEN <<e.data>> ELSE << >>)
    \o RunPayload(Bumped(fseq, e), Parked(fseq, pending, e), run, dir)
=============================================================================

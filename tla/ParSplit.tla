------------------------------ MODULE ParSplit ------------------------------
(***************************************************************************)
(* parsplit.cpp: the root reads a file of bytes, every rank splits its     *)
(* part of them into those less than, equal to and greater than the median *)
(* and the root gathers and prints the three lists.                        *)
(*                                                                         *)
(* A rank's pc is the collective it enters next; what it computes between  *)
(* two collectives belongs to the step that precedes it.                   *)
(***************************************************************************)
EXTENDS Mpi, SequencesExt

CONSTANTS
  Bytes,      \* the values of a byte
  Files,      \* what the input file may hold: sequences of bytes
  NoFile      \* the file cannot be opened

ASSUME FilesAssumption == \A f \in Files : f = NoFile \/ f \in Seq(Bytes)

VARIABLES
  file,       \* the input file
  call,         \* call[r]: the collective that rank r enters next
  chunk,      \* chunk[r]: data / data_chunk, the elements of rank r
  median,     \* median[r]
  elements,   \* elements[r]: metadata[1], the number of elements of a rank
  lengths,    \* gather_recv_buf of the root
  printed     \* the lists the root has printed

splitVars == <<file, call, chunk, median, elements, lengths, printed>>

SplitStart(f) ==
  /\ file = f
  /\ call = [r \in Ranks |-> "metadata"]
  /\ chunk = [r \in Ranks |-> << >>]
  /\ median = [r \in Ranks |-> 0]
  /\ elements = [r \in Ranks |-> 0]
  /\ lengths = << >>
  /\ printed = << >>

Advance(r, point) == call' = [call EXCEPT ![r] = point]

At(r, point) == ~aborted /\ call[r] = point
-----------------------------------------------------------------------------
\* load_data() throws when the file cannot be opened, run_root() when its
\* size does not divide, and main() answers an exception with Abort.  With an
\* empty file the root is killed reading data[(0 - 1) / 2], an unsigned
\* difference.
Usable(f) == f # NoFile /\ f # << >> /\ Len(f) % N = 0

MedianIndex(n) == (n - 1) \div 2 + 1

\* Slip: the root leaves without Abort.
RootLeavesSlip ==
  /\ At(RootRank, "metadata")
  /\ ~Usable(file)
  /\ Advance(RootRank, "finalized")
  /\ UNCHANGED <<file, chunk, median, elements, lengths, printed, mpiVars>>

RootAborts ==
  /\ At(RootRank, "metadata")
  /\ ~Usable(file)
  /\ Abort
  /\ UNCHANGED splitVars

RootBcast ==
  /\ At(RootRank, "metadata")
  /\ Usable(file)
  /\ LET k == Len(file) \div N
         m == file[MedianIndex(Len(file))]
     IN  /\ median' = [median EXCEPT ![RootRank] = m]
         /\ elements' = [elements EXCEPT ![RootRank] = k]
         /\ Distribute("metadata", [r \in Others |-> <<m, k>>])
  /\ Advance(RootRank, "scatter")
  /\ UNCHANGED <<file, chunk, lengths, printed>>

NodeBcast(r) ==
  /\ At(r, "metadata")
  /\ CanTake(r)
  /\ median' = [median EXCEPT ![r] = Taken(r)[1]]
  /\ elements' = [elements EXCEPT ![r] = Taken(r)[2]]
  /\ Take(r)
  /\ Advance(r, "scatter")
  /\ UNCHANGED <<file, chunk, lengths, printed>>

Part(r, k) == SubSeq(file, r * k + 1, (r + 1) * k)

RootScatter ==
  /\ At(RootRank, "scatter")
  /\ chunk' = [chunk EXCEPT ![RootRank] = Part(RootRank, elements[RootRank])]
  /\ Distribute("scatter", [r \in Others |-> Part(r, elements[RootRank])])
  /\ Advance(RootRank, "lengths")
  /\ UNCHANGED <<file, median, elements, lengths, printed>>

NodeScatter(r) ==
  /\ At(r, "scatter")
  /\ CanTake(r)
  /\ chunk' = [chunk EXCEPT ![r] = Taken(r)]
  /\ Take(r)
  /\ Advance(r, "lengths")
  /\ UNCHANGED <<file, median, elements, lengths, printed>>
-----------------------------------------------------------------------------
\* The elements of s that are in S, in the order of s.
Chosen(s, S) ==
  LET upTo[i \in 0 .. Len(s)] ==
        IF i = 0 THEN << >>
        ELSE IF s[i] \in S THEN Append(upTo[i - 1], s[i]) ELSE upTo[i - 1]
  IN  upTo[Len(s)]

Below(m) == {x \in Bytes : x < m}

Above(m) == {x \in Bytes : x > m}

\* Slip: elements equal to the median count as less, too.
LessSlip(r) == Chosen(chunk[r], Below(median[r]) \cup {median[r]})

\* perform_split(): l, e and g of rank r.
Less(r) == Chosen(chunk[r], Below(median[r]))

Equal(r) == Len(Chosen(chunk[r], {median[r]}))

Greater(r) == Chosen(chunk[r], Above(median[r]))

Lengths(r) == <<Len(Less(r)), Equal(r), Len(Greater(r))>>

NodeLengths(r) ==
  /\ At(r, "lengths")
  /\ Contribute(r, "lengths", Lengths(r))
  /\ Advance(r, "less")
  /\ UNCHANGED <<file, chunk, median, elements, lengths, printed>>

RootLengths ==
  /\ At(RootRank, "lengths")
  /\ CanCollect
  /\ lengths' = Collected(Lengths(RootRank))
  /\ Collect
  /\ Advance(RootRank, "less")
  /\ UNCHANGED <<file, chunk, median, elements, printed>>

\* gather_part(): recv_counts and displacements, the prefix sums of the
\* lengths that were reported for this part.
Counts(offset) == [r \in Ranks |-> lengths[r][offset]]

Displacement(r, offset) ==
  LET count == Counts(offset) IN MapThenSumSet(LAMBDA q : count[q], 0 .. r - 1)

Total(offset) == Displacement(N, offset)

\* Gatherv puts each rank's elements at its displacement.
Placed(received, offset) ==
  [i \in 1 .. Total(offset) |->
     LET r == CHOOSE q \in Ranks :
                /\ Displacement(q, offset) < i
                /\ i <= Displacement(q, offset) + Counts(offset)[q]
     IN  received[r][i - Displacement(r, offset)]]

NodeLess(r) ==
  /\ At(r, "less")
  /\ Contribute(r, "less", Less(r))
  /\ Advance(r, "greater")
  /\ UNCHANGED <<file, chunk, median, elements, lengths, printed>>

\* The root prints the list L and, without asking anyone, the list E.
RootLess ==
  /\ At(RootRank, "less")
  /\ CanCollect
  /\ LET equal == Total(2)
     IN  printed' = <<Placed(Collected(Less(RootRank)), 1),
                      [i \in 1 .. equal |-> median[RootRank]]>>
  /\ Collect
  /\ Advance(RootRank, "greater")
  /\ UNCHANGED <<file, chunk, median, elements, lengths>>

NodeGreater(r) ==
  /\ At(r, "greater")
  /\ Contribute(r, "greater", Greater(r))
  /\ Advance(r, "finalized")
  /\ UNCHANGED <<file, chunk, median, elements, lengths, printed>>

RootGreater ==
  /\ At(RootRank, "greater")
  /\ CanCollect
  /\ printed' = Append(printed, Placed(Collected(Greater(RootRank)), 3))
  /\ Collect
  /\ Advance(RootRank, "finalized")
  /\ UNCHANGED <<file, chunk, median, elements, lengths>>
-----------------------------------------------------------------------------
SplitRoot ==
  RootAborts \/ RootBcast \/ RootScatter \/ RootLengths \/ RootLess \/ RootGreater

SplitNode(r) ==
  NodeBcast(r) \/ NodeScatter(r) \/ NodeLengths(r) \/ NodeLess(r) \/ NodeGreater(r)

SplitNext == SplitRoot \/ \E r \in Others : SplitNode(r)

SplitEnded == aborted \/ \A r \in Ranks : call[r] = "finalized"

SplitInit == MpiInit /\ \E f \in Files : SplitStart(f)

SplitSpec == SplitInit /\ [][SplitNext]_<<splitVars, mpiVars>>
-----------------------------------------------------------------------------
\* Whatever the ranks' pace, the lists that are printed are those of a single
\* process: every element once, in the order of the file, around the element
\* in its middle.
SplitResult ==
  printed # << >> =>
    LET m == file[MedianIndex(Len(file))]
        lists == <<Chosen(file, Below(m)), Chosen(file, {m}), Chosen(file, Above(m))>>
    IN  printed = SubSeq(lists, 1, Len(printed))

\* A call takes the data of the same call of the other ranks.
SplitMatched ==
  /\ \A r \in Others : CanTake(r) => Head(down[r]).op = call[r]
  /\ CanCollect => \A r \in Others : Head(up[r]).op = call[RootRank]
=============================================================================

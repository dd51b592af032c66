----------------------------- MODULE ParKMeans -----------------------------
(***************************************************************************)
(* parkmeans.cc: k-means of as many numbers as there are ranks.  Each rank *)
(* puts its number into the nearest cluster, the root computes the new     *)
(* means and tells everyone whether to go on.                              *)
(*                                                                         *)
(* Means are exact: numbers are multiplied by Scale, which every count of  *)
(* numbers divides.  The code's floats and its threshold of 1e-6 tell the  *)
(* same means apart, as two means that differ do so by 1 / (N * N) or more.*)
(***************************************************************************)
EXTENDS Mpi, FiniteSetsExt, TLC

CONSTANTS
  Clusters,   \* CLUSTERS
  Scale,
  Numbers     \* the values of val_t

\* data[i] is read for every cluster i, whatever the number of ranks.
ASSUME ClustersAssumption == Clusters \in 1 .. N

ASSUME ScaleAssumption == Scale \in Nat /\ \A count \in 1 .. N : Scale % count = 0

ClusterIds == 0 .. Clusters - 1

VARIABLES
  numbers,    \* the numbers of the input file
  pc,         \* pc[r]: the collective that rank r enters next
  val,        \* val[r]: the number of rank r
  means,      \* means[r]: the means as rank r knows them
  minIndex,   \* minIndex[r]: the cluster of its number
  sums,       \* sums_red of the root
  converged,  \* converged[r]
  result      \* what the root has printed

kmeansVars ==
  <<numbers, pc, val, means, minIndex, sums, converged, result>>

KMeansStart(f) ==
  /\ numbers = f
  /\ pc = [r \in Ranks |-> "data"]
  /\ val = [r \in Ranks |-> 0]
  /\ means = [r \in Ranks |-> [c \in ClusterIds |-> 0]]
  /\ minIndex = [r \in Ranks |-> 0]
  /\ sums = [c \in ClusterIds |-> 0]
  /\ converged = [r \in Ranks |-> FALSE]
  /\ result = << >>

Move(r, point) == pc' = [pc EXCEPT ![r] = point]

Ready(r, point) == ~aborted /\ pc[r] = point

Abs(x) == IF x < 0 THEN -x ELSE x

Sum(f, S) == MapThenSumSet(LAMBDA x : f[x], S)
-----------------------------------------------------------------------------
\* load_data() throws when the file holds fewer numbers than there are ranks;
\* those beyond are ignored.
TooFewNumbers ==
  /\ Ready(RootRank, "data")
  /\ Len(numbers) < N
  /\ Abort
  /\ UNCHANGED kmeansVars

\* What every rank makes of the data.
Begin(r, data) ==
  /\ means' = [means EXCEPT ![r] = [c \in ClusterIds |-> Scale * data[c]]]
  /\ val' = [val EXCEPT ![r] = Scale * data[r]]
  /\ Move(r, "sums")
  /\ UNCHANGED <<numbers, minIndex, sums, converged, result>>

RootData ==
  /\ Ready(RootRank, "data")
  /\ Len(numbers) >= N
  /\ LET data == [r \in Ranks |-> numbers[r + 1]]
     IN  Begin(RootRank, data) /\ Distribute("data", [r \in Others |-> data])

NodeData(r) ==
  /\ Ready(r, "data")
  /\ CanTake(r)
  /\ Begin(r, Taken(r))
  /\ Take(r)
-----------------------------------------------------------------------------
\* The clusters the search for the nearest mean may end in: one that is as
\* near as the best so far replaces it when random_bool() says so.
Nearest(r) ==
  {c \in ClusterIds :
     \A d \in ClusterIds : Abs(val[r] - means[r][c]) <= Abs(val[r] - means[r][d])}

\* The arrays sums and counts of rank r once its cluster is c.
OwnSums(r, c) == [d \in ClusterIds |-> IF d = c THEN val[r] ELSE 0]

OwnCounts(r) == [d \in ClusterIds |-> IF d = minIndex[r] THEN 1 ELSE 0]

Reduced(contributions) ==
  [c \in ClusterIds |-> Sum([r \in Ranks |-> contributions[r][c]], Ranks)]

NodeSums(r) ==
  /\ Ready(r, "sums")
  /\ \E c \in Nearest(r) :
       /\ minIndex' = [minIndex EXCEPT ![r] = c]
       /\ Contribute(r, "sums", OwnSums(r, c))
  /\ Move(r, "counts")
  /\ UNCHANGED <<numbers, val, means, sums, converged, result>>

RootSums ==
  /\ Ready(RootRank, "sums")
  /\ CanCollect
  /\ \E c \in Nearest(RootRank) :
       /\ minIndex' = [minIndex EXCEPT ![RootRank] = c]
       /\ sums' = Reduced(Collected(OwnSums(RootRank, c)))
  /\ Collect
  /\ Move(RootRank, "counts")
  /\ UNCHANGED <<numbers, val, means, converged, result>>

NodeCounts(r) ==
  /\ Ready(r, "counts")
  /\ Contribute(r, "counts", OwnCounts(r))
  /\ Move(r, "converged")
  /\ UNCHANGED <<numbers, val, means, minIndex, sums, converged, result>>

\* A cluster without numbers keeps its mean.
NewMeans(counts) ==
  [c \in ClusterIds |->
     IF counts[c] > 0 THEN sums[c] \div counts[c] ELSE means[RootRank][c]]

\* Slip: one mean that has not moved stands for all.
RootCountsSlip ==
  /\ Ready(RootRank, "counts")
  /\ CanCollect
  /\ LET new == NewMeans(Reduced(Collected(OwnCounts(RootRank))))
     IN  /\ means' = [means EXCEPT ![RootRank] = new]
         /\ converged' = [converged EXCEPT
              ![RootRank] = \E c \in ClusterIds : new[c] = means[RootRank][c]]
  /\ Collect
  /\ Move(RootRank, "converged")
  /\ UNCHANGED <<numbers, val, minIndex, sums, result>>

RootCounts ==
  /\ Ready(RootRank, "counts")
  /\ CanCollect
  /\ LET new == NewMeans(Reduced(Collected(OwnCounts(RootRank))))
     IN  /\ means' = [means EXCEPT ![RootRank] = new]
         /\ converged' = [converged EXCEPT ![RootRank] = new = means[RootRank]]
  /\ Collect
  /\ Move(RootRank, "converged")
  /\ UNCHANGED <<numbers, val, minIndex, sums, result>>
-----------------------------------------------------------------------------
\* The means are distributed only when the loop goes on.
AfterConverged(stop) == IF stop THEN "indices" ELSE "means"

RootConverged ==
  /\ Ready(RootRank, "converged")
  /\ Distribute("converged", [r \in Others |-> converged[RootRank]])
  /\ Move(RootRank, AfterConverged(converged[RootRank]))
  /\ UNCHANGED <<numbers, val, means, minIndex, sums, converged, result>>

\* Slip: the other ranks go on without the new means.
NodeConvergedSlip(r) ==
  /\ Ready(r, "converged")
  /\ CanTake(r)
  /\ converged' = [converged EXCEPT ![r] = Taken(r)]
  /\ Move(r, IF Taken(r) THEN "indices" ELSE "sums")
  /\ Take(r)
  /\ UNCHANGED <<numbers, val, means, minIndex, sums, result>>

NodeConverged(r) ==
  /\ Ready(r, "converged")
  /\ CanTake(r)
  /\ converged' = [converged EXCEPT ![r] = Taken(r)]
  /\ Move(r, AfterConverged(Taken(r)))
  /\ Take(r)
  /\ UNCHANGED <<numbers, val, means, minIndex, sums, result>>

RootMeans ==
  /\ Ready(RootRank, "means")
  /\ Distribute("means", [r \in Others |-> means[RootRank]])
  /\ Move(RootRank, "sums")
  /\ UNCHANGED <<numbers, val, means, minIndex, sums, converged, result>>

\* Slip: the means that were received are not used.
NodeMeansSlip(r) ==
  /\ Ready(r, "means")
  /\ CanTake(r)
  /\ Take(r)
  /\ Move(r, "sums")
  /\ UNCHANGED <<numbers, val, means, minIndex, sums, converged, result>>

NodeMeans(r) ==
  /\ Ready(r, "means")
  /\ CanTake(r)
  /\ means' = [means EXCEPT ![r] = Taken(r)]
  /\ Take(r)
  /\ Move(r, "sums")
  /\ UNCHANGED <<numbers, val, minIndex, sums, converged, result>>

NodeIndices(r) ==
  /\ Ready(r, "indices")
  /\ Contribute(r, "indices", minIndex[r])
  /\ Move(r, "finalized")
  /\ UNCHANGED <<numbers, val, means, minIndex, sums, converged, result>>

\* print_results(): each cluster with its mean and the ranks of its numbers.
RootIndices ==
  /\ Ready(RootRank, "indices")
  /\ CanCollect
  /\ LET indices == Collected(minIndex[RootRank])
     IN  result' = [c \in ClusterIds |->
                      [mean |-> means[RootRank][c],
                       members |-> {r \in Ranks : indices[r] = c}]]
  /\ Collect
  /\ Move(RootRank, "finalized")
  /\ UNCHANGED <<numbers, val, means, minIndex, sums, converged>>
-----------------------------------------------------------------------------
KMeansRoot ==
  \/ TooFewNumbers \/ RootData \/ RootSums \/ RootCounts
  \/ RootConverged \/ RootMeans \/ RootIndices

KMeansNode(r) ==
  \/ NodeData(r) \/ NodeSums(r) \/ NodeCounts(r)
  \/ NodeConverged(r) \/ NodeMeans(r) \/ NodeIndices(r)

KMeansNext == KMeansRoot \/ \E r \in Others : KMeansNode(r)

KMeansEnded == aborted \/ \A r \in Ranks : pc[r] = "finalized"
-----------------------------------------------------------------------------
\* A call takes the data of the same call of the other ranks.
KMeansMatched ==
  /\ \A r \in Others : CanTake(r) => Head(down[r]).op = pc[r]
  /\ CanCollect => \A r \in Others : Head(up[r]).op = pc[RootRank]

\* The numbers that are summed up have been put into clusters by the same means
\* on every rank.
KMeansAgreed ==
  pc[RootRank] = "counts" => \A r \in Others : means[r] = means[RootRank]

\* What is printed is stable: each number is in a cluster whose mean is
\* nearest to it, and a mean is that of the numbers printed beside it, although
\* the means were computed after the numbers had been assigned.
KMeansSettled ==
  result # << >> =>
    \A c \in ClusterIds :
      LET members == result[c].members
      IN  /\ \A r \in members : \A d \in ClusterIds :
               Abs(Scale * numbers[r + 1] - result[c].mean)
                 <= Abs(Scale * numbers[r + 1] - result[d].mean)
          /\ members # {} =>
               result[c].mean * Cardinality(members)
                 = Scale * Sum([r \in Ranks |-> numbers[r + 1]], members)

=============================================================================

----------------------------- MODULE MeshStores -----------------------------
(***************************************************************************)
(* What LoopMeshBuilder and TreeMeshBuilder have in common: each thread of *)
(* the OpenMP team emits triangles into a store of its own, and the master *)
(* merges the stores into one array.                                       *)
(*                                                                         *)
(* The grid has Dims axes (3 in the code) of GridSize cubes.  What a cube  *)
(* yields is the input: triangles[c] is the number buildCube() emits for   *)
(* it, a function of the field and the isolevel in BaseMeshBuilder, which  *)
(* is not part of the repository.                                          *)
(***************************************************************************)
EXTENDS Integers, Sequences, SequencesExt, FiniteSetsExt, Functions

CONSTANTS
  Threads,       \* the team: 0 .. omp_get_num_threads() - 1
  MaxThreads,    \* MAX_THREADS
  Dims,          \* the axes of the grid
  GridSize,      \* the cubes along an axis
  MaxTriangles   \* the most triangles a cube yields (bound)

\* localTriangleStores "must be >= number of threads".
ASSUME ThreadsAssumption ==
  MaxThreads \in Nat /\ Threads # {} /\ Threads \subseteq 0 .. MaxThreads - 1

ASSUME GridAssumption == Dims \in Nat /\ GridSize \in Nat \ {0}

\* What powers are; the proofs need it stated, as the provers do not know.
PowerLaw(b, n) == b ^ 0 = 1 /\ \A k \in 0 .. n - 1 : b ^ (k + 1) = b * b ^ k

Cubes == [1 .. Dims -> 0 .. GridSize - 1]

VARIABLES
  triangles,   \* the number of triangles of each cube
  at,          \* at[t]: how far thread t is in marchCubes()
  stores,      \* localTriangleStores, as long as localTriangleStoresHandles say
  total,       \* totalTriangles of marchCubes()
  data         \* generatedData

meshVars == <<triangles, at, stores, total, data>>

Points == {"start", "allocated", "working", "finished", "merged"}

StoresStart ==
  /\ triangles \in [Cubes -> 0 .. MaxTriangles]
  /\ at = [t \in Threads |-> "start"]
  /\ stores = [t \in Threads |-> << >>]
  /\ total = 0
  /\ data = << >>

\* A thread allocates its store.
Allocate(t) ==
  /\ at[t] = "start"
  /\ at' = [at EXCEPT ![t] = "allocated"]
  /\ UNCHANGED <<triangles, stores, total, data>>

GoTo(t, point) == at' = [at EXCEPT ![t] = point]

\* The triangles of cube c, in the order buildCube() emits them.
TrianglesOf(c) == [i \in 1 .. triangles[c] |-> <<c, i>>]

\* emitTriangle() for each of them.
Emit(t, emitted) == stores' = [stores EXCEPT ![t] = @ \o emitted]

\* Slip: the first empty store ends the merge.
MergedSlip == FlattenSeq([i \in 1 .. MaxThreads |->
                            IF \A u \in 0 .. i - 1 : u \in Threads /\ stores[u] # << >>
                              THEN stores[i - 1] ELSE << >>])

\* mergeData(): the stores in the order of the threads; empty ones add nothing.
Merged == FlattenSeq([i \in 1 .. MaxThreads |->
                        IF i - 1 \in Threads THEN stores[i - 1] ELSE << >>])

\* The implicit barrier at the end of the parallel region, then mergeData().
MergeData ==
  /\ \A t \in Threads : at[t] = "finished"
  /\ at' = [t \in Threads |-> "merged"]
  /\ data' = Merged
  /\ UNCHANGED <<triangles, stores, total>>

-----------------------------------------------------------------------------
Added(S, f) == MapThenSumSet(LAMBDA x : f[x], S)

Wanted == UNION {ToSet(TrianglesOf(c)) : c \in Cubes}

\* However the work was divided among the threads, the merged array holds the
\* triangles of every cube, each once, and marchCubes() returns its length,
\* for which alone mergeData() allocated room.
MeshResult ==
  (\A t \in Threads : at[t] = "merged") =>
    /\ total = Len(data)
    /\ IsInjective(data)
    /\ ToSet(data) = Wanted
=============================================================================

------------------------------ MODULE LoopMesh ------------------------------
(***************************************************************************)
(* LoopMeshBuilder: the cubes are the iterations of a parallel loop with a *)
(* dynamic schedule, a chunk at a time for whichever thread asks next; the *)
(* number of triangles is a reduction.                                     *)
(***************************************************************************)
EXTENDS MeshStores

CONSTANT ChunkSize   \* schedule(nonmonotonic:dynamic,32): 32

ASSUME ChunkAssumption == ChunkSize \in Nat \ {0}

ASSUME GridPowers == PowerLaw(GridSize, Dims)

VARIABLES
  next,      \* the iterations handed out so far
  partial    \* partial[t]: thread t's copy of totalTriangles

loopVars == <<next, partial>>

LoopStart ==
  /\ next = 0
  /\ partial = [t \in Threads |-> 0]

Iterations == GridSize ^ Dims

\* collapse(3): the last axis changes fastest.
CubeOfIteration(i) == [d \in 1 .. Dims |-> (i \div GridSize ^ (Dims - d)) % GridSize]

\* The iterations of the next chunk; the last one may be smaller.
Handed == next .. Min({next + ChunkSize, Iterations}) - 1

RunChunk(t) ==
  /\ at[t] = "allocated"
  /\ next < Iterations
  /\ LET cubes == [i \in 1 .. Cardinality(Handed) |-> CubeOfIteration(next + i - 1)]
         emitted == FlattenSeq([i \in DOMAIN cubes |-> TrianglesOf(cubes[i])])
     IN  /\ Emit(t, emitted)
         /\ partial' = [partial EXCEPT ![t] = @ + Len(emitted)]
  /\ next' = next + ChunkSize
  /\ UNCHANGED <<triangles, at, total, data>>

\* The loop is over for thread t: reduction(+:totalTriangles).
Reduce(t) ==
  /\ at[t] = "allocated"
  /\ next >= Iterations
  /\ total' = total + partial[t]
  /\ GoTo(t, "finished")
  /\ UNCHANGED <<triangles, stores, data, loopVars>>

LoopThread(t) ==
  \/ Allocate(t) /\ UNCHANGED loopVars
  \/ RunChunk(t)
  \/ Reduce(t)

\* In the copies of the threads that are in the loop, or in the reduction.
LoopAccounted == Added({t \in Threads : at[t] = "allocated"}, partial) + total
=============================================================================

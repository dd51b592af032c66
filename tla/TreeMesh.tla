------------------------------ MODULE TreeMesh ------------------------------
(***************************************************************************)
(* TreeMeshBuilder: the grid is divided as an octree; every block below    *)
(* the root is an OpenMP task, which adds the number of its triangles to   *)
(* totalTriangles, a variable on the stack of the task that created it.    *)
(*                                                                         *)
(* A task is named by the octants that lead to its block from the root.    *)
(* Tasks are tied, as in the code: what a thread has begun it finishes     *)
(* itself, and while it waits for its children it begins only tasks that   *)
(* descend from the one it suspended.  OpenMP is not in the repository.    *)
(***************************************************************************)
EXTENDS MeshStores

CONSTANT Depth   \* GridSize is 2 to the power of Depth

ASSUME DepthAssumption == Depth \in Nat /\ GridSize = 2 ^ Depth

ASSUME TwoPowers == PowerLaw(2, Dims) /\ PowerLaw(2, Depth)

Octants == 0 .. 2 ^ Dims - 1

Tasks == UNION {[1 .. k -> Octants] : k \in 0 .. Depth}

Root == << >>

Leaf(b) == Len(b) = Depth

\* The octant's offset along axis d, in the order of the calls of doBlock():
\* the last axis changes fastest.
Offset(o, d) == (o \div 2 ^ (Dims - d)) % 2

\* The cube of a leaf; each level halves the edge.
CubeOf(b) == [d \in 1 .. Dims |->
                FoldLeftDomain(LAMBDA sum, i : sum + Offset(b[i], d) * 2 ^ (Depth - i), 0, b)]

\* The cubes of a block.
Inside(b) == {CubeOf(l) : l \in {t \in [1 .. Depth -> Octants] : IsPrefix(b, t)}}

VARIABLES
  empty,    \* the blocks that isBlockEmpty() leaves out
  state,    \* state[b]: whether task b was created, runs or has finished
  made,     \* made[b]: the number of tasks that task b has created
  sum,      \* sum[b]: totalTriangles of task b
  stack     \* stack[t]: the tasks that thread t has begun, the last one running

treeVars == <<empty, state, made, sum, stack>>

States == {"absent", "queued", "live", "done"}

\* A block is left out only if the field is too far from the isolevel all over
\* it; in which other blocks without triangles this goes unnoticed depends on
\* the field.
EmptyBlocks == {b \in Tasks : ~Leaf(b) /\ \A c \in Inside(b) : triangles[c] = 0}

TreeStart ==
  /\ empty \in SUBSET EmptyBlocks
  /\ state = [b \in Tasks |-> "absent"]
  /\ made = [b \in Tasks |-> 0]
  /\ sum = [b \in Tasks |-> 0]
  /\ stack = [t \in Threads |-> << >>]
-----------------------------------------------------------------------------
\* #pragma omp barrier, then single nowait: the first to come traverses.
BeginSingle(t) ==
  /\ at[t] = "allocated"
  /\ \A u \in Threads : at[u] # "start"
  /\ state[Root] = "absent"
  /\ GoTo(t, "working")
  /\ state' = [state EXCEPT ![Root] = "live"]
  /\ stack' = [stack EXCEPT ![t] = <<Root>>]
  /\ UNCHANGED <<triangles, stores, total, data, empty, made, sum>>

SkipSingle(t) ==
  /\ at[t] = "allocated"
  /\ state[Root] # "absent"
  /\ GoTo(t, "working")
  /\ UNCHANGED <<triangles, stores, total, data, treeVars>>

Runs(t, b) == stack[t] # << >> /\ b = Last(stack[t])

Children(b) == {Append(b, o) : o \in Octants}

\* octreeTraverse() of a block that is divided: doBlock() for the next octant.
Spawn(t, b) ==
  /\ Runs(t, b)
  /\ ~Leaf(b) /\ b \notin empty
  /\ made[b] \in Octants
  /\ state' = [state EXCEPT ![Append(b, made[b])] = "queued"]
  /\ made' = [made EXCEPT ![b] = @ + 1]
  /\ UNCHANGED <<meshVars, empty, sum, stack>>

\* Slip: all of a task, not only its addition, is a critical section.
BeginTaskSlip(t, b) ==
  /\ state[b] = "queued"
  /\ at[t] = "working"
  /\ stack[t] # << >> => IsStrictPrefix(Last(stack[t]), b)
  /\ \A u \in Threads : ToSet(stack[u]) \subseteq {Root}
  /\ state' = [state EXCEPT ![b] = "live"]
  /\ stack' = [stack EXCEPT ![t] = Append(@, b)]
  /\ UNCHANGED <<meshVars, empty, made, sum>>

\* A thread in the barrier at the end of the region, or in a taskwait, takes up
\* a task.
BeginTask(t, b) ==
  /\ state[b] = "queued"
  /\ at[t] = "working"
  /\ stack[t] # << >> => IsStrictPrefix(Last(stack[t]), b)
  /\ state' = [state EXCEPT ![b] = "live"]
  /\ stack' = [stack EXCEPT ![t] = Append(@, b)]
  /\ UNCHANGED <<meshVars, empty, made, sum>>

\* Slip: = instead of +=.
ReturnSlip(t, b, n) ==
  /\ stack' = [stack EXCEPT ![t] = Front(@)]
  /\ state' = [state EXCEPT ![b] = "done"]
  /\ total' = IF b = Root THEN n ELSE total
  /\ sum' = IF b = Root THEN sum ELSE [sum EXCEPT ![Front(b)] = n]
  /\ UNCHANGED <<triangles, at, data, empty, made>>

\* octreeTraverse() of block b returns n: to marchCubes(), or to the task of
\* doBlock(), which adds it to its creator's sum and ends.
Return(t, b, n) ==
  /\ stack' = [stack EXCEPT ![t] = Front(@)]
  /\ state' = [state EXCEPT ![b] = "done"]
  /\ total' = IF b = Root THEN n ELSE total
  /\ sum' = IF b = Root THEN sum ELSE [sum EXCEPT ![Front(b)] = @ + n]
  /\ UNCHANGED <<triangles, at, data, empty, made>>

BuildCube(t, b) ==
  /\ Runs(t, b)
  /\ Leaf(b)
  /\ Emit(t, TrianglesOf(CubeOf(b)))
  /\ Return(t, b, triangles[CubeOf(b)])

LeaveOut(t, b) ==
  /\ Runs(t, b)
  /\ b \in empty
  /\ Return(t, b, 0)
  /\ UNCHANGED stores

\* Slip: without taskwait.
JoinSlip(t, b) ==
  /\ Runs(t, b)
  /\ ~Leaf(b) /\ b \notin empty
  /\ made[b] \notin Octants
  /\ Return(t, b, sum[b])
  /\ UNCHANGED stores

\* taskwait, then return.
Join(t, b) ==
  /\ Runs(t, b)
  /\ ~Leaf(b) /\ b \notin empty
  /\ made[b] \notin Octants
  /\ \A c \in Children(b) : state[c] = "done"
  /\ Return(t, b, sum[b])
  /\ UNCHANGED stores

\* The barrier at the end of the region opens when no task is left.
TreeLeave(t) ==
  /\ at[t] = "working"
  /\ stack[t] = << >>
  /\ \A b \in Tasks : state[b] \in {"absent", "done"}
  /\ GoTo(t, "finished")
  /\ UNCHANGED <<triangles, stores, total, data, treeVars>>

TreeThread(t) ==
  \/ Allocate(t) /\ UNCHANGED treeVars
  \/ BeginSingle(t)
  \/ SkipSingle(t)
  \/ TreeLeave(t)
  \/ \E b \in Tasks : \/ Spawn(t, b)
                      \/ BeginTask(t, b)
                      \/ BuildCube(t, b)
                      \/ LeaveOut(t, b)
                      \/ Join(t, b)

TreeInit == StoresStart /\ TreeStart

TreeNext ==
  \/ \E t \in Threads : TreeThread(t)
  \/ MergeData /\ UNCHANGED treeVars

TreeSpec == TreeInit /\ [][TreeNext]_<<meshVars, treeVars>>
-----------------------------------------------------------------------------
\* doBlock() hands its task a pointer to a local variable of the caller, and
\* shares the caller's block: while the task is queued or runs, the call that
\* created it has not returned.
CreatorAlive ==
  \A b \in Tasks \ {Root} :
    state[b] \in {"queued", "live"} => state[Front(b)] = "live"

\* In the sums of the calls that have not returned, or in what marchCubes() got.
TreeAccounted == Added({b \in Tasks : state[b] = "live"}, sum) + total
=============================================================================

----------------------------- MODULE MCParallel -----------------------------
(***************************************************************************)
(* The parallel programs: a launcher starts one of the two MPI programs    *)
(* with every input, or one of the two mesh builders with every field of a *)
(* small grid.                                                             *)
(***************************************************************************)
EXTENDS ParSplit, ParKMeans, TreeMesh, LoopMesh

CONSTANTS
  MaxFile,    \* the length of the longest input of parsplit (bound)
  KMeansFiles \* the inputs of parkmeans

\* What parkmeans reads are numbers, one in each byte.
ASSUME KMeansFilesAssumption == \A f \in KMeansFiles : f \in Seq(Int)

VARIABLE program   \* the program that runs

jobVars == <<splitVars, kmeansVars, mpiVars>>

builderVars == <<meshVars, treeVars, loopVars>>

vars == <<program, jobVars, builderVars>>

Jobs == {"parsplit", "parkmeans"}

Builders == {"tree", "loop"}

MCFiles == {NoFile} \cup BoundedSeq(Bytes, MaxFile)

MCKMeansFiles == UNION {[1 .. n -> Numbers] : n \in {N - 1, N}}

Init ==
  /\ program \in Jobs \cup Builders
  /\ MpiInit
  /\ \E f \in IF program = "parsplit" THEN Files ELSE {NoFile} : SplitStart(f)
  /\ \E f \in IF program = "parkmeans" THEN KMeansFiles ELSE {<< >>} : KMeansStart(f)
  /\ StoresStart /\ TreeStart /\ LoopStart
  /\ program \in Jobs => \A c \in Cubes : triangles[c] = 0
  /\ program # "tree" => empty = {}

Split(step) == program = "parsplit" /\ step /\ UNCHANGED <<program, kmeansVars, builderVars>>

KMeans(step) == program = "parkmeans" /\ step /\ UNCHANGED <<program, splitVars, builderVars>>

Tree(step) == program = "tree" /\ step /\ UNCHANGED <<program, loopVars, jobVars>>

Loop(step) == program = "loop" /\ step /\ UNCHANGED <<program, treeVars, jobVars>>

RootStep == Split(SplitRoot) \/ KMeans(KMeansRoot)

NodeStep(r) == Split(SplitNode(r)) \/ KMeans(KMeansNode(r))

Thread(t) == Tree(TreeThread(t)) \/ Loop(LoopThread(t))

Merge ==
  /\ program \in Builders
  /\ MergeData
  /\ UNCHANGED <<program, treeVars, loopVars, jobVars>>

Next ==
  \/ RootStep
  \/ \E r \in Others : NodeStep(r)
  \/ \E t \in Threads : Thread(t)
  \/ Merge

\* Every process of a job and every thread of a team is scheduled.
Spec ==
  /\ Init /\ [][Next]_vars
  /\ WF_vars(RootStep)
  /\ \A r \in Others : WF_vars(NodeStep(r))
  /\ \A t \in Threads : WF_vars(Thread(t))
  /\ WF_vars(Merge)
-----------------------------------------------------------------------------
\* Collectives are matched by their order alone: none takes the data of the
\* call before or after it, although no rank waits for another longer than it
\* needs to, and parkmeans leaves out the broadcast of the means in its last
\* round.
Matched ==
  /\ program = "parsplit" => SplitMatched
  /\ program = "parkmeans" => KMeansMatched

\* No rank is left waiting in a collective: parsplit comes to an end with any
\* file, and parkmeans' loop ends on every rank however ties are broken.
JobEnds ==
  /\ program = "parsplit" => <>SplitEnded
  /\ program = "parkmeans" => <>KMeansEnded

\* Each triangle emitted so far is accounted for once, in the sums of calls that
\* have not returned, in the threads' copies or in what marchCubes() has,
\* whichever threads emitted and added it: no addition is lost.
SumsAccount ==
  program \in Builders =>
    (IF program = "tree" THEN TreeAccounted ELSE LoopAccounted) =
      Added(Threads, [t \in Threads |-> Len(stores[t])])

\* marchCubes() returns: with tied tasks that wait for their children, some
\* thread can always go on.
MeshEnds == program \in Builders => <>(\A t \in Threads : at[t] = "merged")
=============================================================================

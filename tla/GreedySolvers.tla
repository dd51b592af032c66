--------------------------- MODULE GreedySolvers ---------------------------
(***************************************************************************)
(* GreedySolver, Greedy2Solver and RandomSolver: they take nodes in some   *)
(* order and erase from a working set what a taken node excludes.          *)
(*                                                                         *)
(* RandomSolver reads the node of an iterator that it has just erased;     *)
(* the freed tree node still holds the value, as nothing is allocated in   *)
(* between.                                                                *)
(***************************************************************************)
EXTENDS IndependentSet

CONSTANT Iterations   \* m_num_iter of RandomSolver

VARIABLES
  queue,      \* original_queue: pairs of nodes, equal ones for a single node
  working,    \* working_set, original_set
  output,     \* output_set
  result,     \* RandomSolver's result: the largest output so far
  iteration   \* RandomSolver's i

greedyVars == <<queue, working, output, result, iteration>>

Singles == {<<v, v>> : v \in Nodes}

IndependentPairs ==
  {p \in Nodes \X Nodes : p[1] < p[2] /\ p[1] \notin Ends(p[2])}

GreedyStart(entries) ==
  /\ queue = entries
  /\ working = Nodes
  /\ output = {}
  /\ result = {}
  /\ iteration = 0

Density(p) == (Degree(p[1]) + Degree(p[2])) \div 2

\* The node is taken if it is in the working set, which loses the ends of all
\* its edges.
Process(v, state) ==
  IF v \notin state.working THEN state
  ELSE [working |-> state.working \ Erased(v), output |-> state.output \cup {v}]

TakeEntry(p) ==
  /\ solving
  /\ p \in queue
  /\ queue' = queue \ {p}
  /\ LET after == Process(p[2], Process(p[1], [working |-> working, output |-> output]))
     IN  working' = after.working /\ output' = after.output
  /\ UNCHANGED <<graphVars, returned, solving, result, iteration>>

\* GreedySolver and Greedy2Solver: one of the entries of smallest degree, or
\* density, is at the top.
TakeSmallest(p) ==
  /\ \A q \in queue : Density(p) <= Density(q)
  /\ TakeEntry(p)

GreedyReturns ==
  /\ solving /\ queue = {}
  /\ Return(output)
  /\ UNCHANGED <<graphVars, greedyVars>>

GreedyNext == GreedyReturns \/ \E p \in queue : TakeSmallest(p)

Larger == IF Cardinality(output) > Cardinality(result) THEN output ELSE result

\* RandomSolver: the nodes are taken in a random order, as many times as asked.
NextShuffle ==
  /\ solving /\ queue = {} /\ iteration + 1 < Iterations
  /\ result' = Larger
  /\ iteration' = iteration + 1
  /\ queue' = Singles
  /\ working' = Nodes
  /\ output' = {}
  /\ UNCHANGED <<graphVars, returned, solving>>

RandomReturns ==
  /\ solving /\ queue = {} /\ iteration + 1 = Iterations
  /\ Return(Larger)
  /\ UNCHANGED <<graphVars, greedyVars>>

RandomNext == NextShuffle \/ RandomReturns \/ \E p \in queue : TakeEntry(p)
=============================================================================

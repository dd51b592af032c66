--------------------------- MODULE IndependentSet ---------------------------
(***************************************************************************)
(* What the solvers of the GAL project share: a graph, the independent set *)
(* that solve() returns, and what main.cpp tests of it.                    *)
(*                                                                         *)
(* A graph is a set of directed edges <<u, v>>, as OGDF stores them; every *)
(* edge is among the adjacency entries of both its ends, a loop twice.     *)
(* OGDF is vendored and modelled by how the solvers use it.                *)
(***************************************************************************)
EXTENDS Integers, Sequences, FiniteSets, FiniteSetsExt, Functions

CONSTANT Nodes   \* the nodes of the graph, named by their index

NodesAssumption == IsFiniteSet(Nodes) /\ Nodes \subseteq Nat /\ Nodes # {}

ASSUME NodesAssumption

VARIABLES
  edges,      \* the edges of the graph
  returned,   \* the nodes that solve() returns
  solving     \* solve() has not returned yet

graphVars == edges

\* The other ends of the edges of node v, v itself if it has a loop.
Ends(v) == {w \in Nodes : <<v, w>> \in edges \/ <<w, v>> \in edges}

Neighbours(v) == Ends(v) \ {v}

Degree(v) == Cardinality({w \in Nodes : <<v, w>> \in edges})
               + Cardinality({w \in Nodes : <<w, v>> \in edges})

\* graph_complement(): an edge for either order of two nodes that are not
\* adjacent, and a loop at every node, since no node is adjacent to itself.
Complement(simple) ==
  {e \in Nodes \X Nodes : e \notin simple /\ <<e[2], e[1]>> \notin simple}

SolveStart(graph) ==
  /\ edges = graph
  /\ returned = {}
  /\ solving = TRUE

Return(set) == returned' = set /\ solving' = FALSE

\* What is erased from the working set together with v: the ends of its edges;
\* v itself only if it has any.
Erased(v) == IF Ends(v) = {} THEN {} ELSE Ends(v) \cup {v}
-----------------------------------------------------------------------------
\* test_independency()
IsIndependent(set) ==
  \A u, v \in set : u # v => <<u, v>> \notin edges /\ <<v, u>> \notin edges

IsMaximal(set) == \A v \in Nodes \ set : Neighbours(v) \cap set # {}

IsClique(set) == \A u, v \in set : u # v => v \in Neighbours(u)

IsComplete == IsClique(Nodes)
=============================================================================

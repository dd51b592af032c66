----------------------------- MODULE MCSolvers -----------------------------
(***************************************************************************)
(* The solvers: one of the three search strategies on a state space, or    *)
(* one of the six solvers of the maximum independent set on a graph.       *)
(*                                                                         *)
(* main.cpp runs the latter on the complement of a benchmark graph, and    *)
(* all but the last on random simple graphs.                               *)
(***************************************************************************)
EXTENDS AStar, DepthFirst, BreadthFirst, GreedySolvers, RamseySolvers, BmaSolver

CONSTANTS
  Limits,     \* the depth limits
  GoalSets,   \* the sets of final states
  Estimates,  \* the heuristics
  Layouts     \* in which order the nodes may lie in memory

LimitsAssumption == Limits \subseteq Nat

ASSUME LimitsAssumption

\* Heuristics are numbers, and not negative.
ASSUME EstimatesAssumption == Estimates \subseteq [States -> Nat]

VARIABLE solver   \* the solver that runs

searchVars == <<problemVars, outcome, solution, aStarVars, depthVars, breadthVars>>

misVars == <<graphVars, returned, solving, greedyVars, ramseyVars, bmaVars>>

vars == <<solver, searchVars, misVars>>

Strategies == {"A*", "DFS", "BFS"}

MisSolvers == {"random", "greedy", "greedy2", "ramsey", "wheel-free", "bma"}

\* A state space in which one state, 4, is first reached by a detour over 2 and
\* 3, and later from 1; there is up to one more action (bound), and with or
\* without the only action that leads to the final state 5.
Detour == {<<0, 1>>, <<0, 2>>, <<2, 3>>, <<3, 4>>, <<1, 4>>, <<4, 5>>}

SpaceOf(moves) == [s \in States |-> {t \in States : <<s, t>> \in moves}]

MCSpaces ==
  {SpaceOf(way \cup {e}) : way \in {Detour, Detour \ {<<4, 5>>}}, e \in States \X States}

\* The estimates of the start and of state 5, which is always final, are 0.
MCEstimates == {h \in [States -> 0 .. 3] : h[0] = 0 /\ h[5] = 0}

MCGoalSets == {{5}, {1, 5}, {0, 5}}

SimpleGraphs == SUBSET {e \in Nodes \X Nodes : e[1] < e[2]}

MCLayouts == {f \in [Nodes -> Nodes] : IsInjective(f)}

Idle(s) ==
  /\ s # "A*" => /\ estimate = [v \in States |-> 0]
                 /\ frontier = {} /\ info = << >>
  /\ s # "DFS" => limit = 0 /\ stack = << >> /\ chain = << >> /\ previousDepth = 0
  /\ s # "BFS" => open = << >> /\ closed = << >>
  /\ s \notin Strategies => ProblemStart(SpaceOf({}), {Start})
  /\ s \notin MisSolvers => SolveStart({})
  /\ s # "ramsey" => RamseyStart([v \in Nodes |-> v])

InitSearch ==
  /\ solver \in Strategies
  /\ \E space \in Spaces, final \in GoalSets : ProblemStart(space, final)
  /\ \/ solver = "A*" /\ \E h \in Estimates : Admissible(h) /\ AStarStart(h)
     \/ solver = "DFS" /\ \E l \in Limits : DepthStart(l)
     \/ solver = "BFS" /\ BreadthStart

InitMis ==
  /\ solver \in MisSolvers
  /\ \E simple \in SimpleGraphs :
       \/ SolveStart(Complement(simple))
       \/ solver # "bma" /\ SolveStart(simple)
  /\ solver = "ramsey" => \E layout \in Layouts : RamseyStart(layout)

Init ==
  /\ InitSearch \/ InitMis
  /\ Idle(solver)
  /\ GreedyStart(IF solver = "greedy2" THEN IndependentPairs ELSE Singles)
  /\ BmaStart

Search ==
  /\ \/ solver = "A*" /\ AStarNext /\ UNCHANGED <<depthVars, breadthVars>>
     \/ solver = "DFS" /\ DepthNext /\ UNCHANGED <<aStarVars, breadthVars>>
     \/ solver = "BFS" /\ BreadthNext /\ UNCHANGED <<aStarVars, depthVars>>
  /\ UNCHANGED <<solver, misVars>>

GiveUp ==
  /\ solver \in Strategies
  /\ OutOfMemory
  /\ UNCHANGED <<solver, problemVars, aStarVars, depthVars, breadthVars, misVars>>

Solve ==
  /\ \/ solver \in {"greedy", "greedy2"} /\ GreedyNext /\ UNCHANGED <<ramseyVars, bmaVars>>
     \/ solver = "random" /\ RandomNext /\ UNCHANGED <<ramseyVars, bmaVars>>
     \/ solver = "ramsey" /\ RamseyNext /\ UNCHANGED <<greedyVars, bmaVars>>
     \/ solver = "wheel-free" /\ WheelFreeReturns /\ UNCHANGED <<greedyVars, bmaVars>>
     \/ solver = "bma" /\ BmaNext /\ UNCHANGED <<greedyVars, ramseyVars>>
  /\ UNCHANGED <<solver, searchVars>>

Next == Search \/ GiveUp \/ Solve

\* The program runs until solve() returns.
Spec == Init /\ [][Next]_vars /\ WF_vars(Search) /\ WF_vars(Solve)
-----------------------------------------------------------------------------
\* As long as A* goes on, its frontier holds a valid entry of a state on a
\* shortest way to a final state, with the least cost of that state: neither
\* outdated entries nor states first reached by a detour make it lose the best
\* solution.
ShortestWayOpen ==
  solver = "A*" /\ Searching /\ Reachable(Start, goals) => HoldsShortestWay

\* How long a solution the strategy may miss or return.
Affordable ==
  /\ Reachable(Start, goals)
  /\ solver = "DFS" => Distance(Start, goals) <= Max({limit, 1})

\* Unless memory runs out, a strategy finds a solution exactly if there is one
\* (within its depth limit), and what it returns solves the game: for A* and BFS
\* no longer than necessary, for DFS not deeper than the limit.  (A limit of 0
\* acts as 1: the successors of the start are tested before the limit.)
SearchResult ==
  /\ outcome = "found" =>
       /\ Affordable
       /\ IsSolution(solution)
       /\ IF solver = "DFS" THEN Len(solution) <= Max({limit, 1})
          ELSE Len(solution) = Distance(Start, goals)
  /\ outcome = "failed" => ~Affordable

\* solve() returns: a state is opened again only finitely often, and the depth
\* limit ends the search of a space with cycles.
SearchEnds == solver \in Strategies => <>(outcome # "searching")

\* Whatever main.cpp tests of a result holds: it is independent, whatever the
\* order of ties, of the nodes in memory and of random choices.  Those solvers
\* that extend a set as long as they can return one that cannot be extended;
\* Greedy2Solver, which looks at independent pairs only, unless no pair of the
\* graph is independent.
MisResult ==
  solver \in MisSolvers /\ ~solving =>
    /\ IsIndependent(returned)
    /\ solver \in {"random", "greedy", "bma"} => IsMaximal(returned)
    /\ solver = "greedy2" /\ ~IsComplete => IsMaximal(returned)

\* In every round of clique_removal(), whatever nodes ramsey() picks, it returns
\* a clique and an independent set of the nodes that are left, and they are as
\* large together as Ramsey's theorem promises.
RamseyLarge == solver = "ramsey" => RamseyBound

\* "Every one of such vertices can be selected, the resulting MIS will be the
\* same size": in every round, whichever node of finite cost getResult() takes,
\* its path has one node more than rounds have passed; nor has the relaxation
\* lost a node that the path excludes.
BmaPaths == solver = "bma" => PathsRight

InMemoryOrder == \A u, v \in Nodes : u < v => address[u] < address[v]

\* solve() returns: clique_removal(), where the nodes lie in memory in the order
\* of their indices, takes away a node in every round, and the relaxation of
\* BMASolver runs out of nodes before it runs out of rounds.
SolveReturns == solver \in MisSolvers /\ InMemoryOrder => <>~solving
=============================================================================

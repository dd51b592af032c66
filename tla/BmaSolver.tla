----------------------------- MODULE BmaSolver -----------------------------
(***************************************************************************)
(* BMASolver: a relaxation in rounds, like Bellman and Ford's.  A round    *)
(* extends the path that ends in a node u by every node that the path does *)
(* not exclude; the costs decide which path to a node is kept.             *)
(***************************************************************************)
EXTENDS IndependentSet

CONSTANT Infinity   \* costInfinity

\* No cost is that high: a path has at most one node per round, and each adds at
\* most itself and two edges for every node.
HighestCost == (Cardinality(Nodes) + 1) * (2 * Cardinality(Nodes) + 1)

InfinityAssumption == Infinity \notin 0 .. HighestCost

ASSUME InfinityAssumption

VARIABLES
  round,      \* roundI
  rest,       \* the nodes u that this round has yet to go through
  exclude,    \* exclude[r][v] of round r
  cost,       \* cost[r][v]
  previous    \* previous[r][v]

bmaVars == <<round, rest, exclude, cost, previous>>

Rounds == 0 .. Cardinality(Nodes)

\* The targets of the edges that start at u.
Targets(u) == {v \in Nodes : <<u, v>> \in edges}

BmaStart ==
  /\ round = 0
  /\ rest = Nodes
  /\ exclude = [r \in Rounds |-> [u \in Nodes |->
                  IF r = 0 THEN {u} \cup Targets(u) ELSE {}]]
  /\ cost = [r \in Rounds |-> [u \in Nodes |->
               IF r = 0 THEN Cardinality({u} \cup Targets(u)) ELSE Infinity]]
  /\ previous = [r \in Rounds |-> [u \in Nodes |-> u]]

\* The adjacency entries of v whose other end is not in the set; both edges
\* between two nodes count.
NewEntries(v, set) ==
  Cardinality({w \in Nodes \ set : <<v, w>> \in edges})
    + Cardinality({w \in Nodes \ set : <<w, v>> \in edges})

PathCost(u, v) == cost[round][u] + 1 + NewEntries(v, exclude[round][u])

\* The nodes to which the path over u is the cheapest so far.
Cheaper(u) ==
  {v \in Nodes \ exclude[round][u] :
     /\ cost[round][u] # Infinity
     /\ cost[round + 1][v] # Infinity => cost[round + 1][v] > PathCost(u, v)}

\* Slip: the neighbours of v are excluded, but no longer what u excludes.
ExtendedSlip(u, v) == {v} \cup Ends(v)

Extended(u, v) == exclude[round][u] \cup {v} \cup Ends(v)

Updated(f, set, Value(_)) ==
  [f EXCEPT ![round + 1] = [v \in Nodes |-> IF v \in set THEN Value(v) ELSE @[v]]]

Relax(u) ==
  /\ solving
  /\ u \in rest /\ u = Min(rest)
  /\ rest' = rest \ {u}
  /\ exclude' = Updated(exclude, Cheaper(u), LAMBDA v : Extended(u, v))
  /\ cost' = Updated(cost, Cheaper(u), LAMBDA v : PathCost(u, v))
  /\ previous' = Updated(previous, Cheaper(u), LAMBDA v : u)
  /\ UNCHANGED <<graphVars, returned, solving, round>>

CostChange == \E v \in Nodes : cost[round + 1][v] # Infinity

NextRound ==
  /\ solving
  /\ rest = {} /\ CostChange
  /\ round' = round + 1
  /\ rest' = Nodes
  /\ UNCHANGED <<graphVars, returned, solving, exclude, cost, previous>>

\* The nodes on the path that ends in v in round r.
Path(v, r) ==
  LET back[i \in 0 .. r] == IF i = r THEN v ELSE previous[i + 1][back[i + 1]]
  IN  {back[i] : i \in 0 .. r}

\* The first round without a change; getResult() takes one of the nodes with a
\* finite cost, in the order of a hash table.
BmaReturns ==
  /\ solving
  /\ rest = {} /\ ~CostChange
  /\ \E v \in Nodes : cost[round][v] # Infinity /\ Return(Path(v, round))
  /\ UNCHANGED <<graphVars, bmaVars>>

BmaNext == (\E u \in Nodes : Relax(u)) \/ NextRound \/ BmaReturns
-----------------------------------------------------------------------------
\* The path that ends in a node of finite cost has as many nodes as there were
\* rounds, and the node excludes the path and all its neighbours, no more.
PathsRight ==
  \A r \in 0 .. round : \A v \in Nodes :
    cost[r][v] # Infinity =>
      /\ Cardinality(Path(v, r)) = r + 1
      /\ exclude[r][v] = UNION {{w} \cup Ends(w) : w \in Path(v, r)}
=============================================================================

------------------------------- MODULE AStar -------------------------------
(***************************************************************************)
(* AStarSearch::solve().  The frontier keeps outdated entries; a state is  *)
(* opened again when a shorter way to it turns up, so the heuristic has to *)
(* be admissible, but need not be consistent.                              *)
(***************************************************************************)
EXTENDS SearchProblem

VARIABLES
  estimate,   \* estimate[s]: compute_heuristic() of state s
  frontier,   \* the entries <<cost, state>> of the priority queue
  info        \* states: what is known of each discovered state

aStarVars == <<estimate, frontier, info>>

\* as_state_info
StateInfo(p, g, f) == [predecessor |-> p, cost |-> g, frontierCost |-> f]

\* What distanceLowerBound() is for, which counts the cards not well placed: any
\* estimate that is never above the distance.
Admissible(h) ==
  \A s \in States : Reachable(s, goals) => h[s] <= Distance(s, goals)

AStarStart(h) ==
  /\ estimate = h
  /\ frontier = {<<0, Start>>}
  /\ info = [s \in {Start} |-> StateInfo(Start, 0, 0)]

\* One of the cheapest entries is at the top.
Top(entry) ==
  /\ Searching
  /\ entry \in frontier
  /\ \A other \in frontier : entry[1] <= other[1]

Outdated(entry) == info[entry[2]].frontierCost < entry[1]

\* Slip: the entry is left on the frontier.
SkipOutdatedSlip(entry) ==
  /\ Top(entry)
  /\ Outdated(entry)
  /\ UNCHANGED <<problemVars, outcome, solution, aStarVars>>

SkipOutdated(entry) ==
  /\ Top(entry)
  /\ Outdated(entry)
  /\ frontier' = frontier \ {entry}
  /\ UNCHANGED <<problemVars, outcome, solution, estimate, info>>

\* Slip: a discovered state is not opened again.
ImprovedSlip(s) == {r \in next[s] : r \notin DOMAIN info}

\* The successors of s that are new, or reached at a lower cost than before.
Improved(s) ==
  {r \in next[s] : r \in DOMAIN info => info[s].cost + 1 < info[r].cost}

EntryCost(s, r) == info[s].cost + 1 + estimate[r]

Expand(entry) ==
  /\ Top(entry)
  /\ ~Outdated(entry)
  /\ entry[2] \notin goals
  /\ LET s == entry[2]
         better == Improved(s)
     IN  /\ info' = [r \in better \cup DOMAIN info |->
                      IF r \in better THEN StateInfo(s, info[s].cost + 1, EntryCost(s, r))
                      ELSE info[r]]
         /\ frontier' = (frontier \ {entry}) \cup {<<EntryCost(s, r), r>> : r \in better}
  /\ UNCHANGED <<problemVars, outcome, solution, estimate>>

\* The actions on the way to s: as many predecessors as its cost says.
Actions(s) ==
  LET back[i \in 0 .. info[s].cost] ==
        IF i = 0 THEN s ELSE info[back[i - 1]].predecessor
  IN  [i \in 1 .. info[s].cost |-> back[info[s].cost - i]]

Finish(entry) ==
  /\ Top(entry)
  /\ ~Outdated(entry)
  /\ entry[2] \in goals
  /\ Found(Actions(entry[2]))
  /\ UNCHANGED <<problemVars, aStarVars>>

AStarFails ==
  /\ Searching
  /\ frontier = {}
  /\ NotFound("failed")
  /\ UNCHANGED <<problemVars, aStarVars>>

AStarNext ==
  \/ \E entry \in frontier : SkipOutdated(entry) \/ Expand(entry) \/ Finish(entry)
  \/ AStarFails
-----------------------------------------------------------------------------
\* A state on a shortest way from the start to a final state.
OnShortestWay(s) ==
  /\ Reachable(Start, {s}) /\ Reachable(s, goals)
  /\ Distance(Start, {s}) + Distance(s, goals) = Distance(Start, goals)

\* The frontier holds a valid entry of a state on a shortest way, with the least
\* cost of that state.
HoldsShortestWay ==
  \E entry \in frontier :
    LET s == entry[2]
    IN  /\ ~Outdated(entry)
        /\ OnShortestWay(s)
        /\ info[s].cost = Distance(Start, {s})
=============================================================================

---------------------------- MODULE BreadthFirst ----------------------------
(***************************************************************************)
(* BreadthFirstSearch::solve().                                            *)
(***************************************************************************)
EXTENDS SearchProblem

CONSTANT Nowhere   \* the null predecessor of the start

ASSUME NowhereAssumption == Nowhere \notin States

VARIABLES
  open,     \* the queue of states to expand
  closed    \* closed[s]: the state from which s was discovered

breadthVars == <<open, closed>>

BreadthStart ==
  /\ open = <<Start>>
  /\ closed = [s \in {Start} |-> Nowhere]

\* The actions from the start to s.
Way(s) ==
  LET way[r \in DOMAIN closed] ==
        IF closed[r] = Nowhere THEN << >> ELSE Append(way[closed[r]], r)
  IN  way[s]

BreadthFinish ==
  /\ Searching /\ open # << >>
  /\ \E g \in next[Head(open)] \cap goals : Found(Append(Way(Head(open)), g))
  /\ UNCHANGED <<problemVars, breadthVars>>

Queued(new) == Tail(open) \o SetToSeq(new)

Discover ==
  /\ Searching /\ open # << >>
  /\ next[Head(open)] \cap goals = {}
  /\ LET new == next[Head(open)] \ DOMAIN closed
     IN  /\ open' = Queued(new)
         /\ closed' = [s \in new \cup DOMAIN closed |->
                        IF s \in new THEN Head(open) ELSE closed[s]]
  /\ UNCHANGED <<problemVars, outcome, solution>>

BreadthFails ==
  /\ Searching
  /\ open = << >>
  /\ NotFound("failed")
  /\ UNCHANGED <<problemVars, breadthVars>>

BreadthNext == BreadthFinish \/ Discover \/ BreadthFails
=============================================================================

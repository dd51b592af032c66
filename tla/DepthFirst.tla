----------------------------- MODULE DepthFirst -----------------------------
(***************************************************************************)
(* DepthFirstSearch::solve().  The stack holds states and their depths     *)
(* only; the actions that lead to the state on its top are kept beside it, *)
(* and follow the jumps from a dead end back up the search tree.           *)
(***************************************************************************)
EXTENDS SearchProblem

VARIABLES
  limit,     \* depth_limit_
  stack,     \* the items <<state, depth>>; an item's action leads to its state
  chain,     \* current_actions, with the dummy action that leads to the start
  previousDepth   \* previous_depth

depthVars == <<limit, stack, chain, previousDepth>>

DepthStart(l) ==
  /\ limit = l
  /\ stack = <<<<Start, 0>>>>
  /\ chain = << >>
  /\ previousDepth = 0

TopState == Last(stack)[1]

TopDepth == Last(stack)[2]

\* Slip: one action is dropped however far the search jumps.
ChainSlip ==
  Append(IF previousDepth > TopDepth THEN Front(chain) ELSE chain, TopState)

\* current_actions when the top item is inspected: an action dropped for every
\* level jumped over.
Chain ==
  Append(SubSeq(chain, 1, Len(chain) - Max({0, previousDepth - TopDepth})), TopState)

\* The first action that leads to a final state ends the search, however deep.
DepthFinish ==
  /\ Searching /\ stack # << >>
  /\ \E g \in next[TopState] \cap goals : Found(Append(Tail(Chain), g))
  /\ UNCHANGED <<problemVars, depthVars>>

\* Slip: successors are generated at the limit, too.
DeeperSlip == next[TopState] # {} /\ TopDepth < limit

Deeper == next[TopState] # {} /\ TopDepth < limit - 1

Inspect == Searching /\ stack # << >> /\ next[TopState] \cap goals = {}

Descend ==
  /\ Inspect
  /\ Deeper
  /\ stack' = Front(stack) \o [i \in 1 .. Cardinality(next[TopState]) |->
                                 <<SetToSeq(next[TopState])[i], TopDepth + 1>>]
  /\ chain' = Chain
  /\ previousDepth' = TopDepth
  /\ UNCHANGED <<problemVars, outcome, solution, limit>>

DeadEnd ==
  /\ Inspect
  /\ ~Deeper
  /\ stack' = Front(stack)
  /\ chain' = Front(Chain)
  /\ previousDepth' = TopDepth
  /\ UNCHANGED <<problemVars, outcome, solution, limit>>

DepthFails ==
  /\ Searching
  /\ stack = << >>
  /\ NotFound("failed")
  /\ UNCHANGED <<problemVars, depthVars>>

DepthNext == DepthFinish \/ Descend \/ DeadEnd \/ DepthFails
-----------------------------------------------------------------------------
\* Every item of the stack can be reached from the chain: cut to the item's
\* depth, the actions kept beside the stack lead from the start to a state with
\* an action to the item's.
StackContinues ==
  /\ \A i \in 2 .. Len(chain) : chain[i] \in next[chain[i - 1]]
  /\ \A i \in 1 .. Len(stack) :
       LET s == stack[i][1]
           d == stack[i][2]
       IN  IF d = 0 THEN s = Start
           ELSE d <= Len(chain) /\ chain[1] = Start /\ s \in next[chain[d]]
=============================================================================

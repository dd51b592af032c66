--------------------------- MODULE RamseySolvers ---------------------------
(***************************************************************************)
(* RamseySolver and WheelFreeRamseySolver.  The recursive functions pick   *)
(* their nodes at random: they are modelled by the set of their possible   *)
(* results.                                                                *)
(***************************************************************************)
EXTENDS IndependentSet, Sequences, Combinatorics

VARIABLES
  address,   \* address[v]: where OGDF has put node v
  left,      \* nodes, in clique_removal()
  clique,    \* iterator.first, the clique of the last call of ramsey()
  best       \* i, the largest independent set so far

ramseyVars == <<address, left, clique, best>>

RamseyStart(layout) ==
  /\ address = layout
  /\ left = Nodes
  /\ clique = {}
  /\ best = {}

Bigger(a, b) == IF Cardinality(a) > Cardinality(b) THEN a ELSE b

\* Slip: the node joins the independent set among its neighbours.
RamseyPairSlip(v, near, far) ==
  [clique |-> Bigger(near.clique \cup {v}, far.clique),
   set    |-> Bigger(near.set \cup {v}, far.set)]

\* The results for the neighbours of v and for the others, put together.
RamseyPair(v, near, far) ==
  [clique |-> Bigger(near.clique \cup {v}, far.clique),
   set    |-> Bigger(near.set, far.set \cup {v})]

Near(nodes, v) == nodes \cap Neighbours(v)

Far(nodes, v) == nodes \ (Neighbours(v) \cup {v})

\* ramsey()
Ramsey ==
  LET results[nodes \in SUBSET Nodes] ==
        IF nodes = {} THEN {[clique |-> {}, set |-> {}]}
        ELSE UNION {{RamseyPair(v, near, far) : near \in results[Near(nodes, v)],
                                                far \in results[Far(nodes, v)]} : v \in nodes}
  IN  results

\* Slip: the nodes are compared the other way round.
DifferenceSlip(a, b) ==
  LET merge[at \in (1 .. Len(a) + 1) \X (1 .. Len(b) + 1)] ==
        LET i == at[1]
            j == at[2]
        IN  IF i > Len(a) THEN {}
            ELSE IF j > Len(b) THEN {a[k] : k \in i .. Len(a)}
            ELSE IF address[a[i]] > address[b[j]] THEN {a[i]} \cup merge[<<i + 1, j>>]
            ELSE IF address[b[j]] > address[a[i]] THEN merge[<<i, j + 1>>]
            ELSE merge[<<i + 1, j + 1>>]
  IN  merge[<<1, 1>>]

\* set_difference() compares the addresses of the nodes, but they come in the
\* order of their indices: of two sequences that are not sorted by address it
\* may take over nodes of the clique.
Difference(a, b) ==
  LET merge[at \in (1 .. Len(a) + 1) \X (1 .. Len(b) + 1)] ==
        LET i == at[1]
            j == at[2]
        IN  IF i > Len(a) THEN {}
            ELSE IF j > Len(b) THEN {a[k] : k \in i .. Len(a)}
            ELSE IF address[a[i]] < address[b[j]] THEN {a[i]} \cup merge[<<i + 1, j>>]
            ELSE IF address[b[j]] < address[a[i]] THEN merge[<<i, j + 1>>]
            ELSE merge[<<i + 1, j + 1>>]
  IN  merge[<<1, 1>>]

\* The nodes by index.
InOrder(nodes) ==
  CHOOSE s \in [1 .. Cardinality(nodes) -> nodes] : \A i, j \in DOMAIN s : i < j => s[i] < s[j]

\* clique_removal(): the call of ramsey() before the loop.
FirstGuess ==
  /\ solving /\ best = {}
  /\ \E r \in Ramsey[Nodes] : clique' = r.clique /\ best' = r.set
  /\ UNCHANGED <<graphVars, returned, solving, address, left>>

\* Slip: set_copy() does not clear what it copies to.
BetterSlip(set) == best \cup set

Better(set) == IF Cardinality(set) > Cardinality(best) THEN set ELSE best

RemoveClique ==
  /\ solving /\ best # {} /\ left # {}
  /\ left' = Difference(InOrder(left), InOrder(clique))
  /\ \E r \in Ramsey[left'] : clique' = r.clique /\ best' = Better(r.set)
  /\ UNCHANGED <<graphVars, returned, solving, address>>

RamseyReturns ==
  /\ solving /\ left = {}
  /\ Return(best)
  /\ UNCHANGED <<graphVars, ramseyVars>>

RamseyNext == FirstGuess \/ RemoveClique \/ RamseyReturns

-----------------------------------------------------------------------------
\* isBipartite() colours the nodes of the reduced graph, if it has no loop or
\* other odd cycle: one colour of any such colouring.
ColourClasses(nodes) ==
  {class \in SUBSET nodes : /\ \A v \in nodes : v \notin Ends(v)
                            /\ IsIndependent(class)
                            /\ IsIndependent(nodes \ class)}

\* wheel_free_ramsey()
WheelFree ==
  LET results[nodes \in SUBSET Nodes] ==
        IF ColourClasses(nodes) # {}
          THEN {Bigger(class, nodes \ class) : class \in ColourClasses(nodes)}
          ELSE UNION {{Bigger(near, far \cup {v}) : near \in results[Near(nodes, v)],
                                                   far \in results[Far(nodes, v)]} : v \in nodes}
  IN  results

WheelFreeReturns ==
  /\ solving
  /\ \E set \in WheelFree[Nodes] : Return(set)
  /\ UNCHANGED <<graphVars, ramseyVars>>
-----------------------------------------------------------------------------
\* ramsey() returns a clique and an independent set of the nodes it is given,
\* and at least one of them is large: with s and t nodes, there were fewer
\* than s + t over s nodes.
RamseyBound ==
  \A r \in Ramsey[left] :
    /\ IsClique(r.clique) /\ IsIndependent(r.set)
    /\ Cardinality(left) <
         choose(Cardinality(r.clique) + Cardinality(r.set), Cardinality(r.set))
=============================================================================

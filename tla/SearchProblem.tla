--------------------------- MODULE SearchProblem ---------------------------
(***************************************************************************)
(* What the three search strategies of sui-solution.cc share: a state      *)
(* space, and the list of actions that solve() returns.                    *)
(*                                                                         *)
(* States, their actions and the heuristic belong to the game, which is    *)
(* not part of the repository.  An action is named by the state it leads   *)
(* to, so a list of actions is the list of the states on the way.          *)
(***************************************************************************)
EXTENDS Integers, Sequences, SequencesExt, FiniteSets, FiniteSetsExt, Functions

CONSTANTS
  States,    \* the states of the game
  Start,     \* init_state
  Spaces     \* the state spaces: functions from States to sets of successors

SpacesAssumption ==
  /\ IsFiniteSet(States) /\ Start \in States
  /\ Spaces \subseteq [States -> SUBSET States]

ASSUME SpacesAssumption

VARIABLES
  next,      \* next[s]: the states that the actions of s lead to
  goals,     \* the states s with s.isFinal()
  outcome,   \* "searching", or how solve() has ended
  solution   \* the actions it returns

problemVars == <<next, goals>>

Outcomes == {"searching", "found", "failed", "memory"}

ProblemStart(space, final) ==
  /\ next = space
  /\ goals = final
  /\ outcome = IF Start \in final THEN "found" ELSE "searching"
  /\ solution = << >>

Searching == outcome = "searching"

Found(actions) == outcome' = "found" /\ solution' = actions

\* return {}
NotFound(why) == outcome' = why /\ UNCHANGED solution

\* The resident set has grown beyond the limit when the loop comes round.
OutOfMemory == Searching /\ NotFound("memory")
-----------------------------------------------------------------------------
\* The reference: how far the states are.
Step(S) == S \cup UNION {next[s] : s \in S}

Within(s, n) == LET reach[i \in 0 .. n] == IF i = 0 THEN {s} ELSE Step(reach[i - 1])
                IN  reach[n]

Reachable(s, T) == Within(s, Cardinality(States)) \cap T # {}

Distance(s, T) == Min({n \in 0 .. Cardinality(States) : Within(s, n) \cap T # {}})

\* The actions can be executed one after the other, and end in a final state.
IsSolution(actions) ==
  LET route == <<Start>> \o actions
  IN  /\ \A i \in 1 .. Len(actions) : route[i + 1] \in next[route[i]]
      /\ Last(route) \in goals
=============================================================================

SPECIFICATION Spec
CONSTANTS
  States = {0, 1, 2, 3, 4, 5}
  Start = 0
  Nowhere = Nowhere
  Spaces <- MCSpaces
  GoalSets <- MCGoalSets
  Limits = {0, 1, 3, 4, 5}
  Estimates <- MCEstimates
  Nodes = {0, 1, 2, 3}
  Iterations = 2
  Infinity = Infinity
  Layouts <- MCLayouts
INVARIANTS ShortestWayOpen StackContinues SearchResult MisResult RamseyLarge BmaPaths
PROPERTIES SearchEnds SolveReturns
CHECK_DEADLOCK FALSE

SPECIFICATION SessionSpec
CONSTANTS
  a = a
  b = b
  Half = 2
  NumPackets = 0
  ConnIdModulo = 8
  Ends <- MCEnds
  Sessions <- ParallelSessions
  ConnIds <- MCConnIds
  Packets <- MCPackets
INVARIANTS FoundByOwnFlow
CHECK_DEADLOCK FALSE

SPECIFICATION SessionSpec
CONSTANTS
  a = a
  b = b
  Half = 3
  NumPackets = 1
  ConnIdModulo = 8
  Ends <- MCEnds
  Sessions <- OneSession
  ConnIds <- MCConnIds
  Packets <- MCPackets
INVARIANTS KeepsTracing
CHECK_DEADLOCK FALSE

SPECIFICATION SessionFairSpec
CONSTANTS
  a = a
  b = b
  Half = 4
  NumPackets = 3
  ConnIdModulo = 8
  Ends <- MCEnds
  Sessions <- OneSession
  ConnIds <- MCConnIds
  Packets <- MCPackets
INVARIANTS StreamsContiguous GapsFillable
PROPERTIES GapsEndInClose
CHECK_DEADLOCK FALSE

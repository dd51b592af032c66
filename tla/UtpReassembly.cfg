\* A ring of 6 numbers, a stream longer than a turn, and the widest window
\* the ring can tell apart.
SPECIFICATION FairSpec
CONSTANTS
  Half = 3
  NumPackets = 8
  InitialSeqs = {0, 4}
  Ahead = 3
  Behind = 2
INVARIANTS InOrder Synchronised PendingAhead
PROPERTIES StreamFairSpec

\* Any traffic between two contacts.  The program stops when a KeyError ends it.
SPECIFICATION Spec
CONSTANTS
  a = a
  b = b
  Half = 2
  Ends <- MCEnds
  ConnIds <- MCConnIds
  Packets <- MCPackets
INVARIANTS PendingBeyond
PROPERTIES NeverBack
CHECK_DEADLOCK FALSE
SYMMETRY EndSymmetry

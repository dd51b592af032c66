SPECIFICATION LdpcSpec
CONSTANTS
  MessageLen = 3
  MaxIterations = 2
INVARIANTS WarnedOfFailure
CHECK_DEADLOCK FALSE

\* The capture ends when the stream does.
SPECIFICATION Spec
CONSTANTS
  HandshakeLen = 3
  PrefixLen = 2
  MaxSegment = 12
  MaxNumber = 2
  Streams <- MCStreams
  ExtNames = {"ut_pex", "ut_metadata"}
  NoName = "none"
INVARIANTS Framed ReportMatches RightExtension
CHECK_DEADLOCK FALSE

SPECIFICATION Spec
CONSTANTS
  N = 3
  Bytes = {7, 8, 9}
  NoFile = NoFile
  MaxFile = 6
  Files <- MCFiles
  Clusters = 2
  Scale = 6
  Numbers = {0, 1, 3, 4, 9}
  KMeansFiles <- MCKMeansFiles
  Threads = {0, 1}
  MaxThreads = 3
  Dims = 1
  GridSize = 4
  Depth = 2
  MaxTriangles = 1
  ChunkSize = 3
INVARIANTS SplitResult Matched KMeansAgreed KMeansSettled CreatorAlive SumsAccount MeshResult
PROPERTIES JobEnds MeshEnds
CHECK_DEADLOCK FALSE

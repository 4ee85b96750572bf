INIT MCInit
NEXT MCNext
SYMMETRY Symmetry
CONSTANTS
  Keys <- CollidingKeys
  Empty = Empty
  c1 = c1
  c2 = c2
  c3 = c3
  ThreadIds = {0, 1}
  MEMORY_VECTOR_SIZE = 1
  FirstSpace = 1
  MoreSpace = 2
  Creators = {c1, c2, c3}
  Locked = {c1, c2}
  Readers = {r}
  External = {x1, x2, x3, x4}
  block_count = 3
  threadid <- SharedThreadid
  capacity <- Segments
  Absent = Absent
  Filling = Filling
  Null = Null
  Nobody = Nobody
  Vertices = {0, 1, 2, 3}
  Threads = {0, 1}
  Graphs <- Directed
  MAX_ITER = 4
  max_vid = 4
  root = 0
  Team = {0, 1}
  SymmetricGraphs <- Symmetric
  Heuristics <- Directions
  WORD = 4
  NodeIDs = {0, 1, 2, 3}
  Workers = {0, 1}
  source = 0
  RoadMaps <- Weighted
  Deltas = {1, 2}
  INF = 10
  NA = NA
INVARIANTS
  ProbesEnd
  LookupExact
  BuffersDisjoint
  WritersFindBlocks
  IInv
  ComponentsFound
  DistancesWalked
  DistancesExact
  AppendedOnce
  PathsShortest
  LCCTrianglesExact
  CDLPLabelsElected
  PageRankMassNeverCreated
CHECK_DEADLOCK FALSE

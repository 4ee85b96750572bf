INIT ContainersInit
NEXT ContainersNext
CONSTANTS
  Keys <- CollidingKeys
  Empty = Empty
  c1 = c1
  c2 = c2
  c3 = c3
  ThreadIds = {0, 1}
  MEMORY_VECTOR_SIZE = 1
  FirstSpace = 1
  MoreSpace = 2
  Creators = {c1, c2, c3}
  Locked = {c1, c2}
  Readers = {r}
  External = {x1, x2, x3, x4}
  block_count = 3
  threadid <- SharedThreadid
  capacity <- Segments
  Absent = Absent
  Filling = Filling
  Null = Null
  Nobody = Nobody
INVARIANT ReadersFindBlocks

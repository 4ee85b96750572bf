SPECIFICATION Spec
CONSTANTS
  Threads = {t1, t2}
  Vertices = {1, 2}
  NoThread = none
  Programs <- Mixed
  ReadKinds = {"fine", "epoch"}
  threadid <- Lists
  WRITE_THREAD = 2
  MAXSIMULBATCH = 2
  MaxEpoch = 2
  MaxTxns = 3
INVARIANT SnapshotAtomic
CHECK_DEADLOCK FALSE

SPECIFICATION Spec
CONSTANTS
  Uses <- OneEdge
  MAXSIMULBATCH = 2
  MaxEpoch = 3
INVARIANTS
  PinnedSnapshotExact
CHECK_DEADLOCK FALSE

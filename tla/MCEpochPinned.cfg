SPECIFICATION Spec
CONSTANTS
  max_threads = 2
  Writers <- OneWriter
  Readers <- OneReader
  MAXSIMULBATCH = 2
  NoTransaction = 15
  FINEGRAIN = TRUE
  on = TRUE
  Closing = FALSE
  MaxEpoch = 3
INVARIANTS
  PinnedVersionsExist

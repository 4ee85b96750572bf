SPECIFICATION Spec
CONSTANTS
  Uses <- Pipeline
  MAXSIMULBATCH = 4
  MaxEpoch = 3
INVARIANTS
  PendingLocated
CHECK_DEADLOCK FALSE

SPECIFICATION Spec
CONSTANTS
  Uses <- AllUses
  MAXSIMULBATCH = 2
  MaxEpoch = 4
INVARIANTS
  StorageConsistent
  PendingFound
  PublishedEdgesExact
  PublishedWeightsExact
  
  NewestEdgesExact
  DegreeNeverShort
CHECK_DEADLOCK FALSE

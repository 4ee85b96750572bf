SPECIFICATION FairSpec
CONSTANTS
  max_threads = 2
  Writers <- OneWriter
  Readers <- OneReader
  MAXSIMULBATCH = 2
  NoTransaction = 15
  FINEGRAIN = TRUE
  on = TRUE
  Closing = TRUE
  MaxEpoch = 3
PROPERTIES
  RegistrationCompletes
  ClosedEpochsPublished
  NoMoreTxnPublishesAll

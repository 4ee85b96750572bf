SPECIFICATION FairSpec
CONSTANTS
  max_threads = 2
  Writers <- TwoWriters
  Readers <- NoReader
  MAXSIMULBATCH = 2
  NoTransaction = 15
  FINEGRAIN = TRUE
  on = TRUE
  Closing = FALSE
  MaxEpoch = 3
PROPERTIES
  RegistrationCompletes

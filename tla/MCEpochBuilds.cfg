INIT MCInit
NEXT MCNext
CONSTANTS
  max_threads = 2
  Writers <- TwoWriters
  Readers <- OneReader
  MAXSIMULBATCH = 3
  NoTransaction = 15
  FINEGRAIN = FALSE
  on = FALSE
  Closing = TRUE
  MaxEpoch = 4
INVARIANTS
  IInv
  PublishedEpochsQuiescent
  RingHoldsUnpublished
  WriterOwnsVBData
  PublishedOnceInOrder
  FinalizePublishesAll
  CaptureLiveWhileOpen
PROPERTIES
  GCKeepsPinned
  ReaderRetryProgresses
  ImplementsProtocol

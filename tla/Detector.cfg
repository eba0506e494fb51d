\* Batches of two, four batches and a half, in both modes; requests may fail.
CONSTANTS
  num_batch = 2
  MaxImages = 9
SPECIFICATION FairSpec
INVARIANTS
  QueueAligned
  FillsIdleRequest
  ResultsReturned
PROPERTIES
  InsertReturns
CHECK_DEADLOCK FALSE

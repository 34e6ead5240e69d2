SPECIFICATION FairSpec
CONSTANTS
  BatchSize = 2
  Concurrency = 2
  MaxTotalBytes = 2
  MaxCalls = 3
  MaxBatches = 1
  ChunkSizes <- MCChunkSizes
  Operations <- MCOperations
INVARIANTS
  BatchAccounted
  DeliveryHonest
  NoLostWakeup
  CloseMeansClean
PROPERTIES
  CallsReturn
CHECK_DEADLOCK FALSE

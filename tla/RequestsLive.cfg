SPECIFICATION FairSpec
CONSTANTS
  r1 = r1
  r2 = r2
  r3 = r3
  r4 = r4
  Requests <- One
  Ids = {"i"}
  IdOf <- OneId
  Partitions = {"p"}
  PartitionOf <- OnePartitionOf
  ActiveLimit = 1
  PartitionActiveLimit = 1
  QueueLimit = 1
  PartitionQueueLimit = 1
  Capacity = 2
  EnvelopeLimit = 1
  MaxChunks = 2
CHECK_DEADLOCK FALSE
PROPERTIES RegisteredFinishes ShutdownCompletes

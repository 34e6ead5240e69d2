SPECIFICATION Spec
CONSTANTS
  r1 = r1
  r2 = r2
  r3 = r3
  r4 = r4
  Requests <- Four
  Ids = {"i", "j", "k"}
  IdOf <- FourIdOf
  Partitions = {"p"}
  PartitionOf <- FourPartitionOf
  ActiveLimit = 1
  PartitionActiveLimit = 1
  QueueLimit = 1
  PartitionQueueLimit = 1
  Capacity = 2
  EnvelopeLimit = 1
  MaxChunks = 1
SYMMETRY Symmetry
CONSTRAINT Focus
CHECK_DEADLOCK FALSE
INVARIANTS RegistrySound ResourcesOwned DeliveryHonest StreamAgrees
PROPERTY FinalIsFinal

SPECIFICATION FairBypassSpec
CONSTANTS
  a1 = a1
  a2 = a2
  a3 = a3
  b1 = b1
  c1 = c1
  Tickets <- MCTickets
  Keys <- MCKeys
  KeyOf <- MCKeyOf
  ActiveLimit = 2
  PartitionActiveLimit = 1
  QueueLimit = 3
  PartitionQueueLimit = 2
CONSTRAINT Focus
INVARIANTS Consistent BypassedAtMostOnce
PROPERTIES RefinesQueue EventuallyStarts

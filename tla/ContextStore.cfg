SPECIFICATION RegistryFairSpec
CONSTANTS
  p1 = p1
  p2 = p2
  p3 = p3
  q1 = q1
  q2 = q2
  Creates <- MCCreates
  Owners <- MCOwners
  OwnerOf <- MCOwnerOf
  MaxContexts = 3
  MaxContextsPerPartition = 2
INVARIANT RegistryAccounted
PROPERTY ExpiredCollected

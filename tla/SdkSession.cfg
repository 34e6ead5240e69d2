SPECIFICATION FairSpec
CONSTANTS
  MaxContexts = 2
  MaxOperations = 3
  MaxBodies = 1
  MaxLate = 1
  MaxCloses = 2
INVARIANTS
  KnownContextsOwned
  AcknowledgedSurvive
  LostMeansGone
PROPERTIES
  OperationsSettle
CHECK_DEADLOCK FALSE

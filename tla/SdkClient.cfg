CONSTANTS
  s1 = s1
  s2 = s2
  s3 = s3
  d1 = d1
  p1 = p1
  p2 = p2
  Exchanges = {s1, s2, s3, d1}
  Partitions = {p1, p2}
  ViaSession = {s1, s2, s3}
  PartOf <- MCPartOf
  ClientLimits <- Middle
  ServiceLimits <- Advertised
SPECIFICATION Spec
INVARIANTS
  PermitsAccounted
  
SYMMETRY MCSymmetry
CONSTRAINT Focus
CHECK_DEADLOCK FALSE

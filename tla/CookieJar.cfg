SPECIFICATION FairSpec
CONSTANTS
  a = a
  b = b
  d = d
  e = e
  None = None
  Requests = {a}
  Editors = {d, e}
  IdleTtl = 2
  MaxAge = 3
  MaxTime = 3
CHECK_DEADLOCK FALSE
INVARIANTS LockAccounted RetiredJarClearedIfSeen
PROPERTIES UsedAsSeen WaitersServed

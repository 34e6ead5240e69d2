SPECIFICATION Spec
CONSTANTS
  a = a
  b = b
  d = d
  e = e
  None = None
  Requests = {a, b}
  Editors = {}
  IdleTtl = 2
  MaxAge = 2
  MaxTime = 0
CHECK_DEADLOCK FALSE
INVARIANT RetiredJarCleared

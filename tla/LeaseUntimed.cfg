SPECIFICATION Spec
CONSTANTS
  c1 = c1
  c2 = c2
  Nobody = Nobody
  Orphan = Orphan
  Callers = {c1, c2}
  Ttl = 5
  Timeout = 1
  Tail = 1
  Punctual = FALSE
SYMMETRY Symmetric
PROPERTIES
  NobodyElseEndsIt
  ImplementsLease
CHECK_DEADLOCK FALSE

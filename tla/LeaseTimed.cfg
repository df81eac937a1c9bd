SPECIFICATION Spec
CONSTANTS
  c1 = c1
  c2 = c2
  Nobody = Nobody
  Orphan = Orphan
  Callers = {c1, c2}
  Ttl = 9
  Timeout = 2
  Tail = 1
  Punctual = TRUE
SYMMETRY Symmetric
INVARIANTS
  TypeOK
  SignalIsTruthful
CHECK_DEADLOCK FALSE

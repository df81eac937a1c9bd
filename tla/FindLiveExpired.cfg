SPECIFICATION Spec
CONSTANTS
  c1 = c1
  Nobody = Nobody
  Orphan = Orphan
  Callers = {c1}
  Ttl = 9
  Timeout = 2
  Tail = 4
  Punctual = TRUE
INVARIANTS
  ExpiredMeansDead
CHECK_DEADLOCK FALSE

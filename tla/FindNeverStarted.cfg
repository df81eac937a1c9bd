SPECIFICATION Spec
CONSTANTS
  r1 = r1
  w1 = w1
  s1 = s1
  Nobody = Nobody
  Orphan = Orphan
  NoRecord = NoRecord
  Records = {r1}
  Scopes = {s1}
  Workers = {w1}
  Watchers = {}
  ScopeOf <- AllInOneScope
  Stalls = FALSE
INVARIANTS
  StartedMeansStarted
CHECK_DEADLOCK FALSE

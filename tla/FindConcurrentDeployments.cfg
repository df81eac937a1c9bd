SPECIFICATION Spec
CONSTANTS
  r1 = r1
  r2 = r2
  w1 = w1
  s1 = s1
  Nobody = Nobody
  Orphan = Orphan
  NoRecord = NoRecord
  Records = {r1, r2}
  Scopes = {s1}
  Workers = {w1}
  Watchers = {}
  ScopeOf <- AllInOneScope
  Stalls = FALSE
INVARIANTS
  OneDeploymentPerScope
CHECK_DEADLOCK FALSE

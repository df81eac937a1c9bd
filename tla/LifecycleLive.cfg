SPECIFICATION LiveSpec
CONSTANTS
  r1 = r1
  w1 = w1
  w2 = w2
  v1 = v1
  s1 = s1
  Nobody = Nobody
  Orphan = Orphan
  NoRecord = NoRecord
  Records = {r1}
  Scopes = {s1}
  Workers = {w1, w2}
  Watchers = {v1}
  ScopeOf <- AllInOneScope
  Stalls = FALSE
PROPERTIES
  StartedIsSettled
  LeaseIsFreed
CHECK_DEADLOCK FALSE

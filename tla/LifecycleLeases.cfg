SPECIFICATION Spec
CONSTANTS
  r1 = r1
  r2 = r2
  w1 = w1
  w2 = w2
  s1 = s1
  Nobody = Nobody
  Orphan = Orphan
  NoRecord = NoRecord
  Records = {r1, r2}
  Scopes = {s1}
  Workers = {w1, w2}
  Watchers = {}
  ScopeOf <- AllInOneScope
  Stalls = FALSE
SYMMETRY Symmetric
INVARIANTS
  OneCallPerScope
  
PROPERTIES
  
  LeasesAsPromised
CHECK_DEADLOCK FALSE

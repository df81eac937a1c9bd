SPECIFICATION Spec
CONSTANTS
  r1 = r1
  w1 = w1
  w2 = w2
  v1 = v1
  s1 = s1
  Nobody = Nobody
  Orphan = Orphan
  NoRecord = NoRecord
  Records = {r1}
  Scopes = {s1}
  Workers = {w1, w2}
  Watchers = {v1}
  ScopeOf <- AllInOneScope
  Stalls = TRUE
SYMMETRY Symmetric
INVARIANTS
  TypeOK
  DurableBeforeSubmitted
  RecordFollowsArm
  UncertainOnlyWhileSubmitting
  CompletedOnce
PROPERTIES
  FinalStatusStays
  ImplementsPromise
CHECK_DEADLOCK FALSE

CONSTANTS
  MaxRecords = 1
  LookupLimit = 1
  ListLimit = 1
  p1 = p1
  p2 = p2
  Requests <- OneRequest
  Secrets = {"s1"}
  Configurations <- PolicyNarrows
  Targets <- Nested
  RowKeys <- OneId
  MaxId = 1
  MaxDeployments = 1
  MaxEvents = 0
  Calls = {c1}
SPECIFICATION Spec
INVARIANTS
  NestedWithinPolicy
CHECK_DEADLOCK FALSE

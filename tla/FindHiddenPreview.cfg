CONSTANTS
  MaxRecords = 3
  LookupLimit = 2
  ListLimit = 2
  p1 = p1
  p2 = p2
  Requests <- OneRequest
  Secrets = {"s1"}
  Configurations <- OneConfiguration
  Targets <- Nested
  RowKeys <- InOrder
  MaxId = 3
  MaxDeployments = 1
  MaxEvents = 2
  Calls = {c1}
SPECIFICATION Spec
INVARIANTS
  FreshPreviewIsFound
CHECK_DEADLOCK FALSE

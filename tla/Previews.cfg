CONSTANTS
  MaxRecords = 2
  LookupLimit = 1
  ListLimit = 2
  Requests <- SomeRequests
  Secrets = {"s1", "s2"}
  Configurations <- PolicyAndCompilerChange
  Targets <- Nested
  RowKeys <- MixedOrder
  MaxId = 3
  MaxEvents = 1
  MaxDeployments = 2
  p1 = p1
  p2 = p2
  Calls = {c1, c2}
SYMMETRY Symmetric
SPECIFICATION Spec
INVARIANTS
  TypeOK
  SubmittedAsPreviewed
  RollbackFromSuccess
  SubmittedWithinPolicy
  SecretsStayOut
  HistoryIsReal
CHECK_DEADLOCK FALSE

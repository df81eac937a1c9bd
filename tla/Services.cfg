SPECIFICATION Spec
CONSTANTS
  Patchers = {p1, p2}
  Attempts = 2
  Patches <- SomePatches
  Compiles = {c1, c2, c3}
  MaxConcurrency = 1
  MaxWaiting = 1
  Operations = {o1}
  Questions = {q1}
  Checks = {k1, k2}
  Ttl = 2
  Latency = 1
  MaxTime = 5
  RequestTimeout = 3
  WhatIfTimeout = 5
  PollInterval = 2
  s1 = s1
  s2 = s2
  g1 = g1
  g2 = g2
  m1 = m1
  Subscriptions = {s1, s2}
  Groups = {g1, g2}
  ManagementGroups = {m1}
  Environments <- Servers
  Roles <- RoleAssignments
  MaxRoles = 2
  Bundles <- SomeBundles
  Templates <- SomeTemplates
  DeniedTypes <- Denied
  MaxResources = 3
  MaxNested = 1
  MaxDepth = 9
  MaxPathDepth = 2
  Registries = {"registry"}
INVARIANTS
  ServicesTypeOK
  WrittenOnce
  RequestsFindTheirTables
  NothingLeftBehind
  TemplateIsWhole
  OneTruthfulAudit
  AnswersAreRecent
  DefinitiveMeansRefused
  PlanInTime
  DeploysInsideBoundary
  ClaimsAreTrue
  BundleIsClosed
  InspectionIsComplete
PROPERTIES
  ImplementsPatch
  PatchReturns
  CompilesReturn
  AdmittedIsAudited
CHECK_DEADLOCK FALSE

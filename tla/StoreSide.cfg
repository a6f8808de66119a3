SPECIFICATION Spec
CONSTANTS
  a1 = a1
  a2 = a2
  u1 = u1
  u2 = u2
  c1 = c1
  c2 = c2
  Collectors = {c1, c2}
  CaseRuns = {"r1"}
  Batch = "batch"
  TraceSpans <- Spans
  GivenIds <- Named
  MaxAttempts = 2
  MaxCollections = 2
  Actors = {a1, a2}
  Profiles = {"p1", "p2"}
  Services = {"s1"}
  Workflows = {"w1"}
  Bundles <- SomeBundles
  SourceCatalog <- OtherStore
  DefaultProfile = "p2"
  ModelKeys = 1
  MaxCommands = 3
  Upgraders = {u1, u2}
  SqlFrom = {0, 4, 5, 6, 9, 11}
  SqliteFrom = {0, 9, 18}
  MaxRetries = 1
  Readers = {"r1"}
  Components = {"a", "b", "c"}
  FirstGraphs <- OldGraphs
  GraphFiles <- Files
  MaxBytes = 2
  MaxReplaces = 2
SYMMETRY Symmetric
INVARIANTS StoreTypeOK BindingsHaveWorkflows ActiveUnlessInterrupted LoneVerifyReportsOk
INVARIANTS RecordedMeansApplied RetriesSucceed
INVARIANTS CollectedIsTrue BatchShowsCaseTopology
INVARIANTS ProvidersStartEarlier BatchesAreTight LoneReadsPlanTheStore
PROPERTIES LossNeedsOverlap UpgradesOnlyAdd
CHECK_DEADLOCK FALSE

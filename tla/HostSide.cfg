SPECIFICATION Spec
CONSTANTS
  o1 = o1
  o2 = o2
  x1 = x1
  x2 = x2
  Attempts = {x1, x2}
  RunIds = {"i1", "i2"}
  LegacyRows <- Legacy
  Operators = {o1, o2}
  Versions = {1, 2}
  Contents = {"c", "d"}
  Broken = {"d"}
  Guarded = {2}
  MaxAttempts = 2
  MaxCommands = 4
  Environments <- RecordedEnvironments
  Paths = {"workspace", "a", "b"}
  Refs = {"r"}
  Services = {"s", "t"}
  MaxRestores = 2
  MaxEvents = 1
  SuiteCases <- Suite
  SuiteNodes = {1, 2, 3}
  SuiteBindings <- Bindings
  Signals <- ChangedNode
  Limits = {1}
  RunStatuses = {"passed", "failed"}
  StabilityLimit = 2
  MaxRuns = 3
SYMMETRY Symmetric
INVARIANTS HostTypeOK EdgeListsAssets HistoryIsTrue
INVARIANTS DockerStartsPrepared OkMeansRestored SelectedServicesAnswer RepeatsPrepared
INVARIANTS RowsOfOneAttempt OwnEvidenceShown AdviceIsSound
PROPERTIES NoSecondRun LowerVersionsFirst NoRestoreWithoutConsent
CHECK_DEADLOCK FALSE

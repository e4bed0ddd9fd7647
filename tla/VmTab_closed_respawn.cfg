CONSTANTS
  MaxQueue = 2
  MaxConnectFailures = 1
  VmViews = {"stopped", "running"}
  EnhancedViews = {FALSE, TRUE}
  SpawnOutcomes = {"connecting"}
  UserActs = {"deselect", "dialog", "settings", "close"}
  PollPeriod = 0
  UpgradeDelay = 0
  RetryDelay = 0
  EnhancedRetryDelay = 0
SPECIFICATION Spec
INVARIANTS ClosedTabHasNoChild
CHECK_DEADLOCK FALSE

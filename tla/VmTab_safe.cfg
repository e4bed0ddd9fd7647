CONSTANTS
  MaxQueue = 2
  MaxConnectFailures = 2
  VmViews = {"missing", "stopped", "job", "changing", "running"}
  EnhancedViews = {FALSE}
  SpawnOutcomes = {"connecting", "failed"}
  UserActs = {"deselect", "dialog", "settings", "close"}
  PollPeriod = 0
  UpgradeDelay = 0
  RetryDelay = 0
  EnhancedRetryDelay = 0
SPECIFICATION Spec
INVARIANTS PopupOnlyWhenWanted ErrorLatchHolds PageAgreesWithChild
PROPERTIES TickKeepsPreconnectedChild
CHECK_DEADLOCK FALSE

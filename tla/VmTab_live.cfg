CONSTANTS
  MaxQueue = 1
  MaxConnectFailures = 2
  VmViews = {"stopped", "running"}
  EnhancedViews = {TRUE}
  SpawnOutcomes = {"connecting"}
  UserActs = {}
  PollPeriod = 2
  UpgradeDelay = 1
  RetryDelay = 2
  EnhancedRetryDelay = 4
SPECIFICATION FairSpec
PROPERTIES SessionsComeUp BasicSessionUpgrades FailuresEscalate
CHECK_DEADLOCK FALSE

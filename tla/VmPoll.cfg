CONSTANTS
  Vms = {v1}
  Callers = {c1, c2}
  MaxRevision = 3
  MaxTicks = 1
  ConnectResults = {TRUE, FALSE}
  SetupResults = {"ok", "noService", "throws"}
  ReadResults = {TRUE, FALSE}
  WaitsMayExpire = TRUE
SPECIFICATION LiveSpec
INVARIANTS ServedIsFresh
PROPERTIES AutoCloseSparesKnown DeletedTabsClose LaunchSettles
CHECK_DEADLOCK FALSE

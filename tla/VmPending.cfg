CONSTANTS
  Ops = {1, 2}
  Kinds = {"start", "shutdown", "snapshot", "revert"}
  WmiThrows = TRUE
SPECIFICATION FairSpec
INVARIANTS BlinkAgrees
PROPERTIES MarkLasts RevertResumes BlinkEnds
CHECK_DEADLOCK FALSE

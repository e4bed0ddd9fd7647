SPECIFICATION FairSpec
CONSTANTS
  Changes = {c1, c2, c3}
  Faults = {"fail"}
  MaxLaunches = 3
INVARIANT NothingForgotten
PROPERTIES Implements ExitCompletes
CHECK_DEADLOCK FALSE

SPECIFICATION FairSpec
CONSTANTS
  Changes = {c1}
  Faults = {}
  MaxLaunches = 1
PROPERTIES DebouncedSave
CHECK_DEADLOCK FALSE

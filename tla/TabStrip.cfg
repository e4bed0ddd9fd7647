SPECIFICATION Spec
CONSTANTS
  None = None
  VMs = {v1}
  Hosts = {h1}
  Windows = {main, torn}
  Primary = main
  Tabs = {t1, t2, t3}
  MaxDialogs = 2
INVARIANTS
  TypeOK
  SavedIsStrip
  SessionsOwned
  WindowsShowSelected
PROPERTIES
  RestoreKeepsTabs
  UncoveredByLastDialog
SYMMETRY TabSymmetry

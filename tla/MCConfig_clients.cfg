SPECIFICATION Spec
CONSTANTS
  Contents <- ThreeFiles
  MaxEdits = 2
  MaxFaults = 0
CHECK_DEADLOCK FALSE
INVARIANTS
  ClientsHotReload

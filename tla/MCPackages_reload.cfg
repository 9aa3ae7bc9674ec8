SPECIFICATION FairSpec
CONSTANTS
  p1 = p1
  p2 = p2
  Pkg = {p1, p2}
  Static = {p1}
  MaxWrites = 4
  MaxFaults = 2
CHECK_DEADLOCK FALSE
INVARIANTS
  Inv InSync
PROPERTIES
  SettlesOnFile

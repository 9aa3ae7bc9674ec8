SPECIFICATION Spec
CONSTANTS
  p1 = p1
  p2 = p2
  Pkg = {p1, p2}
  Static = {}
  MaxWrites = 2
  MaxFaults = 0
CHECK_DEADLOCK FALSE
INVARIANTS
  EditsPickedUp

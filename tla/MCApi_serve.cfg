SPECIFICATION FairApiSpec
CONSTANTS
  p1 = p1
  Pkg = {p1}
  Static = {p1}
  MaxWrites = 2
  MaxFaults = 1
  Conn = {1,2}
  MaxCode = 1
CHECK_DEADLOCK FALSE
INVARIANTS
  ApiInv AnswersFresh
PROPERTIES
  RefusedChangesNothing PolledIffTracked

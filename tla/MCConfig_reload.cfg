SPECIFICATION FairSpec
CONSTANTS
  Contents <- Files
  MaxEdits = 4
  MaxFaults = 1
CHECK_DEADLOCK FALSE
INVARIANTS
  Inv SnapshotFollows ClientsOfOneSnapshot ClientsFollow
PROPERTIES
  SettlesOnFile

SPECIFICATION Spec
CONSTANTS
  e1 = e1  e2 = e2
  p1 = p1  p2 = p2
  base = base  split1 = split1  split2 = split2
  Emu = {e1}
  Pkg = {p1, p2}
  Name = {base, split1, split2}
  MaxCode = 3
  MaxFaults = 1
  Layout <- OneLayout
  Clients <- OneClient
  Keep = 2
  Packages <- TwoPackages
INVARIANTS
  LatestInv LatestNamesAFile
PROPERTIES
  LatestNeverRegresses

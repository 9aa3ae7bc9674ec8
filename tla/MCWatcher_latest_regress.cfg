SPECIFICATION Spec
CONSTANTS
  e1 = e1  e2 = e2
  p1 = p1  p2 = p2
  base = base  split1 = split1  split2 = split2
  Emu = {e1, e2}
  Pkg = {p1}
  Name = {base, split1, split2}
  MaxCode = 2
  MaxFaults = 2
  Layout <- TwoLayouts
  Clients <- TwoClients
  Keep = 3
  Packages <- OnePackage
PROPERTIES
  LatestNeverRegresses

SPECIFICATION LifeSpec
CONSTANTS
  c1 = c1
  c2 = c2
  c3 = c3
  d1 = d1
  d2 = d2
  d3 = d3
  d4 = d4
  d5 = d5
  NoDir = NoDir
  Names = {"a", "b"}
  Dirs <- MCDirs
  Branches = {"main", "trunk"}
  Template = "main"
  NoHead = "none"
  Callers <- MCCallers
  LifeAsk <- MCLifeAsk
  InitAt <- MCInitAt
INVARIANTS
  LifeTypeOK
  KeptUntilDeleted
SYMMETRY MCSymmetry

SPECIFICATION LandFairSpec
CONSTANTS
  l1 = l1
  l2 = l2
  l3 = l3
  NoRef = "none"
  NoOid = 0
  Commits <- MCCommits
  NonCommits = {}
  Parents <- MCParents
  Anc <- MCAnc
  TreeOf <- MCTreeOf
  Heads = {"main"}
  Tags = {}
  NameLen <- MCNameLen
  InitObjs <- MCInitObjs
  InitRefs <- MCInitRefs
  InitHead = "main"
  Landers <- MCLanders
  Ask <- MCAsk
PROPERTIES
  EveryChangeLands

SPECIFICATION LandSpec
CONSTANTS
  l1 = l1
  l2 = l2
  NoRef = "none"
  NoOid = 0
  Commits <- MCCommits
  NonCommits <- MCNonCommits
  Parents <- MCParents
  Anc <- MCAnc
  TreeOf <- MCTreeOf
  Heads = {"main", "rel"}
  Tags = {}
  NameLen <- MCNameLen
  InitObjs <- MCInitObjs
  InitRefs <- MCInitRefs
  InitHead = "main"
  Landers <- MCLanders
  Ask <- MCAsk
CONSTRAINT FewMerges
INVARIANTS
  LandTypeOK
  LandingsNeverLost
  NoDoubleMerge
PROPERTIES
  FastForwardOnly
  LandingIsAtomic

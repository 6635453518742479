SPECIFICATION MovedSpec
CONSTANTS
  l1 = l1
  l2 = l2
  NoRef = "none"
  NoOid = 0
  Commits <- MCCommits
  NonCommits <- MCNonCommits
  Parents <- MCParents
  Anc <- MCAnc
  TreeOf <- MCTreeOf
  Heads = {"main"}
  Tags = {}
  NameLen <- MCNameLen
  InitObjs <- MCInitObjs
  InitRefs <- MCInitRefs
  InitHead = "main"
  Landers <- MCLanders
  Ask <- MCAsk
  Places = {"fork", "old", "free"}
  Others <- MCOthers
CONSTRAINT FewMerges
INVARIANTS
  EachIsComplete
  LandedSomewhere
PROPERTIES
  ForwardInEach

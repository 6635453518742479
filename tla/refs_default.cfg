SPECIFICATION RefSpec
CONSTANTS
  k1 = k1
  k2 = k2
  NoRef = "none"
  NoOid = 0
  Commits <- MCCommits
  NonCommits <- MCNonCommits
  Parents <- MCParents
  Anc <- MCAnc
  TreeOf <- MCTreeOf
  Heads = {"main", "release"}
  Tags = {"v1"}
  NameLen <- MCNameLen
  InitObjs <- MCInitObjs
  InitRefs <- MCInitRefs
  InitHead = "main"
  Clients <- MCClients
  RefAsk <- MCRefAsk
INVARIANTS
  DefaultBranchKept

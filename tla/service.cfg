SPECIFICATION ServiceSpec
CONSTANTS
  l1 = l1
  p1 = p1
  k1 = k1
  NoRef = "none"
  NoOid = 0
  Commits <- MCCommits
  NonCommits <- MCNonCommits
  Parents <- MCParents
  Anc <- MCAnc
  TreeOf <- MCTreeOf
  Heads = {"main", "work"}
  Tags = {}
  NameLen <- MCNameLen
  InitObjs <- MCInitObjs
  InitRefs <- MCInitRefs
  InitHead = "main"
  Landers <- MCLanders
  Ask <- MCAsk
  Pushers <- MCPushers
  Paths = {}
  Changed <- MCChanged
  Send <- MCSend
  Overlap = FALSE
  Clients <- MCClients
  RefAsk <- MCRefAsk
CONSTRAINT FewMerges
INVARIANTS
  RefTypeOK
PROPERTIES
  ProtectedHistory

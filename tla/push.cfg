SPECIFICATION PushSpec
CONSTANTS
  w = w
  m = m
  NoRef = "none"
  NoOid = 0
  Commits <- MCCommits
  NonCommits <- MCNonCommits
  Parents <- MCParents
  Anc <- MCAnc
  TreeOf <- MCTreeOf
  Heads = {"main", "agent"}
  Tags = {"v1"}
  NameLen <- MCNameLen
  InitObjs <- MCInitObjs
  InitRefs <- MCInitRefs
  InitHead = "main"
  Pushers <- MCPushers
  Paths = {"src", "docs"}
  Changed <- MCChanged
  Send <- MCSend
  Overlap = FALSE
INVARIANTS
  PushTypeOK
  RefsConnected
  PathsConfined
PROPERTIES
  ProtectedForward

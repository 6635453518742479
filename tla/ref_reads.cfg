SPECIFICATION ReadSpec
CONSTANTS
  k1 = k1
  q1 = q1
  NoRef = "none"
  NoOid = 0
  Commits <- MCCommits
  NonCommits <- MCNonCommits
  Parents <- MCParents
  Anc <- MCAnc
  TreeOf <- MCTreeOf
  Heads = {"main", "work"}
  Tags = {"tags/main"}
  NameLen <- MCNameLen
  InitObjs <- MCInitObjs
  InitRefs <- MCInitRefs
  InitHead = "main"
  Clients <- MCClients
  RefAsk <- MCRefAsk
  Readers <- MCReaders
  ReadAsk <- MCReadAsk
  ShortName <- MCShortName
  Peeled <- MCPeeled
  Configured = "trunk"
  Temps = {"main.lock"}
INVARIANTS
  ListingIsTrue
  ResolvedIsTrue
  InfoIsTrue
ACTION_CONSTRAINT OneCall

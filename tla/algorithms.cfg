SPECIFICATION Spec
CONSTANTS
  NameRank <- MCNameRank
  DirRank <- MCDirRank
  Starts <- MCStarts
  Paths <- MCPaths
  ReadLeaves <- MCReadLeaves
  DiffLeaves <- MCDiffLeaves
  Filters <- MCFilters
  MaxDepth = 1
  Sniff = 2
  LcsLimit = 16
  Chars = {"a", "/"}
  PatternLen = 4
  ValueLen = 4
  Lines = {"x", "y"}
  FileLen = 5
  Contexts = {0, 1, 2}
  LogLen = 4
  Limits = {0, 1, 2, 3}
  AncestorLimit = 2
  MergePaths <- MCMergePaths
  MergeLeaves <- MCMergeLeaves
  PickedPaths <- MCPickedPaths
  PickedLeaves <- MCPickedLeaves
  SeriesLen = 2
INVARIANTS
  GlobMatchesItsMeaning
  RefGlobMatchesItsMeaning
  HunksRebuildTheFile
  HunksAreWindows
  DiffIsMinimal
  PreviewsAreExact
  SeriesIsSequential
  LogPagesComplete
  AncestorsAreNearest
  RebaseListsBranch
  ListingsAgree
  DiffIsAPatch
  InitialDiffAgrees
CHECK_DEADLOCK FALSE

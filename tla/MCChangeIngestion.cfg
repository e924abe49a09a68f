SPECIFICATION Spec
CONSTANTS
  Values <- MCValues
  Depth <- MCDepth
  Plain <- MCPlain
  Lowered <- MCLowered
  Longer <- MCLonger
  Documents <- MCDocuments
  Vendors = {"stripe"}
  Repositories <- MCRepositories
  PathOrder <- MCPathOrder
  Pieces <- MCPieces
  GlobLists <- MCGlobLists
  NoGlobs = NoGlobs
  Nothing = Nothing
INVARIANTS
  DiffCoversExactly
  CallSitesFound
  ReportIgnoresFileOrder
  SnapshotStaysInside
  HeldIfPureExtension

SPECIFICATION FairSpec
CONSTANTS
  l1 = l1
  l2 = l2
  x1 = x1
  x2 = x2
  y1 = y1
  c1 = c1
  NoStore = NoStore
  All = All
  Loaders <- TwoLoaders
  Chunks <- ThreeChunks
  Source <- BySource
  Splits <- Documents
  Clients <- OneClient
  Modes <- AllModes
  MaxRequests = 4
  MaxFailures = 1
INVARIANTS TypeOK NoOrphanChunks SyncedIsWhole UpsertCoversStore RefreshCoversStore
PROPERTY UpsertingEnds
CHECK_DEADLOCK FALSE

SPECIFICATION Spec
CONSTANTS
  l1 = l1
  l2 = l2
  x1 = x1
  x2 = x2
  y1 = y1
  c1 = c1
  NoStore = NoStore
  All = All
  Loaders <- TwoLoaders
  Chunks <- ThreeChunks
  Source <- BySource
  Splits <- Documents
  Clients <- OneClient
  Modes <- Incremental
  MaxRequests = 4
  MaxFailures = 1
INVARIANT DeletedLoadersLeaveNothing
CHECK_DEADLOCK FALSE

SPECIFICATION AuditSpec
CONSTANTS
  a1 = a1
  a2 = a2
  b1 = b1
  p1 = p1
  NoRow = NoRow
  Chunks <- Three
  Source <- Sources
  Loads <- Returned
  Targets <- OfOneLoader
  Calls <- OneCall
  Modes <- AllModes
  BatchSize = 2
  CleanupBatchSize = 1
  Drivers <- BothDrivers
  MaxTime = 2
  MaxCalls = 3
  MaxFailures = 2
INVARIANTS TypeOK RecordedIsStored FullIsExact OwnWorkStays RetryHeals
PROPERTIES KeepsContract CallEnds
CHECK_DEADLOCK FALSE

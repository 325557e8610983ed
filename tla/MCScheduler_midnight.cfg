SPECIFICATION Spec
CONSTANTS
  c1 = c1
  c2 = c2
  h1 = h1
  everyTick = everyTick
  lastTick = lastTick
  Clients <- OneClient
  Handlers <- OneHandler
  Configs <- Repaired
  Times <- CronTimes
  Fallback = lastTick
  NoCron = NoCron
  NoRec = NoRec
  NoFlow = NoFlow
  QueueMode = FALSE
  Interrupts = FALSE
  MaxTime = 1
  MaxRequests = 3
  MaxRestarts = 0
INVARIANT FallbackNeverRuns
CHECK_DEADLOCK FALSE

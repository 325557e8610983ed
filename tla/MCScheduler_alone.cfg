SPECIFICATION FairSpec
CONSTANTS
  c1 = c1
  c2 = c2
  h1 = h1
  everyTick = everyTick
  lastTick = lastTick
  Clients <- OneClient
  Handlers <- OneHandler
  Configs <- Lasting
  Times <- CronTimes
  Fallback = lastTick
  NoCron = NoCron
  NoRec = NoRec
  NoFlow = NoFlow
  QueueMode = FALSE
  Interrupts = FALSE
  MaxTime = 3
  MaxRequests = 4
  MaxRestarts = 1
INVARIANTS OneRecord RecordOfFlow NoRecordWithoutFlow NoOrphanJob
PROPERTY EnabledKeepsRunning
CHECK_DEADLOCK FALSE

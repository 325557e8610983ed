SPECIFICATION FairSpec
CONSTANTS
  c1 = c1
  c2 = c2
  h1 = h1
  everyTick = everyTick
  lastTick = lastTick
  Clients <- TwoClients
  Handlers <- OneHandler
  Configs <- Expirable
  Times <- CronTimes
  Fallback = lastTick
  NoCron = NoCron
  NoRec = NoRec
  NoFlow = NoFlow
  QueueMode = FALSE
  Interrupts = TRUE
  MaxTime = 2
  MaxRequests = 3
  MaxRestarts = 0
INVARIANT TypeOK
PROPERTY OrphanHeals
CHECK_DEADLOCK FALSE

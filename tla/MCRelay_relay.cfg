SPECIFICATION FairAuditSpec
CONSTANTS
  rA = rA
  rB = rB
  w1 = w1
  w2 = w2
  k1 = k1
  k2 = k2
  q1 = q1
  q2 = q2
  Nobody = Nobody
  Replicas <- TwoReplicas
  Listeners <- OnePanel
  Chats <- TwoChats
  Requests <- TwoRequests
  Plans <- Twice
  MaxEvents <- ThreeAndOne
INVARIANTS TypeOK HeardWithoutGap PredictionsAreHeard KnowsItsChannels ObserversArePresent
PROPERTY SubscriptionsDrain
CHECK_DEADLOCK FALSE

SPECIFICATION AuditSpec
CONSTANTS
  rA = rA
  rB = rB
  w1 = w1
  w2 = w2
  k1 = k1
  k2 = k2
  q1 = q1
  q2 = q2
  Nobody = Nobody
  Replicas <- TwoReplicas
  Listeners <- TwoPanels
  Chats <- TwoChats
  Requests <- OneRequest
  Plans <- OneWebhook
  MaxEvents <- OneEvent
INVARIANT HeardOnce
CHECK_DEADLOCK FALSE

SPECIFICATION FairSpec
CONSTANTS
  c1 = c1
  c2 = c2
  c3 = c3
  a = a
  b = b
  inv = inv
  pay = pay
  NoConn = NoConn
  Conns = {c1, c2, c3}
  OrderOf <- Watched
  Topics = {inv, pay}
  Feed <- TwoTopics
CHECK_DEADLOCK FALSE
INVARIANTS
  TypeOK
  NobodyLeaked
  
PROPERTIES
  DroppedOnlyByTwoTopics
  HubGoesOn

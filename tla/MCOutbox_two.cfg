SPECIFICATION FairSpec
CONSTANTS
  a = a
  b = b
  w1 = w1
  w2 = w2
  Rows <- ThreeRows
  TxOf <- TwoOrders
  Key <- TwoOrders
  Workers = {w1, w2}
  Batch = 2
  MaxFaults = 2
CHECK_DEADLOCK FALSE
INVARIANTS
  TypeOK
  NoLostEvent
  OrderedUnlessRaced
PROPERTIES
  BacklogDrains
  ImplementsFeed

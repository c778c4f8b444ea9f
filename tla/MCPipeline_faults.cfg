SPECIFICATION FairSpec
CONSTANTS
  o1 = o1
  o2 = o2
  p1 = p1
  p2 = p2
  f1 = f1
  f2 = f2
  NoOrder = NoOrder
  Orders = {o1, o2}
  Stock = 1
  Authorized = {o1}
  PayReplicas = {p1, p2}
  ShipReplicas = {f1, f2}
  MaxFaults = 1
CHECK_DEADLOCK FALSE
INVARIANTS
  TypeOK
  ChargedOnce
  FulfilledOnce
  FinalStatusIsTrue
PROPERTIES
  ServicesImplementOnceOnly
  FollowsOrderLife
  EveryOrderEnds
  RefusalIsShown

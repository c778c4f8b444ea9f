SPECIFICATION FairSpec
CONSTANTS
  r1 = r1
  r2 = r2
  r3 = r3
  alice = alice
  bob = bob
  Requests = {r1, r2, r3}
  CustomerOf <- Senders
  Limit = 1
  Window = 2
  Delay = 1
  LastStart = 3
  End = 6
CHECK_DEADLOCK FALSE
INVARIANTS
  TypeOK
  DecisionsFollowLimit
PROPERTIES
  CountersGo

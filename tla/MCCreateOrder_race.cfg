SPECIFICATION Spec
CONSTANTS
  r1 = r1
  r2 = r2
  r3 = r3
  r4 = r4
  key = key
  body = body
  other = other
  bad = bad
  NoKey = NoKey
  NoOrder = NoOrder
  Requests = {r1, r2, r3, r4}
  Keys = {key}
  Rejected = {bad}
  KeyOf <- SomeKeys
  BodyOf <- AllValid
  Faults = FALSE
  Flushes = FALSE
CHECK_DEADLOCK FALSE
INVARIANTS
  AtMostOneOrderPerKey

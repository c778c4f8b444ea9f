SPECIFICATION Spec
CONSTANTS
  o1 = o1
  o2 = o2
  o3 = o3
  c1 = c1
  c2 = c2
  c3 = c3
  NoOrder = NoOrder
  Orders = {o1, o2, o3}
  Consumers = {c1, c2}
  Skus <- MCSkus
  Catalog <- MCCatalog
  InitialStock <- OddStock
  Lines <- OddLines
  Qty <- OddQty
  Faults = FALSE
INVARIANTS
  ReservesWhatWasOrdered

\* Two payments of one order, its cancellation and the expiry sweep at once.
SPECIFICATION Spec
CONSTANTS
  o1 = o1
  o2 = o2
  l1 = l1
  l2 = l2
  l3 = l3
  Order = {o1, o2}
  Line = {l1, l2, l3}
  OrderOf <- MCOrderOf
  Qty <- MCQty
  Supply = 2
  Payment = {p1, p2}
  PaysFor <- MCPaysFor
  Intent = {p1}
  Confirmer = {c1, c2}
  Canceller = {k1}
  Sweeper = {s1}
SYMMETRY Confirmers
INVARIANTS
  TypeOK
  PaidStockIsHeld
  CompletedIsFulfilled
  HeldOnce
  CancelledFreesStock
  StockAddsUp
PROPERTIES
  ImplementsShelf
CHECK_DEADLOCK FALSE

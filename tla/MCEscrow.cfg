\* Safety: one escrow and two handlers in flight.
SPECIFICATION Spec
CONSTANTS
  e1 = e1
  e2 = e2
  Escrow = {e1}
  Contested = {e1}
  Caller = {c1, c2}
  Switch = {"pssp"}
  Amount <- MCAmount
  Fee <- MCFee
SYMMETRY Callers
INVARIANTS
  TypeOK
  PaysOutWhatItHolds
  DisputeFreezesRelease
  DecidedOnce
PROPERTIES
  ImplementsTrust
CHECK_DEADLOCK FALSE

\* An escalation after the ruling.
SPECIFICATION Spec
CONSTANTS
  e1 = e1
  e2 = e2
  Escrow = {e1}
  Contested = {e1}
  Caller = {c1, c2}
  Switch = {}
  Amount <- MCAmount
  Fee <- MCFee
SYMMETRY Callers
INVARIANT NeverDecidedTwice
CHECK_DEADLOCK FALSE

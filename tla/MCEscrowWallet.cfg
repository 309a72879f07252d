\* Two escrows that share the merchant's wallet, neither of them disputed.
SPECIFICATION Spec
CONSTANTS
  e1 = e1
  e2 = e2
  Escrow = {e1, e2}
  Contested = {}
  Caller = {c1}
  Switch = {"psp", "pssp"}
  Amount <- MCAmount
  Fee <- MCFee
INVARIANT BalanceBacksHolds
CHECK_DEADLOCK FALSE
